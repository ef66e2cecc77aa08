--------------------------- MODULE MCBenchRunners ---------------------------
(***************************************************************************)
(* Instances of the runner queue: two runner ids, one job, pinned or *)
(* not, of one scenario, and two claims of it.                              *)
(***************************************************************************)
EXTENDS BenchRunners
=============================================================================
