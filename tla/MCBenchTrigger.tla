--------------------------- MODULE MCBenchTrigger ---------------------------
(***************************************************************************)
(* Instances of the benchmark trigger: one or two scenarios and streams,    *)
(* either executor, and channels of one place.                              *)
(***************************************************************************)
EXTENDS BenchTrigger
=============================================================================
