-------------------------- MODULE MCSessionTracker --------------------------
(***************************************************************************)
(* Instances of the session tracker: two goroutines and two sessions, next  *)
(* to another process, failures, busy stores and restarts; and one          *)
(* goroutine with one session next to another process.                      *)
(***************************************************************************)
EXTENDS SessionTracker

CONSTANTS t1, t2, s1, s2

\* The goroutines are alike; of the sessions NoReq chooses one.
Goroutines == Permutations(Threads)
=============================================================================
