------------------------- MODULE MCGitOpsController -------------------------
(***************************************************************************)
(* An instance of the Argo CD controller: one application, annotated in any *)
(* way that the reducer and the emitter tell apart, and two replicas.       *)
(***************************************************************************)
EXTENDS GitOpsController

\* A report of an explicit prescription has the key of a zero-touch one, with
\* and without an operation id; for what is not recorded the id does not matter.
AllAnnotations ==
    [operation: BOOLEAN, mode: {"zero-touch"}] \cup [operation: {FALSE}, mode: {"explicit"}]
        \cup [operation: {TRUE}, mode: {"dangling", "session"}]
=============================================================================
