---------------------------- MODULE MCRecorders ----------------------------
(***************************************************************************)
(* An MCP request that makes two calls and a command line process that      *)
(* makes one, on one store: what one prescribes the other may report, and   *)
(* an operation may be attempted twice within the TTL of the retry tracker  *)
(* or beyond it.  As a proxy the binary sees two calls, under one id or     *)
(* two, and a request of upstream whose id may be that of a pending call.   *)
(***************************************************************************)
EXTENDS EvidraMcp, TLC

CONSTANTS r1, k1
MCRequests == {r1}
MCMaxCalls == (r1 :> 2) @@ (k1 :> 1)

\* A declined operation, the one kind of report that run_command does not
\* make; of the two that it makes, one has a verdict its exit code denies.
MCOutcomes == {[verdict |-> "declined", exit |-> "none", why |-> TRUE]}
\* The tool fails, by the protocol or by itself, or succeeds with an exit code.
MCAnswers ==
    {[error |-> TRUE, code |-> "none", isError |-> FALSE],
     [error |-> FALSE, code |-> "none", isError |-> TRUE],
     [error |-> FALSE, code |-> "zero", isError |-> FALSE]}
=============================================================================
