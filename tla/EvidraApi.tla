----------------------------- MODULE EvidraApi -----------------------------
(***************************************************************************)
(* The evidra-api server: evidence (HostedApi) and benchmark results        *)
(* (BenchResults) behind one router.  They share no table, and of the       *)
(* authentication only the tenant it gives, so one set of routes adds       *)
(* nothing to the state of the other and a behaviour is of either.          *)
(***************************************************************************)
EXTENDS HostedApi, BenchResults

VARIABLE benching   \* which routes are called

ServerInit == Init /\ ResultsInit /\ benching \in BOOLEAN

ServerNext ==
    /\ UNCHANGED benching
    /\ \/ ~benching /\ Next /\ UNCHANGED resultVars
       \/ benching /\ ResultsNext /\ UNCHANGED vars

ServerSpec == ServerInit /\ [][ServerNext]_<<vars, resultVars, benching>>

=============================================================================
