----------------------------- MODULE EvidraMcp -----------------------------
(***************************************************************************)
(* The evidra-mcp binary: one process is either an MCP server of its own,   *)
(* on the evidence store it shares with the evidra commands (Recorders), or *)
(* a proxy for another one (Proxy).  The two write to different files, so a *)
(* proxy beside a server adds nothing to either.                            *)
(***************************************************************************)
EXTENDS Recorders, Proxy

VARIABLE proxying   \* --proxy was given

BinaryInit == Init /\ ProxyInit /\ proxying \in BOOLEAN

BinaryNext ==
    /\ UNCHANGED proxying
    /\ \/ ~proxying /\ Next /\ UNCHANGED proxyVars
       \/ proxying /\ ProxyNext /\ UNCHANGED vars

BinarySpec == BinaryInit /\ [][BinaryNext]_<<vars, proxyVars, proxying>>

=============================================================================
