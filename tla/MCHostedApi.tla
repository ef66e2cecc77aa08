---------------------------- MODULE MCHostedApi ----------------------------
(***************************************************************************)
(* Two clients at one address with room for one key per window, two tenants *)
(* beside the default one, and pages of one entry, so that what one client  *)
(* reads another changes, and a batch may be sent again.  Two uploads of    *)
(* two runs in either order, so that they can wait for each other.          *)
(***************************************************************************)
EXTENDS EvidraApi, TLC

CONSTANTS c1, c2
MCClients == {c1, c2}
MCBodies == {<<1, 2>>, <<3>>}
MCMaxCalls == (c1 :> 2) @@ (c2 :> 2)
MCUploads == {<<1>>, <<1, 2>>, <<2, 1>>}
MCSymmetry == Permutations(MCClients)
=============================================================================
