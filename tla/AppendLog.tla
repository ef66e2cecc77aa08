----------------------------- MODULE AppendLog -----------------------------
(***************************************************************************)
(* What the evidence store promises its callers, without files, manifest   *)
(* or lock: a log that only grows, in which a new entry names an entry     *)
(* that is already there as its predecessor (or none), and in which an     *)
(* acknowledged entry is present.                                          *)
(***************************************************************************)
EXTENDS Naturals, Sequences

CONSTANTS Id, NoHash

VARIABLES
    log,    \* the entries, each with its id and the id of its predecessor
    acked   \* ids of acknowledged entries

vars == <<log, acked>>

Entry == [id: Id, prev: Id \cup {NoHash}]

Ids == {log[i].id : i \in 1..Len(log)}

Init == log = <<>> /\ acked = {}

Write(e) ==
    /\ e.id \notin Ids
    /\ log' = Append(log, e)
    /\ UNCHANGED acked

Ack(id) ==
    /\ id \in Ids \ acked
    /\ acked' = acked \cup {id}
    /\ UNCHANGED log

Next ==
    \/ \E e \in Entry : e.prev \in Ids \cup {NoHash} /\ Write(e)
    \/ \E id \in Id : Ack(id)

Spec == Init /\ [][Next]_vars

=============================================================================
