-------------------------- MODULE GitOpsController --------------------------
(***************************************************************************)
(* The Argo CD controller (internal/gitops/argocd) and the event emitter it *)
(* records with (internal/automationevent).                                 *)
(*                                                                          *)
(* Run lists the Application objects, then consumes watches one after the   *)
(* other.  A watch is opened without a resource version, so it begins with  *)
(* the objects as they are and goes on with every change; between two       *)
(* watches changes pass unseen.  An object whose phase is an event is       *)
(* emitted in two statements that are not one transaction: claim the        *)
(* event's key, insert the entry.  An error releases the claim; it, and any *)
(* list or watch that the API server refuses, ends Run for good, and the    *)
(* process goes on serving its own API.                                     *)
(***************************************************************************)
EXTENDS Naturals, Sequences, SequencesExt, FiniteSets, Functions

CONSTANTS
    Apps,             \* Argo Applications
    Replicas,         \* evidra-api processes that run a controller
    Annotations,      \* which of the annotations below occur
    Revisions,        \* Git revisions that are synced
    MaxOps,           \* bound: sync operations
    MaxFaults,        \* bound: closed watches, refused requests, failed queries, stops
    FaultKinds        \* which of "watch", "refused", "query", "reply" and "stop" occur

ASSUME ControllerAssumption ==
    /\ IsFiniteSet(Apps) /\ Apps # {} /\ Revisions \subseteq Nat
    \* Is the operation-id annotation set?  Is there none other, the id of a
    \* stored prescription, an id that is not stored, or only a session id?
    /\ Annotations \subseteq [operation: BOOLEAN,
                             mode: {"zero-touch", "explicit", "dangling", "session"}]
    /\ MaxOps \in Nat /\ MaxFaults \in Nat
    /\ FaultKinds \subseteq {"watch", "refused", "query", "reply", "stop"}

VARIABLES
    notes,     \* notes[a]: how Application a is annotated
    cluster,   \* cluster[a]: the Application's operation, revision and phase
    ops,       \* operations started; the last one's number
    pc,        \* pc[p]: the controller of replica p
    todo,      \* todo[p]: observed objects that it has not handled yet
    watching,  \* watching[p]: is a watch open?
    cur,       \* cur[p]: the object being emitted
    claims,    \* committed webhook_events keys
    rows,      \* committed entries, and which replica wrote them
    abandoned, \* history: keys that a holder has let go of without an entry
    faults     \* faults[kind]: how many there have been

control == <<pc, todo, watching, cur>>
vars == <<notes, cluster, ops, control, claims, rows, abandoned, faults>>

-----------------------------------------------------------------------------
Phase  == {"none", "running", "succeeded", "failed"}
Done   == {"succeeded", "failed"}
Object == [app: Apps, op: 0..MaxOps, rev: Revisions \cup {0}, phase: Phase]
Kind   == {"prescribe", "report"}
Key    == [app: Apps, id: Nat, phase: Phase, kind: Kind]
Unsynced(a) == [app |-> a, op |-> 0, rev |-> 0, phase |-> "none"]

\* reducePhase
KindOf(o) == IF o.phase = "running" THEN "prescribe" ELSE "report"

\* firstNonEmpty(OperationID, Revision)
OperationOrRevision(o) == IF notes[o.app].operation THEN o.op ELSE o.rev

\* lifecycleKey: the phase is part of the key where the revision stands in for
\* the operation.
KeyWithoutKind(o) ==
    [app |-> o.app, id |-> OperationOrRevision(o), phase |-> "none", kind |-> "report"]
KeyOf(o) ==
    [app |-> o.app, id |-> OperationOrRevision(o), kind |-> KindOf(o),
     phase |-> IF notes[o.app].operation THEN "none" ELSE o.phase]

\* ReduceApplication and the early returns of handleApplication.
IsEvent(o) ==
    /\ o.phase # "none"
    /\ notes[o.app].mode # "zero-touch" => o.phase \in Done /\ notes[o.app].mode # "session"

\* mappedPrescriptionID: the entry id of a mapped prescription, and what a
\* report refers to.
Prescription(o) == [app |-> o.app, id |-> OperationOrRevision(o)]

\* SaveRaw violates the primary key of evidence_entries.
Conflict(o) ==
    KindOf(o) = "prescribe" /\
    \E i \in 1..Len(rows) : rows[i].kind = "prescribe" /\ rows[i].ref = Prescription(o)

\* SyncOnce: running operations first, then by name (here: some fixed order).
SyncOrder ==
    LET running == {a \in Apps : cluster[a].phase = "running"}
        Objects(s) == [i \in 1..Cardinality(s) |-> cluster[SetToSeq(s)[i]]]
    IN  Objects(running) \o Objects(Apps \ running)

TypeOK ==
    /\ notes \in [Apps -> Annotations]
    /\ cluster \in [Apps -> Object]
    /\ ops \in 0..MaxOps
    /\ pc \in [Replicas -> {"down", "loop", "claim", "save", "release", "dead"}]
    /\ todo \in [Replicas -> Seq(Object)]
    /\ watching \in [Replicas -> BOOLEAN]
    /\ cur \in [Replicas -> Object]
    /\ claims \subseteq Key
    /\ rows \in Seq([key: Key, kind: Kind, ref: [app: Apps, id: Nat], by: Replicas])
    /\ abandoned \subseteq Key
    /\ faults \in [FaultKinds -> Nat]
    /\ \A p \in Replicas : pc[p] \in {"down", "dead"} => ~watching[p] /\ todo[p] = <<>>

Init ==
    /\ notes \in [Apps -> Annotations]
    /\ cluster = [a \in Apps |-> Unsynced(a)]
    /\ ops = 0
    /\ pc = [p \in Replicas |-> "down"]
    /\ todo = [p \in Replicas |-> <<>>]
    /\ watching = [p \in Replicas |-> FALSE]
    /\ cur = [p \in Replicas |-> Unsynced(CHOOSE a \in Apps : TRUE)]
    /\ claims = {}
    /\ rows = <<>>
    /\ abandoned = {}
    /\ faults = [kind \in FaultKinds |-> 0]

-----------------------------------------------------------------------------
(* Argo CD.                                                                 *)

Change(a, o) ==
    /\ cluster' = [cluster EXCEPT ![a] = o]
    /\ todo' = [p \in Replicas |->
                   IF watching[p] THEN Append(todo[p], o) ELSE todo[p]]
    /\ UNCHANGED <<notes, pc, watching, cur, claims, rows, abandoned, faults>>

StartSync(a) ==
    /\ ops < MaxOps
    /\ cluster[a].phase # "running"
    /\ ops' = ops + 1
    /\ \E rev \in Revisions :
          Change(a, [app |-> a, op |-> ops + 1, rev |-> rev, phase |-> "running"])

FinishSync(a) ==
    /\ cluster[a].phase = "running"
    /\ \E phase \in Done : Change(a, [cluster[a] EXCEPT !.phase = phase])
    /\ UNCHANGED ops

-----------------------------------------------------------------------------
(* The controller.                                                          *)

Goto(p, step) == pc' = [pc EXCEPT ![p] = step]

\* The process starts: Run calls SyncOnce.
Boot(p) ==
    /\ pc[p] = "down"
    /\ Goto(p, "loop")
    /\ todo' = [todo EXCEPT ![p] = SyncOrder]
    /\ UNCHANGED <<notes, cluster, ops, watching, cur, claims, rows, abandoned, faults>>

WatchFromNow(p) ==
    /\ pc[p] = "loop" /\ ~watching[p] /\ todo[p] = <<>>
    /\ watching' = [watching EXCEPT ![p] = TRUE]
    /\ UNCHANGED <<notes, cluster, ops, pc, todo, cur, claims, rows, abandoned, faults>>
OpenWatch(p) ==
    /\ pc[p] = "loop" /\ ~watching[p] /\ todo[p] = <<>>
    /\ watching' = [watching EXCEPT ![p] = TRUE]
    /\ todo' = [todo EXCEPT ![p] = SyncOrder]
    /\ UNCHANGED <<notes, cluster, ops, pc, cur, claims, rows, abandoned, faults>>

\* consumeWatch takes the next object.
Take(p) ==
    /\ pc[p] = "loop" /\ todo[p] # <<>>
    /\ todo' = [todo EXCEPT ![p] = Tail(@)]
    /\ cur' = [cur EXCEPT ![p] = Head(todo[p])]
    /\ Goto(p, IF IsEvent(Head(todo[p])) THEN "claim" ELSE "loop")
    /\ UNCHANGED <<notes, cluster, ops, watching, claims, rows, abandoned, faults>>

\* claimEvent
ClaimAnyway(p) ==
    /\ pc[p] = "claim"
    /\ claims' = claims \cup {KeyOf(cur[p])}
    /\ Goto(p, "save")
    /\ UNCHANGED <<notes, cluster, ops, todo, watching, cur, rows, abandoned, faults>>
Claim(p) ==
    /\ pc[p] = "claim"
    /\ claims' = claims \cup {KeyOf(cur[p])}
    /\ Goto(p, IF KeyOf(cur[p]) \in claims THEN "loop" ELSE "save")
    /\ UNCHANGED <<notes, cluster, ops, todo, watching, cur, rows, abandoned, faults>>

Entry(p, o) == [key |-> KeyOf(o), kind |-> KindOf(o), ref |-> Prescription(o), by |-> p]

\* The holder of a claim stops before its entry is stored.
Abandon(p) == abandoned' = abandoned \cup {KeyOf(cur[p])}

\* The rest of emit: an explicit report needs its prescription.
Save(p) ==
    /\ pc[p] = "save"
    /\ IF notes[cur[p].app].mode = "dangling" \/ Conflict(cur[p])
       THEN Goto(p, "release") /\ Abandon(p) /\ UNCHANGED rows
       ELSE /\ Goto(p, "loop")
            /\ rows' = Append(rows, Entry(p, cur[p]))
            /\ UNCHANGED abandoned
    /\ UNCHANGED <<notes, cluster, ops, todo, watching, cur, claims, faults>>

\* Run returns: the deferred watcher.Stop.
Die(p) ==
    /\ Goto(p, "dead")
    /\ todo' = [todo EXCEPT ![p] = <<>>]
    /\ watching' = [watching EXCEPT ![p] = FALSE]

\* The deferred release, then the error ends Run.
Release(p) ==
    /\ pc[p] = "release"
    /\ claims' = claims \ {KeyOf(cur[p])}
    /\ Die(p)
    /\ UNCHANGED <<notes, cluster, ops, cur, rows, abandoned, faults>>

-----------------------------------------------------------------------------
Faults == FoldFunction(+, 0, faults)
Fault(kind) ==
    /\ kind \in FaultKinds
    /\ Faults < MaxFaults
    /\ faults' = [faults EXCEPT ![kind] = @ + 1]
    /\ UNCHANGED notes

Never(kind) == kind \in FaultKinds => faults[kind] = 0

\* The API server ends the watch; what it had not sent is lost.
CloseWatch(p) ==
    /\ watching[p]
    /\ Fault("watch")
    /\ watching' = [watching EXCEPT ![p] = FALSE]
    /\ \E n \in 0..Len(todo[p]) : todo' = [todo EXCEPT ![p] = SubSeq(@, 1, n)]
    /\ UNCHANGED <<cluster, ops, pc, cur, claims, rows, abandoned>>

\* The API server refuses the list of SyncOnce or the next watch: Run returns.
Refused(p) ==
    /\ pc[p] = "down" \/ (pc[p] = "loop" /\ ~watching[p] /\ todo[p] = <<>>)
    /\ Fault("refused")
    /\ Die(p)
    /\ UNCHANGED <<cluster, ops, cur, claims, rows, abandoned>>

\* A query fails without effect.
QueryFails(p) ==
    /\ \/ pc[p] \in {"claim", "release"} /\ Die(p) /\ UNCHANGED abandoned
       \/ /\ pc[p] = "save" /\ Goto(p, "release") /\ Abandon(p)
          /\ UNCHANGED <<todo, watching>>
    /\ Fault("query")
    /\ UNCHANGED <<cluster, ops, cur, claims, rows>>

\* The statement is executed but its reply is lost: the emitter sees an error.
ReplyLost(p) ==
    /\ \/ /\ pc[p] = "claim"
          /\ claims' = claims \cup {KeyOf(cur[p])}
          /\ Die(p) /\ Abandon(p)
          /\ UNCHANGED rows
       \/ /\ pc[p] = "save" /\ notes[cur[p].app].mode # "dangling" /\ ~Conflict(cur[p])
          /\ rows' = Append(rows, Entry(p, cur[p]))
          /\ Goto(p, "release")
          /\ UNCHANGED <<todo, watching, claims, abandoned>>
    /\ Fault("reply")
    /\ UNCHANGED <<cluster, ops, cur>>

\* The process is killed, or shut down: the query in flight and the release,
\* which use the cancelled context, fail.
Stop(p) ==
    /\ pc[p] # "down"
    /\ Fault("stop")
    /\ Goto(p, "down")
    /\ todo' = [todo EXCEPT ![p] = <<>>]
    /\ watching' = [watching EXCEPT ![p] = FALSE]
    /\ IF pc[p] = "save" THEN Abandon(p) ELSE UNCHANGED abandoned
    /\ UNCHANGED <<cluster, ops, cur, claims, rows>>

-----------------------------------------------------------------------------
Proceed(p) ==
    Boot(p) \/ OpenWatch(p) \/ Take(p) \/ Claim(p) \/ Save(p) \/ Release(p)

Next ==
    \/ \E a \in Apps : StartSync(a) \/ FinishSync(a)
    \/ \E p \in Replicas :
          Proceed(p) \/ CloseWatch(p) \/ Refused(p) \/ QueryFails(p) \/ ReplyLost(p) \/ Stop(p)

Spec == Init /\ [][Next]_vars

\* Processes are restarted, and a running controller goes on.
FairSpec == Spec /\ \A p \in Replicas : WF_vars(Proceed(p))

-----------------------------------------------------------------------------
(* Properties.                                                              *)

\* Replicas that observe the same objects, watches that repeat them, restarts
\* and released claims: as long as a query that fails has taken no effect, an
\* event is never recorded twice (claimEvent).
OncePerEvent ==
    Never("reply") =>
        \A i, j \in 1..Len(rows) : rows[i].key = rows[j].key => i = j

\* Even when the reply to an insert is lost and its claim released, a
\* prescription is not stored a second time (mappedPrescriptionID).
PrescribedOnce ==
    \A i, j \in 1..Len(rows) :
        (rows[i].kind = "prescribe" /\ rows[j].kind = "prescribe"
            /\ rows[i].ref = rows[j].ref) => i = j

\* A controller that records both ends of an identified operation records the
\* prescription first, whatever it missed or did again (Run, SyncOnce).
PrescribeFirst ==
    \A i, j \in 1..Len(rows) :
        (/\ rows[i].kind = "prescribe" /\ rows[j].kind = "report"
         /\ rows[i].ref = rows[j].ref /\ notes[rows[i].ref.app].operation
         /\ rows[i].by = rows[j].by) => i < j

Recorded(o) == \E i \in 1..Len(rows) : rows[i].key = KeyOf(o)

\* "reconcile completion becomes a translated report": the final state of an
\* operation is recorded, unless the next one begins before that, by whichever
\* replica still runs, whatever watches were closed, queries failed and processes
\* stopped.  It is lost only if every controller has ended, or one that had
\* claimed the event stopped before its entry was stored.
CompletionRecorded ==
    \A a \in Apps :
        (cluster[a].phase \in Done)
            ~> \/ Recorded(cluster[a]) \/ cluster[a].phase = "running"
               \/ notes[a].mode = "session" \/ KeyOf(cluster[a]) \in abandoned
               \/ \A p \in Replicas : pc[p] = "dead"

\* What the replicas have stored, together: no event and no prescription twice,
\* and prescriptions before their reports.
RecordsSound == TypeOK /\ OncePerEvent /\ PrescribedOnce /\ PrescribeFirst
=============================================================================
