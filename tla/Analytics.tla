----------------------------- MODULE Analytics -----------------------------
(***************************************************************************)
(* The scorecards of a part of the evidence (internal/analytics): the       *)
(* commands scorecard, explain and compare select from the local store by   *)
(* actor, period, tool and scope before anything is detected, and the API   *)
(* does the same with the rows it has, which it puts in order first.        *)
(*                                                                          *)
(* What is left out keeps its place as an entry of another type, which the  *)
(* detectors skip.                                                          *)
(***************************************************************************)
EXTENDS Assessment

CONSTANTS
    Scope,     \* Scope[i]: the scope class of intent i
    All,       \* a filter that is not set, and the tool and scope of nothing
    EntryIDs   \* how the ids of a session's entries may compare: id[k] is the
               \* rank of the k-th entry's

\* An area is a tool, an operation class and a scope.
ASSUME AnalyticsAssumption ==
    /\ DOMAIN Scope = Intents /\ All \notin Actors
    /\ \A i \in Intents : All # Scope[i]
    /\ \A i, j \in Intents : Area[i] = Area[j] => Tool[i] = Tool[j] /\ Scope[i] = Scope[j]
    /\ \A id \in EntryIDs : id \in Seq(Nat) /\ \A j, k \in 1..Len(id) : id[j] = id[k] => j = k

Everything == [actor |-> All, since |-> 0, tool |-> All, scope |-> All]
LeftOut == [Prescription(All, NoIntent, NoArtifact, 0) EXCEPT !.kind = "other"]
Selected(entries, keep) ==
    [k \in 1..Len(entries) |-> IF k \in keep THEN entries[k] ELSE LeftOut]

\* filterEntries: by the actor of the entry itself, and by its own timestamp.
FilterEntries(entries, f) ==
    Selected(entries, {k \in 1..Len(entries) : /\ f.actor \in {All, entries[k].actor}
                                               /\ entries[k].at >= f.since})

\* EvidenceToSignalEntries: a report has the tool and scope of its prescription,
\* if that is among the entries.
ActionAlone(entries, k) ==
    IF k \in Prescriptions(entries)
    THEN [tool |-> Tool[entries[k].intent], scope |-> Scope[entries[k].intent]]
    ELSE [tool |-> All, scope |-> All]
Action(entries, k) ==
    LET p == IF k \in Reports(entries) THEN entries[k].ref ELSE k
    IN  IF p \in Prescriptions(entries)
        THEN [tool |-> Tool[entries[p].intent], scope |-> Scope[entries[p].intent]]
        ELSE [tool |-> All, scope |-> All]

FilterSignalEntriesByToolAndScope(entries, f) ==
    Selected(entries, {k \in 1..Len(entries) : /\ f.tool \in {All, Action(entries, k).tool}
                                               /\ f.scope \in {All, Action(entries, k).scope}})
FilteredSignalEntries(entries, f) ==
    FilterSignalEntriesByToolAndScope(FilterEntries(entries, f), f)

\* ComputeScorecard, ComputeExplain and the commands of the same name
ComputeScorecard(entries, f, time, minOps) ==
    LET kept == FilteredSignalEntries(entries, f)
    IN  CHOOSE card \in {[signals |-> counts,
                          score |-> Compute(counts, Operations(kept), FALSE, minOps)] :
                         counts \in {AllSignals(kept, time)}} : TRUE

\* EvidenceEntriesFromStoredRows: by timestamp, and among equal ones by EntryID,
\* which need not be the order of the log if several processes write.
Older(entries, id, p, q) ==
    entries[p].at < entries[q].at \/ (entries[p].at = entries[q].at /\ id[p] < id[q])
ByTime(entries, id) ==
    LET n == Len(entries)
        Rank(p) == Cardinality({q \in 1..n : ~Older(entries, id, p, q)})
    IN  <<>> \o [k \in 1..n |-> CHOOSE p \in 1..n : Rank(p) = k]
EvidenceEntriesFromStoredRows(entries, id) ==
    LET order == ByTime(entries, id)
        Place(p) == CHOOSE k \in 1..Len(order) : order[k] = p
    IN  [k \in 1..Len(order) |->
            [entries[order[k]] EXCEPT !.ref = IF @ = 0 THEN 0 ELSE Place(@)]]

-----------------------------------------------------------------------------
Here(entries) == Prescriptions(entries) \cup Reports(entries)
Charged(entries) == {v.ref : v \in DetectProtocolViolations(entries, now)}

\* A scorecard of one tool or scope judges an operation, its attempts and its
\* reports as the scorecard of everything does; the history that an escalation
\* is measured by belongs to a tool, not to a scope.
OperationsKept ==
    LET attempts == DetectRetryLoops(log) \cup DetectRepairLoop(log)
        drifted  == DetectArtifactDrift(log)
        severe   == DetectRiskEscalation(log)
        charged  == Charged(log)
    IN  \A f \in {[Everything EXCEPT !.scope = s] : s \in {Scope[i] : i \in Intents}}
                 \cup {[Everything EXCEPT !.tool = t] : t \in {Tool[i] : i \in Intents}} :
            LET kept == FilteredSignalEntries(log, f)
                here == Here(kept)
            IN  /\ DetectRetryLoops(kept) \cup DetectRepairLoop(kept) = attempts \cap here
                /\ DetectArtifactDrift(kept) = drifted \cap here
                /\ f.scope = All => DetectRiskEscalation(kept) = severe \cap here
                /\ Charged(kept) = charged \cap here

\* A period that begins between a prescription and its report makes the report
\* one of an unprescribed action; nothing else in it is judged otherwise.
PeriodsCharge ==
    LET charged == Charged(log) IN
    \A since \in 1..now :
        LET kept == FilteredSignalEntries(log, [Everything EXCEPT !.since = since])
        IN  Charged(kept) =
                (charged \cap Here(kept)) \cup
                {r \in Reports(kept) : log[r].ref # 0 /\ log[log[r].ref].at < since}

\* In its own scorecard an actor is charged with the same reports, and with every
\* overdue prescription that it has not reported on itself, also if another has.
ActorsCharged ==
    LET charged == Charged(log) IN
    \A a \in Actors :
        LET kept == FilteredSignalEntries(log, [Everything EXCEPT !.actor = a])
        IN  Charged(kept) =
                (charged \cap Reports(kept)) \cup
                {p \in Prescriptions(kept) : /\ now > log[p].at + TTL
                                             /\ \A r \in ReportsOf(log, p) : log[r].actor # a}

\* The API has the reports of each prescription in the order they were stored
\* in, and prescriptions of one timestamp in the order of the log.
AsAppended(entries, id) ==
    /\ \A p \in Prescriptions(entries) :
          \A q, r \in ReportsOf(entries, p) : q < r => Older(entries, id, q, r)
    /\ \A p, q \in Prescriptions(entries) : Earlier(entries, p, q) => Older(entries, id, p, q)

\* The API's rows count as the local store's entries, although their order is
\* another: always the operations, drifts, large destructions and scopes, and the
\* violations and attempts too unless reports of one prescription, or
\* prescriptions of one timestamp, come to stand otherwise; only what was severe
\* for its time depends on more.  Where there are enough operations, the scorecard
\* is the assessment that recording was answered with.
Unordered == {"artifact_drift", "blast_radius", "new_scope"}
ReplayAgrees ==
    LET Card(entries) == ComputeScorecard(entries, Everything, now, MinOperations)
        local == Card(log)
    IN  /\ \A id \in {i \in EntryIDs : Len(log) <= Len(i)} :
              LET rows   == EvidenceEntriesFromStoredRows(log, id)
                  hosted == Card(rows)
              IN  /\ Operations(rows) = Operations(log)
                  /\ \A s \in Unordered : hosted.signals[s] = local.signals[s]
                  /\ AsAppended(log, id) => \A s \in Signal \ {"risk_escalation"} :
                                                hosted.signals[s] = local.signals[s]
        /\ local.score.sufficient => local.score = Assessed(log, now)

\* What a part of the evidence says of an operation, and where it misleads.
ScorecardsFaithful == OperationsKept /\ PeriodsCharge /\ ActorsCharged /\ ReplayAgrees
=============================================================================
