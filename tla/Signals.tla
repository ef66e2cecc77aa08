------------------------------ MODULE Signals ------------------------------
(***************************************************************************)
(* The signal detectors of internal/signal, as functions of a session's    *)
(* entries and, for unreported prescriptions, of the time.                 *)
(*                                                                          *)
(* An entry is a prescription or a report, as internal/pipeline makes it    *)
(* from the evidence log.  An intent stands for its intent digest, which    *)
(* determines tool, operation class, scope class and resources; an artifact *)
(* stands for its digest and for its shape.  The log orders entries by      *)
(* position, `at' is their timestamp.  Detectors return sets of positions;  *)
(* a signal's count is the size of its set.                                 *)
(***************************************************************************)
EXTENDS Naturals, Sequences, SequencesExt, FiniteSets

CONSTANTS
    Actors, Intents, Artifacts,
    NoArtifact,         \* a digest that is left out
    NoIntent,           \* the intent of an entry that has none
    Area,               \* Area[i]: tool, operation class and scope of intent i
    Tool,               \* Tool[i]: its tool
    Severity,           \* Severity[i]: its elevated risk level, 0..3
    Destroys,           \* intents that destroy more than BlastRadiusThreshold resources
    TTL,                \* DefaultTTL
    RetryThreshold,     \* DefaultRetryThreshold
    VariantThreshold,   \* DefaultVariantRetryThreshold
    RetryWindow,        \* DefaultRetryWindow
    ThrashingThreshold,
    BaselineWindow,
    MinBaselineSamples

ASSUME SignalsAssumption ==
    /\ NoArtifact \notin Artifacts /\ NoIntent \notin Intents
    /\ DOMAIN Area = Intents /\ DOMAIN Tool = Intents
    /\ Severity \in [Intents -> 0..3]
    /\ Destroys \subseteq Intents
    /\ {TTL, RetryWindow, BaselineWindow} \subseteq Nat
    /\ {RetryThreshold, VariantThreshold, ThrashingThreshold, MinBaselineSamples}
         \subseteq Nat \ {0}

-----------------------------------------------------------------------------
\* ref: the position of the prescription a report names, 0 if there is none;
\* exit: the sign of its exit code, "none" for a declined operation.
Exit == {"ok", "fail", "none"}

Prescription(a, i, d, at) ==
    [kind |-> "prescribe", actor |-> a, at |-> at, artifact |-> d,
     intent |-> i, ref |-> 0, exit |-> "none"]
Report(a, ref, d, exit, at) ==
    [kind |-> "report", actor |-> a, at |-> at, artifact |-> d,
     intent |-> NoIntent, ref |-> ref, exit |-> exit]

Prescriptions(log) == {p \in 1..Len(log) : log[p].kind = "prescribe"}
Reports(log)       == {r \in 1..Len(log) : log[r].kind = "report"}
ReportsOf(log, p)  == {r \in Reports(log) : log[r].ref = p}

\* reportExitCode: the map keeps the last report of a prescription.
ReportExit(log, p) ==
    IF ReportsOf(log, p) = {} THEN "none"
    ELSE log[CHOOSE r \in ReportsOf(log, p) : \A q \in ReportsOf(log, p) : q <= r].exit

Earlier(log, p, q) == log[p].at < log[q].at \/ (log[p].at = log[q].at /\ p < q)

\* sort.Slice by timestamp, which keeps log order among equal ones in groups of
\* at most twelve: the k-th is the one that k are not after.  (The concatenation
\* has TLC keep the sequence.)
ByTimestamp(log, set) ==
    LET Rank(p) == Cardinality({q \in set : ~Earlier(log, p, q)})
    IN  <<>> \o [k \in 1..Cardinality(set) |-> CHOOSE p \in set : Rank(p) = k]

-----------------------------------------------------------------------------
(* protocol_violation                                                       *)

\* classifyUnreported: did the actor's latest report fail?
CrashedBefore(log, p) ==
    LET own == {r \in Reports(log) : log[r].actor = log[p].actor}
        last == CHOOSE r \in own :
                  \A q \in own : log[q].at < log[r].at \/ (log[q].at = log[r].at /\ r <= q)
    IN  own # {} /\ log[last].exit = "fail"

\* A report of any actor counts as one.
Unreported(log, set) ==
    {[sub |-> IF CrashedBefore(log, p) THEN "crash_before_report" ELSE "stalled_operation",
      ref |-> p] : p \in {q \in set : ReportsOf(log, q) = {}}}

UnreportedEarly(log, now) ==
    Unreported(log, {p \in Prescriptions(log) : now <= log[p].at + TTL})
DetectUnreported(log, now) ==
    Unreported(log, {p \in Prescriptions(log) : now > log[p].at + TTL})

\* One report of the loop in DetectProtocolViolationEvents; s.reported holds the
\* prescriptions whose slot is taken.
Event(s, sub, r) == [s EXCEPT !.events = @ \cup {[sub |-> sub, ref |-> r]}]
Slot(s, p) == [s EXCEPT !.reported = @ \cup {p}]

JudgedTakingSlot(log, s, r) ==
    LET p == log[r].ref IN
    IF log[r].kind # "report" THEN s
    ELSE IF p \notin Prescriptions(log) THEN Event(s, "unprescribed_action", r)
    ELSE IF p \in s.reported THEN Event(s, "duplicate_report", r)
    ELSE IF log[r].actor # log[p].actor THEN Slot(Event(s, "cross_actor_report", r), p)
    ELSE IF log[p].artifact # NoArtifact /\ log[r].artifact = NoArtifact /\ log[r].exit # "none"
         THEN Slot(Event(s, "report_without_digest", r), p)
    ELSE Slot(s, p)
Judged(log, s, r) ==
    LET p == log[r].ref IN
    IF log[r].kind # "report" THEN s
    ELSE IF p \notin Prescriptions(log) THEN Event(s, "unprescribed_action", r)
    ELSE IF p \in s.reported THEN Event(s, "duplicate_report", r)
    ELSE IF log[r].actor # log[p].actor THEN Event(s, "cross_actor_report", r)
    ELSE IF log[p].artifact # NoArtifact /\ log[r].artifact = NoArtifact /\ log[r].exit # "none"
         THEN Slot(Event(s, "report_without_digest", r), p)
    ELSE Slot(s, p)

DetectProtocolViolations(log, now) ==
    LET judged[r \in 0..Len(log)] ==
            IF r = 0 THEN [reported |-> {}, events |-> {}] ELSE Judged(log, judged[r-1], r)
    IN  judged[Len(log)].events \cup DetectUnreported(log, now)

-----------------------------------------------------------------------------
(* retry_loop                                                               *)

\* One prescription of the loop in detectRetryLoopChains: s.chain runs from a
\* first failure, s.flagged are the chains that were long enough.
Closed(s, threshold) ==
    [chain |-> <<>>,
     flagged |-> s.flagged \cup IF Len(s.chain) >= threshold THEN ToSet(s.chain) ELSE {}]

Begun(log, s, p) ==
    IF ReportExit(log, p) = "fail" THEN [s EXCEPT !.chain = <<p>>] ELSE s

ChainedThroughSuccess(log, s, p, threshold) ==
    IF s.chain = <<>> THEN Begun(log, s, p)
    ELSE IF log[p].at - log[Head(s.chain)].at > RetryWindow THEN Begun(log, Closed(s, threshold), p)
    ELSE [s EXCEPT !.chain = Append(@, p)]
Chained(log, s, p, threshold) ==
    IF s.chain = <<>> THEN Begun(log, s, p)
    ELSE IF log[p].at - log[Head(s.chain)].at > RetryWindow THEN Begun(log, Closed(s, threshold), p)
    ELSE IF ReportExit(log, p) = "ok" THEN Closed(s, threshold)
    ELSE [s EXCEPT !.chain = Append(@, p)]

DetectRetryLoopChains(log, group, threshold) ==
    LET order == ByTimestamp(log, group)
        scanned[k \in 0..Len(order)] ==
            IF k = 0 THEN [chain |-> <<>>, flagged |-> {}]
            ELSE Chained(log, scanned[k-1], order[k], threshold)
    IN  Closed(scanned[Len(order)], threshold).flagged

ByArtifact(log) ==
    [p \in Prescriptions(log) |-> <<log[p].actor, log[p].intent, log[p].artifact>>]
ByIntent(log) == [p \in Prescriptions(log) |-> <<log[p].actor, log[p].intent>>]
ByArea(log)   == [p \in Prescriptions(log) |-> <<log[p].actor, Area[log[p].intent]>>]

\* The prescriptions with equal keys.
Groups(key) == {{q \in DOMAIN key : key[q] = key[p]} : p \in DOMAIN key}

DetectRetryLoops(log) ==
    UNION ({DetectRetryLoopChains(log, g, RetryThreshold) : g \in Groups(ByArtifact(log))}
           \cup {DetectRetryLoopChains(log, g, VariantThreshold) : g \in Groups(ByArea(log))})

-----------------------------------------------------------------------------
(* thrashing, over all actors, and repair_loop, per actor and intent        *)

IntentsOf(log, seq) == {log[seq[k]].intent : k \in 1..Len(seq)}

Thrashed(log, s, p) ==
    LET window == Append(s.window, p) IN
    IF ReportExit(log, p) = "ok" THEN [s EXCEPT !.window = <<>>]
    ELSE IF ReportExit(log, p) = "none" THEN s
    ELSE IF Cardinality(IntentsOf(log, window)) >= ThrashingThreshold
         THEN [window |-> <<>>, flagged |-> s.flagged \cup ToSet(window)]
    ELSE [s EXCEPT !.window = window]

DetectThrashing(log) ==
    LET order == ByTimestamp(log, Prescriptions(log))
        scanned[k \in 0..Len(order)] ==
            IF k = 0 THEN [window |-> <<>>, flagged |-> {}]
            ELSE Thrashed(log, scanned[k-1], order[k])
    IN  scanned[Len(order)].flagged

\* s.failed is the artifact of the failed attempt, NoArtifact if there is none.
Repaired(log, s, p) ==
    IF ReportExit(log, p) = "none" THEN s
    ELSE IF ReportExit(log, p) = "fail" THEN [s EXCEPT !.failed = log[p].artifact]
    ELSE IF s.failed \notin {NoArtifact, log[p].artifact}
         THEN [failed |-> NoArtifact, flagged |-> s.flagged \cup {p}]
    ELSE [s EXCEPT !.failed = NoArtifact]

RepairsIn(log, group) ==
    LET order == ByTimestamp(log, group)
        scanned[k \in 0..Len(order)] ==
            IF k = 0 THEN [failed |-> NoArtifact, flagged |-> {}]
            ELSE Repaired(log, scanned[k-1], order[k])
    IN  scanned[Len(order)].flagged

DetectRepairLoop(log) == UNION {RepairsIn(log, g) : g \in Groups(ByIntent(log))}

-----------------------------------------------------------------------------
(* artifact_drift, blast_radius, new_scope, risk_escalation                 *)

DetectArtifactDrift(log) ==
    {r \in Reports(log) : /\ log[r].artifact # NoArtifact
                          /\ log[r].ref \in Prescriptions(log)
                          /\ log[log[r].ref].artifact \notin {NoArtifact, log[r].artifact}}

DetectBlastRadius(log) == {p \in Prescriptions(log) : log[p].intent \in Destroys}

\* The first prescription of all is the baseline.
DetectNewScope(log) ==
    {p \in Prescriptions(log) :
        /\ \A q \in Prescriptions(log) : q < p => ByArea(log)[q] # ByArea(log)[p]
        /\ \E q \in Prescriptions(log) : q < p}

\* withinWindow of the history of actor and tool.
Stream(log, p) ==
    {q \in Prescriptions(log) :
        /\ log[q].actor = log[p].actor /\ Tool[log[q].intent] = Tool[log[p].intent]
        /\ log[q].at < log[p].at /\ log[q].at + BaselineWindow >= log[p].at}
AllPrior(log, p) == Stream(log, p)
Prior(log, p) == {q \in Stream(log, p) : q < p}

\* baselineSeverity: the mode, of equally frequent ones the lowest.
BaselineSeverity(log, set) ==
    LET Count(s) == Cardinality({q \in set : Severity[log[q].intent] = s})
    IN  CHOOSE s \in 0..3 :
            \A t \in 0..3 : Count(t) < Count(s) \/ (Count(t) = Count(s) /\ s <= t)

DetectRiskEscalation(log) ==
    {p \in Prescriptions(log) :
        /\ Cardinality(Prior(log, p)) >= MinBaselineSamples
        /\ Severity[log[p].intent] > BaselineSeverity(log, Prior(log, p))}

\* AllSignals
AllSignals(log, now) ==
    [protocol_violation |-> Cardinality(DetectProtocolViolations(log, now)),
     artifact_drift     |-> Cardinality(DetectArtifactDrift(log)),
     retry_loop         |-> Cardinality(DetectRetryLoops(log)),
     blast_radius       |-> Cardinality(DetectBlastRadius(log)),
     new_scope          |-> Cardinality(DetectNewScope(log)),
     repair_loop        |-> Cardinality(DetectRepairLoop(log)),
     thrashing          |-> Cardinality(DetectThrashing(log)),
     risk_escalation    |-> Cardinality(DetectRiskEscalation(log))]
=============================================================================
