----------------------------- MODULE Assessment -----------------------------
(***************************************************************************)
(* A session's evidence as it grows, and what internal/assessment says of   *)
(* it at any time: the signals of Signals and the score of Score.           *)
(*                                                                          *)
(* The lifecycle service records any report on an entry of the store,      *)
(* whoever sends it, a second time too, and also if the entry it names is   *)
(* no prescription (ref 0); the detectors are what judges it.               *)
(***************************************************************************)
EXTENDS Signals, Score

CONSTANTS
    Plans,        \* what is prescribed: <<intent, artifact>>
    Outcomes,     \* what is reported: <<artifact, exit>>
    MaxEntries,   \* bound: MaxEntries[h] limits a session that begins with the
                  \* entries h, which are at time 0
    MaxTime,      \* bound: the clock
    Skew          \* how far the timestamp of an entry may lie back

\* The entries of a session at a time, as the store permits them.
Entry == [kind: {"prescribe", "report"}, actor: Actors, at: Nat,
          artifact: Artifacts \cup {NoArtifact}, intent: Intents \cup {NoIntent},
          ref: Nat, exit: Exit]
Session(entries, time) ==
    /\ entries \in Seq(Entry)
    /\ \A k \in 1..Len(entries) :
          /\ entries[k].at <= time
          /\ entries[k].kind = "prescribe" => entries[k].intent \in Intents
          /\ entries[k].ref \in Prescriptions(entries) \cup {0} /\ entries[k].ref < k

ASSUME AssessmentAssumption ==
    /\ Plans \subseteq Intents \X (Artifacts \cup {NoArtifact})
    /\ Outcomes \subseteq (Artifacts \cup {NoArtifact}) \X Exit
    /\ \A h \in DOMAIN MaxEntries : Session(h, 0) /\ MaxEntries[h] \in Nat
    /\ MaxTime \in Nat /\ Skew \in Nat

VARIABLES
    log,   \* the entries of the session in store order
    now    \* the time

vars == <<log, now>>

Init == log \in DOMAIN MaxEntries /\ now = 0

Times == {t \in 0..now : t + Skew >= now}

Room == \E h \in DOMAIN MaxEntries : Len(log) < MaxEntries[h] /\ IsPrefix(h, log)

Add(e) == log' = Append(log, e) /\ UNCHANGED now

\* An entry is stamped before its writer has the store's lock, so two processes
\* may append in the other order; a report is stamped when the prescription it
\* names is in the store already.
Prescribe ==
    Room /\ \E a \in Actors, plan \in Plans, t \in Times :
        Add(Prescription(a, plan[1], plan[2], t))

RecordReport ==
    /\ Room
    /\ \E a \in Actors, ref \in Prescriptions(log) \cup {0}, outcome \in Outcomes, t \in Times :
        /\ ref # 0 => log[ref].at <= t
        /\ Add(Report(a, ref, outcome[1], outcome[2], t))

Wait == now < MaxTime /\ now' = now + 1 /\ UNCHANGED log

Next == Prescribe \/ RecordReport \/ Wait

Spec == Init /\ [][Next]_vars

-----------------------------------------------------------------------------
Operations(entries) == Cardinality(Prescriptions(entries))

\* buildSnapshotFromEntries at a time
Assessed(entries, time) ==
    CHOOSE a \in {Snapshot(c, Operations(entries)) : c \in {AllSignals(entries, time)}} : TRUE

\* The log holds entries, the score is one of 0..100 or the answer is that
\* there is not enough data, whatever the detectors count.
TypeOK ==
    /\ now \in 0..MaxTime
    /\ Session(log, now)
    /\ \A a \in {Assessed(log, now)} : a.sufficient => a.times \in 0..100 * Operations(log)

Succeeded(p) == ReportExit(log, p) = "ok"
Failed(p) == ReportExit(log, p) = "fail"
Before(p, q) == Earlier(log, p, q)
Between(p, q) == {m \in Prescriptions(log) : Before(p, m) /\ Before(m, q)}

\* The report that takes the slot of prescription p: its actor's first.
Consumes(r, p) ==
    /\ p \in Prescriptions(log) /\ r \in ReportsOf(log, p) /\ log[r].actor = log[p].actor
    /\ \A q \in ReportsOf(log, p) : log[q].actor = log[p].actor => r <= q

\* "All count as protocol_violation": every report but the one that takes the
\* slot of its prescription is a violation, whatever the order of reports of
\* several actors, and exactly the overdue prescriptions nobody has reported on
\* ("A wrong-actor report MUST NOT also emit stalled_operation").
ProtocolAccounts ==
    LET events == DetectProtocolViolations(log, now)
        Subs(e) == {v.sub : v \in {w \in events : w.ref = e}}
    IN  /\ \A r \in Reports(log) :
              Subs(r) = IF log[r].ref = 0 THEN {"unprescribed_action"}
                        ELSE IF Consumes(r, log[r].ref) THEN
                               IF /\ log[r].artifact = NoArtifact /\ log[r].exit # "none"
                                  /\ log[log[r].ref].artifact # NoArtifact
                               THEN {"report_without_digest"} ELSE {}
                        ELSE IF \E q \in Reports(log) : q < r /\ Consumes(q, log[r].ref)
                               THEN {"duplicate_report"}
                        ELSE {"cross_actor_report"}
        /\ \A p \in Prescriptions(log) :
              Subs(p) # {} <=> (ReportsOf(log, p) = {} /\ now > log[p].at + TTL)

\* A retry loop that is counted is one: each of its prescriptions belongs to a
\* run of RetryThreshold or more that begins with a failure, lies within the
\* window and has no success in it.
LoopsSound ==
    \A p \in DetectRetryLoops(log) :
        \E run \in SUBSET DetectRetryLoops(log) :
            /\ p \in run /\ Cardinality(run) >= AtMost(RetryThreshold, VariantThreshold)
            /\ \A q \in run : ByArea(log)[q] = ByArea(log)[p] /\ ~Succeeded(q)
            /\ \E first \in run :
                  /\ Failed(first)
                  /\ \A q \in run : log[first].at <= log[q].at
                                     /\ log[q].at <= log[first].at + RetryWindow

\* Thrashing needs ThrashingThreshold different failed intents with no success
\* between the first and the last of them, and a repair is a success whose last
\* known attempt before failed with another artifact.
ThrashingSound ==
    \A p \in DetectThrashing(log) :
        \E run \in SUBSET DetectThrashing(log) :
            /\ p \in run /\ \A q \in run : Failed(q)
            /\ Cardinality({log[q].intent : q \in run}) >= ThrashingThreshold
            /\ \A q, m \in run : \A b \in Between(q, m) : ~Succeeded(b)

RepairsExact ==
    DetectRepairLoop(log) =
        {p \in Prescriptions(log) :
            /\ Succeeded(p)
            /\ LET earlier == {q \in Prescriptions(log) :
                                 /\ Before(q, p) /\ ReportExit(log, q) # "none"
                                 /\ log[q].actor = log[p].actor /\ log[q].intent = log[p].intent}
               IN  \E q \in earlier :
                     /\ Failed(q) /\ log[q].artifact \notin {NoArtifact, log[p].artifact}
                     /\ \A m \in earlier : m = q \/ Before(m, q)}

\* What a prescription is judged by when it is recorded, it is judged by for
\* ever: later entries and time change neither escalations nor new scopes.
VerdictsCausal ==
    [][\A p \in Prescriptions(log) :
          /\ p \in DetectRiskEscalation(log) <=> p \in DetectRiskEscalation(log')
          /\ p \in DetectNewScope(log) <=> p \in DetectNewScope(log')]_vars

\* Silence never pays: while nothing is recorded, the score does not rise.
WaitingNeverHelps == [][log' = log => Assessed(log, now').times <= Assessed(log, now).times]_vars

\* The types, the bounds of the score and the account of protocol violations.
AccountsExact == TypeOK /\ ProtocolAccounts

\* The three detectors that follow attempts in a row count what they say.
SequencesSound == LoopsSound /\ ThrashingSound /\ RepairsExact
=============================================================================
