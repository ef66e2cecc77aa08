------------------------------- MODULE Score -------------------------------
(***************************************************************************)
(* The reliability score (internal/score) with the embedded default         *)
(* profile, and the snapshot of internal/assessment that is made of it.     *)
(*                                                                          *)
(* Rates are counts over operations, so everything is kept in integers by   *)
(* multiplying with the number of operations: `times' is the score, 0..100, *)
(* times the operations.  Rounding is left out.                             *)
(***************************************************************************)
EXTENDS Integers, FiniteSets

CONSTANT MinOperations   \* profile.MinOperations (100)

ASSUME ScoreAssumption == MinOperations \in Nat \ {0}

\* Weights of the default profile in hundredths.
Weights ==
    [protocol_violation |-> 30, artifact_drift |-> 25, retry_loop |-> 15,
     blast_radius |-> 10, new_scope |-> 5, repair_loop |-> -5, thrashing |-> 10,
     risk_escalation |-> 10]

Signal == DOMAIN Weights

AtMost(m, n) == IF n > m THEN m ELSE n
AtLeast(m, n) == IF n < m THEN m ELSE n

\* rate > percent / 100
RateAbove(count, ops, percent) == 100 * count > percent * ops

\* The sum of weight times rate, clamped to [0, 1], times 100 and the operations.
WeightedSum(counts) ==
    LET Term(s) == Weights[s] * counts[s]
    IN  Term("protocol_violation") + Term("artifact_drift") + Term("retry_loop")
        + Term("blast_radius") + Term("new_scope") + Term("repair_loop")
        + Term("thrashing") + Term("risk_escalation")
Penalty(counts, ops) == AtLeast(0, AtMost(100 * ops, WeightedSum(counts)))

\* computeConfidence
Confidence(violations, ops, external) ==
    IF RateAbove(violations, ops, 10) THEN [level |-> "low", ceiling |-> 85]
    ELSE IF external THEN [level |-> "medium", ceiling |-> 95]
    ELSE [level |-> "high", ceiling |-> 100]

\* Score caps and confidence ceiling.
Capped(times, counts, ops, confidence) ==
    AtMost(confidence.ceiling * ops,
           IF RateAbove(counts.artifact_drift, ops, 5) THEN AtMost(85 * ops, times) ELSE times)

BandFor(times, ops) ==
    IF times >= 99 * ops THEN "excellent"
    ELSE IF times >= 95 * ops THEN "good"
    ELSE IF times >= 90 * ops THEN "fair"
    ELSE "poor"

\* ComputeWithProfileAndMinOperations: external tells whether more than half of
\* the entries were canonicalized by the caller.
Compute(counts, ops, external, minOps) ==
    IF ops < minOps
    THEN [sufficient |-> FALSE, times |-> -1, band |-> "insufficient_data",
          level |-> Confidence(0, 1, external).level]
    ELSE LET confidence == Confidence(counts.protocol_violation, ops, external)
             times == Capped(100 * ops - Penalty(counts, ops), counts, ops, confidence)
         IN  [sufficient |-> TRUE, times |-> times, band |-> BandFor(times, ops),
              level |-> confidence.level]

\* BuildFromResultsWithProfile: a preview from the first operation on.
Snapshot(counts, ops) ==
    IF ops < MinOperations THEN Compute(counts, ops, FALSE, 1)
                           ELSE Compute(counts, ops, FALSE, MinOperations)
=============================================================================
