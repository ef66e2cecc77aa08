---------------------------- MODULE MCAssessment ----------------------------
EXTENDS Analytics

CONSTANTS a1, a2, i1, i2, d1, d2, k8s, prod, dev

MCActors    == {a1, a2}
MCIntents   == {i1, i2}
MCArtifacts == {d1, d2}
MCScope     == [i \in MCIntents |-> IF i = i1 THEN prod ELSE dev]
MCArea      == MCScope
MCTool      == [i \in MCIntents |-> k8s]
MCSeverity  == [i \in MCIntents |-> IF i = i1 THEN 1 ELSE 3]
MCDestroys  == {i2}
MCPlans     == {<<i1, d1>>, <<i2, d1>>}
MCOutcomes  == {<<d1, "ok">>, <<NoArtifact, "fail">>, <<NoArtifact, "none">>}

\* Sessions of three entries; of four that begin with two prescriptions, or with
\* one and the report that it failed; and of six whose first four are an actor's
\* two attempts at one intent, the second of them the repair of the first.
Two == {<<Prescription(a, i1, d1, 0), e>> : a \in MCActors, e \in
           {Prescription(b, j, d2, 0) : b \in MCActors, j \in MCIntents}
           \cup {Report(b, 1, NoArtifact, "fail", 0) : b \in MCActors}}
Repair == {<<Prescription(a, i1, d1, 0), Report(a, 1, NoArtifact, "fail", 0),
             Prescription(a, i1, d2, 0), Report(a, 3, d1, "ok", 0)>> : a \in MCActors}
MCMaxEntries ==
    [h \in {<<>>} \cup Two \cup Repair |->
        CASE h = <<>> -> 3 [] h \in Two -> 4 [] h \in Repair -> 6]

\* Ids that rise with the log, that fall, and with neighbours exchanged.
MCEntryIDs == {<<1, 2, 3, 4, 5, 6>>, <<6, 5, 4, 3, 2, 1>>, <<2, 1, 4, 3, 6, 5>>}

Sym         == Permutations(MCActors)
=============================================================================
