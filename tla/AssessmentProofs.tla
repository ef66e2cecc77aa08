-------------------------- MODULE AssessmentProofs --------------------------
(***************************************************************************)
(* Theorems about the detectors, the score and the sessions of Assessment,  *)
(* and the scorecards of Analytics, for any actors, intents and artifacts,  *)
(* thresholds and windows, and sessions of any length.                      *)
(*                                                                          *)
(* A detector is a recursive function over the entries in some order.  What *)
(* it has found after k of them is stated without the recursion, and proved *)
(* for all k by induction.                                                  *)
(***************************************************************************)
EXTENDS Analytics, FiniteSetTheorems, NaturalsInduction, WellFoundedInduction, TLAPS

\* Induction over the numbers, with the property as a set.
LEMMA SetInduction ==
    ASSUME NEW S, 0 \in S, \A n \in Nat : n \in S => n + 1 \in S
    PROVE  Nat \subseteq S
<1> SUFFICES ASSUME Nat \ S # {} PROVE FALSE
    OBVIOUS
<1>1. PICK x \in Nat \ S : \A y \in Nat \ S : ~ (<<y, x>> \in OpToRel(<, Nat))
    BY NatLessThanWellFounded, WFMin
<1>2. x # 0 /\ x - 1 \in Nat /\ x - 1 < x /\ (x - 1) + 1 = x
    OBVIOUS
<1>3. <<x - 1, x>> \in OpToRel(<, Nat)
    BY <1>2 DEF OpToRel
<1>4. x - 1 \in S
    BY <1>1, <1>2, <1>3
<1>5. (x - 1) + 1 \in S
    BY <1>2, <1>4
<1> QED
    BY <1>2, <1>5

\* A recursion over 1..n in a set X has a solution: f[0] is base, and f[i] is
\* what step i makes of f[i - 1].
Iterated(X, base, n, step) ==
    \E f \in [0..n -> X] : f[0] = base /\ \A i \in 1..n : f[i] = step[i][f[i-1]]

LEMMA Iteration ==
    ASSUME NEW X, NEW base \in X, NEW n \in Nat, NEW step \in [1..n -> [X -> X]]
    PROVE  Iterated(X, base, n, step)
<1> DEFINE S == {m \in Nat : m <= n =>
                    \E f \in [0..m -> X] : /\ f[0] = base
                                           /\ \A i \in 1..m : f[i] = step[i][f[i-1]]}
<1>1. 0 \in S
    <2> DEFINE g == [i \in 0..0 |-> base]
    <2>1. g \in [0..0 -> X] /\ g[0] = base
        OBVIOUS
    <2> HIDE DEF g
    <2>2. \A i \in 1..0 : g[i] = step[i][g[i-1]]
        OBVIOUS
    <2> QED
        BY <2>1, <2>2
<1>2. ASSUME NEW m \in Nat, m \in S PROVE m + 1 \in S
    <2> SUFFICES ASSUME m + 1 <= n
                 PROVE  \E f \in [0..m+1 -> X] :
                           /\ f[0] = base
                           /\ \A i \in 1..m+1 : f[i] = step[i][f[i-1]]
        OBVIOUS
    <2>1. m <= n
        OBVIOUS
    <2>2. PICK f \in [0..m -> X] : /\ f[0] = base
                                   /\ \A i \in 1..m : f[i] = step[i][f[i-1]]
        BY <1>2, <2>1
    <2> DEFINE g == [i \in 0..m+1 |-> IF i = m + 1 THEN step[m+1][f[m]] ELSE f[i]]
    <2>3. m + 1 \in 1..n /\ f[m] \in X
        OBVIOUS
    <2>4. step[m+1][f[m]] \in X
        BY <2>3
    <2>5. \A i \in 0..m : g[i] = f[i] /\ i \in 0..m+1 /\ i # m + 1
        OBVIOUS
    <2>6. g[m+1] = step[m+1][f[m]]
        OBVIOUS
    <2>7. g \in [0..m+1 -> X]
        BY <2>4
    <2> HIDE DEF g
    <2>8. \A i \in 1..m : i - 1 \in 0..m /\ i \in 0..m
        OBVIOUS
    <2>9. \A i \in 1..m : g[i] = step[i][g[i-1]]
        BY <2>2, <2>5, <2>8
    <2>10. g[m+1] = step[m+1][g[(m+1)-1]]
        BY <2>5, <2>6
    <2>11. \A i \in 1..m+1 : g[i] = step[i][g[i-1]]
        BY <2>9, <2>10
    <2>12. g[0] = base
        BY <2>2, <2>5
    <2> QED
        BY <2>7, <2>11, <2>12
<1> HIDE DEF S
<1>3. n \in S
    BY <1>1, <1>2, SetInduction
<1> QED
    BY <1>3 DEF S, Iterated

-----------------------------------------------------------------------------
(* Orders.                                                                  *)

\* A strict order of a set, as pairs, and what is not after an element.
StrictOrder(less, set) ==
    /\ \A p \in set : <<p, p>> \notin less
    /\ \A p, q \in set : p # q => <<p, q>> \in less \/ <<q, p>> \in less
    /\ \A p, q, r \in set : <<p, q>> \in less /\ <<q, r>> \in less => <<p, r>> \in less
Below(less, set, p) == {q \in set : <<p, q>> \notin less}

\* An element's rank.
LEMMA RankIn ==
    ASSUME NEW less, NEW set, IsFiniteSet(set), StrictOrder(less, set)
    PROVE  /\ Cardinality(set) \in Nat
           /\ \A p \in set : Cardinality(Below(less, set, p)) \in 1..Cardinality(set)
           /\ \A p, q \in set : <<p, q>> \in less =>
                 Cardinality(Below(less, set, p)) < Cardinality(Below(less, set, q))
<1>1. Cardinality(set) \in Nat
    BY FS_CardinalityType
<1>2. ASSUME NEW p \in set PROVE Cardinality(Below(less, set, p)) \in 1..Cardinality(set)
    <2>1. Below(less, set, p) \subseteq set /\ p \in Below(less, set, p)
        BY DEF Below, StrictOrder
    <2>2. IsFiniteSet(Below(less, set, p)) /\ Cardinality(Below(less, set, p)) <= Cardinality(set)
        BY <2>1, FS_Subset
    <2>3. Cardinality(Below(less, set, p)) \in Nat /\ Cardinality(Below(less, set, p)) # 0
        BY <2>1, <2>2, FS_CardinalityType, FS_EmptySet
    <2> QED
        BY <1>1, <2>2, <2>3
<1>3. ASSUME NEW p \in set, NEW q \in set, <<p, q>> \in less
      PROVE  Cardinality(Below(less, set, p)) < Cardinality(Below(less, set, q))
    <2>1. Below(less, set, p) \subseteq Below(less, set, q)
        BY <1>3 DEF Below, StrictOrder
    <2>2. q \in Below(less, set, q) /\ q \notin Below(less, set, p)
        BY <1>3 DEF Below, StrictOrder
    <2>3. IsFiniteSet(Below(less, set, q))
        BY FS_Subset DEF Below
    <2>4. /\ Cardinality(Below(less, set, p)) <= Cardinality(Below(less, set, q))
          /\ Cardinality(Below(less, set, p)) # Cardinality(Below(less, set, q))
        BY <2>1, <2>2, <2>3, FS_Subset
    <2> QED
        BY <1>2, <2>4
<1> QED
    BY <1>1, <1>2, <1>3

\* If order picks an element of each rank, it is the set in its order.
PicksRanks(less, set, order) ==
    /\ order = [k \in 1..Cardinality(set) |-> order[k]]
    /\ \A k \in 1..Cardinality(set) :
          (\E p \in set : Cardinality(Below(less, set, p)) = k)
             => order[k] \in set /\ Cardinality(Below(less, set, order[k])) = k
Sorted(less, set, order) ==
    /\ order \in [1..Cardinality(set) -> set]
    /\ \A j, k \in 1..Cardinality(set) : j < k => <<order[j], order[k]>> \in less
    /\ \A p \in set : \E k \in 1..Cardinality(set) : order[k] = p
    /\ \A k \in 1..Cardinality(set) : Cardinality(Below(less, set, order[k])) = k
    /\ \A p, q \in set :
          p # q => Cardinality(Below(less, set, p)) # Cardinality(Below(less, set, q))

LEMMA SortedByRank ==
    ASSUME NEW less, NEW set, IsFiniteSet(set), StrictOrder(less, set),
           NEW order, PicksRanks(less, set, order)
    PROVE  Sorted(less, set, order)
<1> DEFINE n == Cardinality(set)
           R(p) == Cardinality(Below(less, set, p))
           rank == [p \in set |-> R(p)]
<1>1. n \in Nat
    BY RankIn
<1>2. \A p \in set : R(p) \in 1..n
    BY RankIn
<1>3. \A p, q \in set : <<p, q>> \in less => R(p) < R(q)
    BY RankIn
<1> HIDE DEF R
<1>4. \A p, q \in set : p # q => R(p) # R(q)
    <2> SUFFICES ASSUME NEW p \in set, NEW q \in set, p # q PROVE R(p) # R(q)
        OBVIOUS
    <2>1. R(p) \in Nat /\ R(q) \in Nat
        BY <1>1, <1>2
    <2>2. <<p, q>> \in less \/ <<q, p>> \in less
        BY DEF StrictOrder
    <2>3. R(p) < R(q) \/ R(q) < R(p)
        BY <1>3, <2>2
    <2> QED
        BY <2>1, <2>3
<1>5. rank \in Injection(set, 1..n)
    BY <1>2, <1>4 DEF Injection, IsInjective
<1>6. IsFiniteSet(1..n) /\ Cardinality(1..n) = n
    BY <1>1, FS_Interval
<1>7. rank \in Surjection(set, 1..n)
    BY <1>5, <1>6, FS_Injection
<1>8. \A k \in 1..n : \E p \in set : R(p) = k
    BY <1>7 DEF Surjection
<1>9. \A k \in 1..n : order[k] \in set /\ R(order[k]) = k
    BY <1>8 DEF PicksRanks, R
<1>10. order \in [1..n -> set]
    BY <1>9 DEF PicksRanks
<1>11. \A j, k \in 1..n : j < k => <<order[j], order[k]>> \in less
    <2> SUFFICES ASSUME NEW j \in 1..n, NEW k \in 1..n, j < k PROVE <<order[j], order[k]>> \in less
        OBVIOUS
    <2>1. order[j] \in set /\ order[k] \in set /\ R(order[j]) = j /\ R(order[k]) = k
        BY <1>9
    <2>2. order[j] # order[k] /\ ~(k < j)
        BY <1>1, <2>1
    <2>3. <<order[k], order[j]>> \notin less
        BY <1>3, <2>1, <2>2
    <2> QED
        BY <2>1, <2>2, <2>3 DEF StrictOrder
<1>12. \A p \in set : \E k \in 1..n : order[k] = p
    BY <1>2, <1>4, <1>9
<1> QED
    BY <1>4, <1>9, <1>10, <1>11, <1>12 DEF Sorted, R

-----------------------------------------------------------------------------
(* The order of timestamps.                                                 *)

Timed(lg) == Len(lg) \in Nat /\ \A p \in 1..Len(lg) : lg[p].at \in Nat

LEMMA EarlierOrders ==
    ASSUME NEW lg, Timed(lg), NEW p \in 1..Len(lg), NEW q \in 1..Len(lg)
    PROVE  /\ ~Earlier(lg, p, p)
           /\ Earlier(lg, p, q) => ~Earlier(lg, q, p) /\ lg[p].at <= lg[q].at
           /\ p # q => Earlier(lg, p, q) \/ Earlier(lg, q, p)
           /\ \A r \in 1..Len(lg) : Earlier(lg, p, q) /\ Earlier(lg, q, r) => Earlier(lg, p, r)
BY DEF Timed, Earlier

\* The entries of a set that are not after p, and how many.
Upto(lg, set, p) == {q \in set : ~Earlier(lg, p, q)}

\* That order as pairs.
EarlierIn(lg, set) == {x \in set \X set : Earlier(lg, x[1], x[2])}

LEMMA EarlierStrict ==
    ASSUME NEW lg, Timed(lg), NEW set \in SUBSET (1..Len(lg))
    PROVE  /\ IsFiniteSet(set) /\ StrictOrder(EarlierIn(lg, set), set)
           /\ \A p \in set : Below(EarlierIn(lg, set), set, p) = Upto(lg, set, p)
           /\ \A p, q \in set : <<p, q>> \in EarlierIn(lg, set) <=> Earlier(lg, p, q)
<1> DEFINE less == EarlierIn(lg, set)
<1>1. IsFiniteSet(set)
    <2>1. IsFiniteSet(1..Len(lg))
        BY FS_Interval DEF Timed
    <2> QED
        BY <2>1, FS_Subset
<1>2. \A p, q \in set : <<p, q>> \in less <=> Earlier(lg, p, q)
    BY DEF EarlierIn
<1> HIDE DEF less
<1>3. StrictOrder(less, set)
    <2>1. \A p \in set : ~Earlier(lg, p, p)
        BY EarlierOrders
    <2>2. \A p, q \in set : p # q => Earlier(lg, p, q) \/ Earlier(lg, q, p)
        BY EarlierOrders
    <2>3. \A p, q, r \in set : Earlier(lg, p, q) /\ Earlier(lg, q, r) => Earlier(lg, p, r)
        BY EarlierOrders
    <2> QED
        BY <1>2, <2>1, <2>2, <2>3 DEF StrictOrder
<1>4. \A p \in set : Below(less, set, p) = Upto(lg, set, p)
    BY <1>2 DEF Below, Upto
<1> QED
    BY <1>1, <1>2, <1>3, <1>4 DEF less

LEMMA RankOf ==
    ASSUME NEW lg, Timed(lg), NEW set \in SUBSET (1..Len(lg))
    PROVE  /\ IsFiniteSet(set) /\ Cardinality(set) \in Nat
           /\ \A p \in set : Cardinality(Upto(lg, set, p)) \in 1..Cardinality(set)
           /\ \A p, q \in set : Earlier(lg, p, q) =>
                 Cardinality(Upto(lg, set, p)) < Cardinality(Upto(lg, set, q))
<1> DEFINE less == EarlierIn(lg, set)
<1>1. IsFiniteSet(set) /\ StrictOrder(less, set)
    BY EarlierStrict
<1>2. /\ \A p \in set : Below(less, set, p) = Upto(lg, set, p)
      /\ \A p, q \in set : <<p, q>> \in less <=> Earlier(lg, p, q)
    BY EarlierStrict
<1> HIDE DEF less
<1>3. /\ Cardinality(set) \in Nat
      /\ \A p \in set : Cardinality(Below(less, set, p)) \in 1..Cardinality(set)
      /\ \A p, q \in set : <<p, q>> \in less =>
            Cardinality(Below(less, set, p)) < Cardinality(Below(less, set, q))
    BY <1>1, RankIn
<1> QED
    BY <1>1, <1>2, <1>3

\* A set in the order of timestamps.
Ordered(lg, set, order) ==
    /\ order \in [1..Cardinality(set) -> set] /\ Len(order) = Cardinality(set)
    /\ \A j, k \in 1..Cardinality(set) : j < k => Earlier(lg, order[j], order[k])
    /\ \A p \in set : \E k \in 1..Cardinality(set) : order[k] = p

\* An element is at the place that is its rank, and no two have the same.
Ranked(lg, set, order) ==
    /\ \A k \in 1..Cardinality(set) : Cardinality(Upto(lg, set, order[k])) = k
    /\ \A p, q \in set :
          p # q => Cardinality(Upto(lg, set, p)) # Cardinality(Upto(lg, set, q))

LEMMA ByTimestampOrders ==
    ASSUME NEW lg, Timed(lg), NEW set \in SUBSET (1..Len(lg))
    PROVE  /\ Ordered(lg, set, ByTimestamp(lg, set))
           /\ Ranked(lg, set, ByTimestamp(lg, set))
<1> DEFINE n == Cardinality(set)
           less == EarlierIn(lg, set)
           order == [k \in 1..n |-> CHOOSE p \in set : Cardinality(Upto(lg, set, p)) = k]
<1>1. IsFiniteSet(set) /\ StrictOrder(less, set)
    BY EarlierStrict
<1>2. /\ \A p \in set : Below(less, set, p) = Upto(lg, set, p)
      /\ \A p, q \in set : <<p, q>> \in less <=> Earlier(lg, p, q)
    BY EarlierStrict
<1>3. n \in Nat
    BY RankOf
<1> HIDE DEF less
<1>4. Sorted(less, set, order)
    <2>1. \A k \in 1..n : (\E p \in set : Cardinality(Upto(lg, set, p)) = k)
             => order[k] \in set /\ Cardinality(Upto(lg, set, order[k])) = k
        OBVIOUS
    <2>2. order = [k \in 1..n |-> order[k]]
        OBVIOUS
    <2> HIDE DEF order
    <2>3. PicksRanks(less, set, order)
        BY <1>2, <2>1, <2>2 DEF PicksRanks
    <2> QED
        BY <1>1, <2>3, SortedByRank
<1>5. ByTimestamp(lg, set) = <<>> \o order
    BY DEF ByTimestamp, Upto
<1> HIDE DEF order
<1>6. /\ order \in [1..n -> set]
      /\ \A j, k \in 1..n : j < k => <<order[j], order[k]>> \in less
      /\ \A p \in set : \E k \in 1..n : order[k] = p
      /\ \A k \in 1..n : Cardinality(Below(less, set, order[k])) = k
      /\ \A p, q \in set :
            p # q => Cardinality(Below(less, set, p)) # Cardinality(Below(less, set, q))
    BY <1>4 DEF Sorted
<1>7. order \in Seq(set) /\ Len(order) = n
    <2> HIDE DEF n
    <2> QED
        BY <1>3, <1>6
<1>8. ByTimestamp(lg, set) = order
    BY <1>5, <1>7
<1>9. \A k \in 1..n : order[k] \in set
    BY <1>6
<1>10. Ordered(lg, set, order) /\ Ranked(lg, set, order)
    BY <1>2, <1>6, <1>7, <1>9 DEF Ordered, Ranked
<1> QED
    BY <1>8, <1>10

-----------------------------------------------------------------------------
(* Protocol violations: the loop gives each report its verdict.             *)

Violations == {"unprescribed_action", "duplicate_report", "cross_actor_report",
               "report_without_digest"}

\* The report that takes the slot of prescription p.
Takes(lg, r, p) ==
    /\ p \in Prescriptions(lg) /\ r \in ReportsOf(lg, p) /\ lg[r].actor = lg[p].actor
    /\ \A q \in ReportsOf(lg, p) : lg[q].actor = lg[p].actor => r <= q

Verdict(lg, r) ==
    IF lg[r].ref \notin Prescriptions(lg) THEN {"unprescribed_action"}
    ELSE IF Takes(lg, r, lg[r].ref) THEN
           IF /\ lg[r].artifact = NoArtifact /\ lg[r].exit # "none"
              /\ lg[lg[r].ref].artifact # NoArtifact
           THEN {"report_without_digest"} ELSE {}
    ELSE IF \E q \in Reports(lg) : q < r /\ Takes(lg, q, lg[r].ref)
           THEN {"duplicate_report"}
    ELSE {"cross_actor_report"}

\* What the loop has found when it has passed k entries.
EventsUpto(lg, k) ==
    {e \in [sub: Violations, ref: 1..k] : e.ref \in Reports(lg) /\ e.sub \in Verdict(lg, e.ref)}
TakenUpto(lg, k) ==
    {p \in Prescriptions(lg) : \E q \in 1..k : Takes(lg, q, p)}

LEMMA TakerExists ==
    ASSUME NEW lg, Len(lg) \in Nat, NEW p \in Prescriptions(lg), NEW q \in ReportsOf(lg, p),
           lg[q].actor = lg[p].actor
    PROVE  \E r \in Reports(lg) : r <= q /\ Takes(lg, r, p)
<1> DEFINE own == {r \in ReportsOf(lg, p) : lg[r].actor = lg[p].actor}
<1>1. own \subseteq Nat /\ q \in own /\ own \subseteq Reports(lg)
    BY DEF ReportsOf, Reports
<1>2. PICK r \in own : \A s \in own : ~ (<<s, r>> \in OpToRel(<, Nat))
    BY <1>1, NatLessThanWellFounded, WFMin
<1>3. \A s \in own : r <= s
    <2> SUFFICES ASSUME NEW s \in own, ~(r <= s) PROVE FALSE
        OBVIOUS
    <2>1. <<s, r>> \in OpToRel(<, Nat)
        BY <1>1 DEF OpToRel
    <2> QED
        BY <1>2, <2>1
<1> QED
    BY <1>1, <1>3 DEF Takes

LEMMA SlotIs ==
    \A a, b, q : Slot([reported |-> a, events |-> b], q) = [reported |-> a \cup {q}, events |-> b]
BY DEF Slot

LEMMA JudgedNext ==
    ASSUME NEW lg, Len(lg) \in Nat, NEW k \in Nat, k + 1 <= Len(lg)
    PROVE  Judged(lg, [reported |-> TakenUpto(lg, k), events |-> EventsUpto(lg, k)], k + 1)
             = [reported |-> TakenUpto(lg, k + 1), events |-> EventsUpto(lg, k + 1)]
<1> DEFINE r == k + 1
           p == lg[r].ref
           s == [reported |-> TakenUpto(lg, k), events |-> EventsUpto(lg, k)]
<1>0. r \in 1..Len(lg) /\ k \in Nat /\ r = k + 1 /\ 1..r = (1..k) \cup {r} /\ r \notin 1..k
    OBVIOUS
<1> HIDE DEF r
<1>1. /\ EventsUpto(lg, r) = EventsUpto(lg, k) \cup
            {e \in [sub: Violations, ref: {r}] : r \in Reports(lg) /\ e.sub \in Verdict(lg, r)}
    BY <1>0 DEF EventsUpto
<1>2. TakenUpto(lg, r) = TakenUpto(lg, k) \cup {q \in Prescriptions(lg) : Takes(lg, r, q)}
    BY <1>0 DEF TakenUpto
<1>3. \A q : Takes(lg, r, q) => q = p /\ r \in Reports(lg) /\ p \in Prescriptions(lg)
    BY DEF Takes, ReportsOf
<1>4. \A q \in 1..k : ~(r <= q) /\ q < r
    BY <1>0
<1>5. \A q, a : Takes(lg, q, a) => q \in Reports(lg)
    BY DEF Takes, ReportsOf
<1>6. p \in TakenUpto(lg, k) <=> \E q \in Reports(lg) : q < r /\ Takes(lg, q, p)
    <2>1. \A q \in Reports(lg) : q < r => q \in 1..k
        BY <1>0 DEF Reports
    <2>2. \A q : Takes(lg, q, p) => p \in Prescriptions(lg)
        BY DEF Takes
    <2> QED
        BY <1>4, <1>5, <2>1, <2>2 DEF TakenUpto
<1>7. ASSUME p \in TakenUpto(lg, k), r \in Reports(lg) PROVE ~Takes(lg, r, p)
    <2>1. PICK q \in 1..k : Takes(lg, q, p)
        BY <1>7 DEF TakenUpto
    <2> QED
        BY <1>4, <2>1 DEF Takes
<1>8. ASSUME r \in Reports(lg), p \in Prescriptions(lg), p \notin TakenUpto(lg, k),
             lg[r].actor = lg[p].actor
      PROVE  Takes(lg, r, p)
    <2>1. r \in ReportsOf(lg, p)
        BY <1>8 DEF ReportsOf
    <2>2. ASSUME NEW q \in ReportsOf(lg, p), lg[q].actor = lg[p].actor PROVE r <= q
        <3>1. PICK t \in Reports(lg) : t <= q /\ Takes(lg, t, p)
            BY <1>8, <2>2, TakerExists
        <3>2. ~(t < r)
            BY <1>6, <1>8, <3>1
        <3>3. t \in Nat /\ q \in Nat /\ r \in Nat
            BY <1>0, <2>2 DEF Reports, ReportsOf
        <3> QED
            BY <3>1, <3>2, <3>3
    <2> QED
        BY <1>8, <2>1, <2>2 DEF Takes
<1> DEFINE New(sub) == [sub |-> sub, ref |-> r]
<1>9. \A sub \in Violations : Event(s, sub, r) =
         [reported |-> TakenUpto(lg, k), events |-> EventsUpto(lg, k) \cup {New(sub)}]
    <2> DEFINE a == TakenUpto(lg, k)
               b == EventsUpto(lg, k)
    <2> HIDE DEF a, b
    <2>1. \A sub \in Violations : Event([reported |-> a, events |-> b], sub, r) =
             [reported |-> a, events |-> b \cup {[sub |-> sub, ref |-> r]}]
        BY DEF Event
    <2> QED
        BY <2>1 DEF a, b
<1>10. \A sub \in Violations :
          {e \in [sub: Violations, ref: {r}] : r \in Reports(lg) /\ e.sub \in {sub}} =
             IF r \in Reports(lg) THEN {New(sub)} ELSE {}
    OBVIOUS
<1>11. CASE r \notin Reports(lg)
    <2>1. lg[r].kind # "report"
        BY <1>0, <1>11 DEF Reports
    <2>2. TakenUpto(lg, r) = TakenUpto(lg, k) /\ EventsUpto(lg, r) = EventsUpto(lg, k)
        BY <1>1, <1>2, <1>3, <1>11
    <2> QED
        BY <2>1, <2>2 DEF Judged, r
<1>12. CASE r \in Reports(lg)
    <2>0. lg[r].kind = "report"
        BY <1>12 DEF Reports
    <2>1. CASE p \notin Prescriptions(lg)
        <3>1. Verdict(lg, r) = {"unprescribed_action"}
            BY <2>1 DEF Verdict
        <3>2. TakenUpto(lg, r) = TakenUpto(lg, k)
            BY <1>2, <1>3, <2>1
        <3>3. EventsUpto(lg, r) = EventsUpto(lg, k) \cup {New("unprescribed_action")}
            BY <1>1, <1>10, <1>12, <3>1 DEF Violations
        <3>4. Judged(lg, s, r) = Event(s, "unprescribed_action", r)
            BY <2>0, <2>1 DEF Judged
        <3> QED
            BY <1>9, <3>2, <3>3, <3>4 DEF r, Violations
    <2>2. CASE p \in Prescriptions(lg) /\ p \in TakenUpto(lg, k)
        <3>0. ~Takes(lg, r, p)
            BY <1>7, <1>12, <2>2
        <3>1. Verdict(lg, r) = {"duplicate_report"}
            BY <1>6, <2>2, <3>0 DEF Verdict
        <3>2. TakenUpto(lg, r) = TakenUpto(lg, k)
            BY <1>2, <1>3, <2>2, <3>0
        <3>3. EventsUpto(lg, r) = EventsUpto(lg, k) \cup {New("duplicate_report")}
            BY <1>1, <1>10, <1>12, <3>1 DEF Violations
        <3>4. Judged(lg, s, r) = Event(s, "duplicate_report", r)
            BY <2>0, <2>2 DEF Judged
        <3> QED
            BY <1>9, <3>2, <3>3, <3>4 DEF r, Violations
    <2>3. CASE p \in Prescriptions(lg) /\ p \notin TakenUpto(lg, k) /\ lg[r].actor # lg[p].actor
        <3>0. ~Takes(lg, r, p)
            BY <2>3 DEF Takes
        <3>1. Verdict(lg, r) = {"cross_actor_report"}
            BY <1>6, <2>3, <3>0 DEF Verdict
        <3>2. TakenUpto(lg, r) = TakenUpto(lg, k)
            BY <1>2, <1>3, <2>3, <3>0
        <3>3. EventsUpto(lg, r) = EventsUpto(lg, k) \cup {New("cross_actor_report")}
            BY <1>1, <1>10, <1>12, <3>1 DEF Violations
        <3>4. Judged(lg, s, r) = Event(s, "cross_actor_report", r)
            BY <2>0, <2>3 DEF Judged
        <3> QED
            BY <1>9, <3>2, <3>3, <3>4 DEF r, Violations
    <2>4. CASE p \in Prescriptions(lg) /\ p \notin TakenUpto(lg, k) /\ lg[r].actor = lg[p].actor
        <3>0. Takes(lg, r, p)
            BY <1>8, <1>12, <2>4
        <3>1. TakenUpto(lg, r) = TakenUpto(lg, k) \cup {p}
            BY <1>2, <1>3, <2>4, <3>0
        <3>2. CASE /\ lg[p].artifact # NoArtifact /\ lg[r].artifact = NoArtifact
                   /\ lg[r].exit # "none"
            <4>1. Verdict(lg, r) = {"report_without_digest"}
                BY <2>4, <3>0, <3>2 DEF Verdict
            <4>2. EventsUpto(lg, r) = EventsUpto(lg, k) \cup {New("report_without_digest")}
                BY <1>1, <1>10, <1>12, <4>1 DEF Violations
            <4>3. Judged(lg, s, r) = Slot(Event(s, "report_without_digest", r), p)
                BY <2>0, <2>4, <3>2 DEF Judged
            <4>4. Slot(Event(s, "report_without_digest", r), p) =
                     [reported |-> TakenUpto(lg, k) \cup {p},
                      events |-> EventsUpto(lg, k) \cup {New("report_without_digest")}]
                <5> DEFINE a == TakenUpto(lg, k)
                           b == EventsUpto(lg, k) \cup {New("report_without_digest")}
                <5>1. Event(s, "report_without_digest", r) = [reported |-> a, events |-> b]
                    BY <1>9 DEF Violations
                <5> HIDE DEF a, b, p
                <5>2. Slot([reported |-> a, events |-> b], p)
                        = [reported |-> a \cup {p}, events |-> b]
                    BY SlotIs, Zenon
                <5> QED
                    BY <5>1, <5>2 DEF a, b, p
            <4> QED
                BY <3>1, <4>2, <4>3, <4>4 DEF r
        <3>3. CASE ~(/\ lg[p].artifact # NoArtifact /\ lg[r].artifact = NoArtifact
                     /\ lg[r].exit # "none")
            <4>1. Verdict(lg, r) = {}
                BY <2>4, <3>0, <3>3 DEF Verdict
            <4>2. EventsUpto(lg, r) = EventsUpto(lg, k)
                BY <1>1, <4>1
            <4>3. Judged(lg, s, r) = Slot(s, p)
                BY <2>0, <2>4, <3>3 DEF Judged
            <4>4. Slot(s, p) = [reported |-> TakenUpto(lg, k) \cup {p},
                                events |-> EventsUpto(lg, k)]
                <5> DEFINE a == TakenUpto(lg, k)
                           b == EventsUpto(lg, k)
                <5> HIDE DEF a, b, p
                <5>1. Slot([reported |-> a, events |-> b], p)
                        = [reported |-> a \cup {p}, events |-> b]
                    BY SlotIs, Zenon
                <5> QED
                    BY <5>1 DEF a, b, p
            <4> QED
                BY <3>1, <4>2, <4>3, <4>4 DEF r
        <3> QED
            BY <3>2, <3>3
    <2> QED
        BY <2>1, <2>2, <2>3, <2>4
<1> QED
    BY <1>11, <1>12

Judges(lg, n, f) ==
    f = [r \in 0..n |-> IF r = 0 THEN [reported |-> {}, events |-> {}] ELSE Judged(lg, f[r-1], r)]

\* The loop passes all entries.
LEMMA JudgedAll ==
    ASSUME NEW lg, Len(lg) \in Nat, NEW now0
    PROVE  DetectProtocolViolations(lg, now0) =
             EventsUpto(lg, Len(lg)) \cup DetectUnreported(lg, now0)
<1> DEFINE n == Len(lg)
           State(k) == [reported |-> TakenUpto(lg, k), events |-> EventsUpto(lg, k)]
           g == [k \in 0..n |-> State(k)]
           h == CHOOSE f : Judges(lg, n, f)
<1>1. State(0) = [reported |-> {}, events |-> {}]
    <2>1. TakenUpto(lg, 0) = {} /\ EventsUpto(lg, 0) = {}
        BY DEF TakenUpto, EventsUpto
    <2> QED
        BY <2>1
<1>2. \A k \in 0..n : k # 0 =>
         k - 1 \in Nat /\ (k - 1) + 1 = k /\ (k - 1) + 1 <= Len(lg) /\ k - 1 \in 0..n
    OBVIOUS
<1>3. \A k \in 0..n : k # 0 => State(k) = Judged(lg, State(k-1), k)
    BY <1>2, JudgedNext
<1> HIDE DEF State
<1>4. Judges(lg, n, g)
    <2>1. \A k \in 0..n : g[k] = IF k = 0 THEN [reported |-> {}, events |-> {}]
                                 ELSE Judged(lg, g[k-1], k)
        BY <1>1, <1>2, <1>3
    <2> QED
        BY <2>1 DEF Judges
<1>5. Judges(lg, n, h)
    BY <1>4
<1>6. DetectProtocolViolations(lg, now0) = h[n].events \cup DetectUnreported(lg, now0)
    BY DEF DetectProtocolViolations, Judges
<1> HIDE DEF h, g
<1> DEFINE S == {k \in Nat : k <= n => h[k] = State(k)}
<1>7. 0 \in S
    <2>1. h[0] = [reported |-> {}, events |-> {}]
        BY <1>5 DEF Judges
    <2> QED
        BY <1>1, <2>1
<1>8. ASSUME NEW k \in Nat, k \in S PROVE k + 1 \in S
    <2> SUFFICES ASSUME k + 1 <= n PROVE h[k+1] = State(k+1)
        OBVIOUS
    <2>1. k + 1 \in 0..n /\ k + 1 # 0 /\ (k + 1) - 1 = k /\ k <= n
        OBVIOUS
    <2>2. h[k+1] = Judged(lg, h[(k+1)-1], k+1)
        BY <1>5, <2>1 DEF Judges
    <2>3. State(k+1) = Judged(lg, State((k+1)-1), k+1)
        BY <1>3, <2>1
    <2>4. h[k] = State(k)
        BY <1>8, <2>1
    <2> QED
        BY <2>1, <2>2, <2>3, <2>4
<1> HIDE DEF S
<1>9. n \in S
    BY <1>7, <1>8, SetInduction
<1>10. h[n] = State(n)
    BY <1>9 DEF S
<1> QED
    BY <1>6, <1>10 DEF State

\* What is reported late or never: one event for each such prescription.
LEMMA UnreportedIs ==
    ASSUME NEW lg, NEW set
    PROVE  \A e \in Unreported(lg, set) : e.ref \in set /\ ReportsOf(lg, e.ref) = {}
           /\ e.sub \in {"crash_before_report", "stalled_operation"}
           /\ e = [sub |-> e.sub, ref |-> e.ref]
BY DEF Unreported

LEMMA UnreportedAll ==
    ASSUME NEW lg, NEW set, NEW p \in set, ReportsOf(lg, p) = {}
    PROVE  \E e \in Unreported(lg, set) : e.ref = p
<1> DEFINE Sub(q) == IF CrashedBefore(lg, q) THEN "crash_before_report" ELSE "stalled_operation"
<1>1. Unreported(lg, set) =
        {[sub |-> Sub(q), ref |-> q] : q \in {x \in set : ReportsOf(lg, x) = {}}}
    BY DEF Unreported
<1> HIDE DEF Sub
<1>2. [sub |-> Sub(p), ref |-> p] \in Unreported(lg, set)
    BY <1>1
<1> QED
    BY <1>2

LEMMA AccountsHold == Session(log, now) => ProtocolAccounts
<1> SUFFICES ASSUME Session(log, now) PROVE ProtocolAccounts
    OBVIOUS
<1> DEFINE events == DetectProtocolViolations(log, now)
           Subs(e) == {v.sub : v \in {w \in events : w.ref = e}}
           late == {p \in Prescriptions(log) : now > log[p].at + TTL}
<1>1. Len(log) \in Nat
    BY DEF Session
<1>2. events = EventsUpto(log, Len(log)) \cup Unreported(log, late)
    BY <1>1, JudgedAll DEF DetectUnreported
<1>3. \A r \in Reports(log) : r \notin Prescriptions(log) /\ r \in 1..Len(log)
    BY DEF Reports, Prescriptions
<1>4. \A r \in Reports(log) : log[r].ref = 0 <=> log[r].ref \notin Prescriptions(log)
    BY <1>1, <1>3 DEF Session, Prescriptions
<1>5. \A r, p : Takes(log, r, p) <=> Consumes(r, p)
    BY DEF Takes, Consumes
<1> HIDE DEF events
<1>6. ASSUME NEW r \in Reports(log) PROVE Subs(r) = Verdict(log, r)
    <2>1. ASSUME NEW v \in events, v.ref = r PROVE v.sub \in Verdict(log, r)
        <3>1. v \in EventsUpto(log, Len(log))
            BY <1>2, <1>3, <2>1, UnreportedIs
        <3> QED
            BY <2>1, <3>1 DEF EventsUpto
    <2>2. ASSUME NEW sub \in Verdict(log, r) PROVE \E v \in events : v.ref = r /\ v.sub = sub
        <3> DEFINE v == [sub |-> sub, ref |-> r]
        <3>1. sub \in Violations
            BY <2>2 DEF Verdict, Violations
        <3>2. v \in EventsUpto(log, Len(log))
            BY <1>3, <2>2, <3>1 DEF EventsUpto
        <3> QED
            BY <1>2, <3>2
    <2> QED
        BY <2>1, <2>2
<1>7. ASSUME NEW p \in Prescriptions(log)
      PROVE  Subs(p) # {} <=> (ReportsOf(log, p) = {} /\ now > log[p].at + TTL)
    <2>1. \A v \in EventsUpto(log, Len(log)) : v.ref # p
        BY <1>3, <1>7 DEF EventsUpto
    <2>2. Subs(p) # {} <=> \E v \in Unreported(log, late) : v.ref = p
        BY <1>2, <2>1
    <2>3. (\E v \in Unreported(log, late) : v.ref = p) <=> p \in late /\ ReportsOf(log, p) = {}
        <3> HIDE DEF late
        <3>1. ASSUME NEW v \in Unreported(log, late), v.ref = p
              PROVE  p \in late /\ ReportsOf(log, p) = {}
            BY <3>1, UnreportedIs
        <3>2. ASSUME p \in late, ReportsOf(log, p) = {}
              PROVE  \E v \in Unreported(log, late) : v.ref = p
            BY <3>2, UnreportedAll
        <3> QED
            BY <3>1, <3>2
    <2> QED
        BY <2>2, <2>3
<1>8. \A r \in Reports(log) :
         Verdict(log, r) =
             IF log[r].ref = 0 THEN {"unprescribed_action"}
             ELSE IF Consumes(r, log[r].ref) THEN
                    IF /\ log[r].artifact = NoArtifact /\ log[r].exit # "none"
                       /\ log[log[r].ref].artifact # NoArtifact
                    THEN {"report_without_digest"} ELSE {}
             ELSE IF \E q \in Reports(log) : q < r /\ Consumes(q, log[r].ref)
                    THEN {"duplicate_report"}
             ELSE {"cross_actor_report"}
    BY <1>4, <1>5 DEF Verdict
<1> HIDE DEF Subs
<1>9. \A r \in Reports(log) :
         Subs(r) =
             IF log[r].ref = 0 THEN {"unprescribed_action"}
             ELSE IF Consumes(r, log[r].ref) THEN
                    IF /\ log[r].artifact = NoArtifact /\ log[r].exit # "none"
                       /\ log[log[r].ref].artifact # NoArtifact
                    THEN {"report_without_digest"} ELSE {}
             ELSE IF \E q \in Reports(log) : q < r /\ Consumes(q, log[r].ref)
                    THEN {"duplicate_report"}
             ELSE {"cross_actor_report"}
    BY <1>6, <1>8
<1> QED
    BY <1>7, <1>9 DEF ProtocolAccounts, Subs, events

-----------------------------------------------------------------------------
(* Retry loops.                                                             *)

\* As many elements as places, if no element comes twice.
LEMMA CountOfSeq ==
    ASSUME NEW S, NEW s \in Seq(S), \A i, j \in 1..Len(s) : i < j => s[i] # s[j]
    PROVE  IsFiniteSet(ToSet(s)) /\ Cardinality(ToSet(s)) = Len(s)
<1> DEFINE n == Len(s)
<1>1. n \in Nat /\ \A i, j \in 1..n : i # j => i < j \/ j < i
    OBVIOUS
<1>2. \A i, j \in 1..n : s[i] = s[j] => i = j
    BY <1>1
<1>3. s \in [1..n -> ToSet(s)] /\ \A x \in ToSet(s) : \E i \in 1..n : s[i] = x
    BY DEF ToSet
<1> HIDE DEF n
<1>4. IsFiniteSet(1..n) /\ Cardinality(1..n) = n
    <2>1. n \in Int /\ ~(1 > n /\ n # 0)
        BY <1>1
    <2>2. /\ IsFiniteSet(1..n)
          /\ Cardinality(1..n) = IF 1 > n THEN 0 ELSE n - 1 + 1
        BY <2>1, FS_Interval
    <2> QED
        BY <2>1, <2>2
<1>5. s \in Bijection(1..n, ToSet(s))
    BY <1>2, <1>3 DEF Bijection, Injection, IsInjective, Surjection
<1> QED
    BY <1>4, <1>5, FS_Bijection DEF ExistsBijection, n

\* A run that counts, and a set that is made of such runs.
Run(lg, threshold, run) ==
    /\ Cardinality(run) >= threshold
    /\ \A q \in run : ReportExit(lg, q) # "ok"
    /\ \E first \in run :
          /\ ReportExit(lg, first) = "fail"
          /\ \A q \in run : lg[first].at <= lg[q].at /\ lg[q].at <= lg[first].at + RetryWindow
OfRuns(lg, threshold, flagged) ==
    \A p \in flagged : \E run \in SUBSET flagged : p \in run /\ Run(lg, threshold, run)

\* A chain is a part of what was passed, in order, from a failure on.
Chain(lg, order, k, chain) ==
    /\ \A i \in 1..Len(chain) :
          /\ \E j \in 1..k : chain[i] = order[j]
          /\ ReportExit(lg, chain[i]) # "ok"
          /\ lg[chain[i]].at <= lg[chain[1]].at + RetryWindow
    /\ \A i, j \in 1..Len(chain) : i < j => Earlier(lg, chain[i], chain[j])
    /\ chain # <<>> => ReportExit(lg, chain[1]) = "fail"

ChainState(group) == [chain: Seq(group), flagged: SUBSET group]

LEMMA ChainIsRun ==
    ASSUME NEW lg, Timed(lg), NEW group \in SUBSET (1..Len(lg)), NEW order, NEW k \in Nat,
           NEW chain \in Seq(group), Chain(lg, order, k, chain),
           NEW threshold \in Nat \ {0}, Len(chain) >= threshold
    PROVE  Run(lg, threshold, ToSet(chain))
<1>0. \A i \in 1..Len(chain) : chain[i] \in group
    OBVIOUS
<1>1. chain # <<>> /\ 1 \in 1..Len(chain) /\ \A i \in 1..Len(chain) : chain[i] \in 1..Len(lg)
    <2>1. Len(chain) \in Nat /\ Len(chain) # 0 /\ chain # <<>>
        OBVIOUS
    <2>2. \A i \in 1..Len(chain) : chain[i] \in 1..Len(lg)
        BY <1>0
    <2> QED
        BY <2>1, <2>2
<1>2. \A i, j \in 1..Len(chain) : i < j => chain[i] # chain[j] /\ lg[chain[i]].at <= lg[chain[j]].at
    BY <1>1, EarlierOrders DEF Chain
<1>3. Cardinality(ToSet(chain)) = Len(chain)
    BY <1>2, CountOfSeq
<1>4. \A q \in ToSet(chain) : \E i \in 1..Len(chain) : q = chain[i]
    BY DEF ToSet
<1>5. chain[1] \in ToSet(chain)
    BY <1>1 DEF ToSet
<1>6. \A i \in 1..Len(chain) : lg[chain[1]].at <= lg[chain[i]].at
    <2>1. \A i \in 1..Len(chain) : i = 1 \/ 1 < i
        OBVIOUS
    <2>2. lg[chain[1]].at <= lg[chain[1]].at
        BY <1>1 DEF Timed
    <2> QED
        BY <1>1, <1>2, <2>1, <2>2
<1>7. \A i \in 1..Len(chain) : /\ ReportExit(lg, chain[i]) # "ok"
                               /\ lg[chain[i]].at <= lg[chain[1]].at + RetryWindow
    BY DEF Chain
<1>8. ReportExit(lg, chain[1]) = "fail"
    BY <1>1 DEF Chain
<1>9. \A q \in ToSet(chain) : /\ ReportExit(lg, q) # "ok"
                              /\ lg[chain[1]].at <= lg[q].at
                              /\ lg[q].at <= lg[chain[1]].at + RetryWindow
    BY <1>4, <1>6, <1>7
<1>10. Cardinality(ToSet(chain)) >= threshold
    BY <1>3
<1> QED
    BY <1>5, <1>8, <1>9, <1>10 DEF Run

LEMMA RunsUnion ==
    ASSUME NEW lg, NEW threshold, NEW F, NEW G, OfRuns(lg, threshold, F), OfRuns(lg, threshold, G)
    PROVE  OfRuns(lg, threshold, F \cup G)
BY DEF OfRuns

LEMMA ClosedKeeps ==
    ASSUME NEW lg, Timed(lg), NEW group \in SUBSET (1..Len(lg)), NEW order, NEW k \in Nat,
           NEW s \in ChainState(group), Chain(lg, order, k, s.chain),
           NEW threshold \in Nat \ {0}, OfRuns(lg, threshold, s.flagged)
    PROVE  /\ Closed(s, threshold) \in ChainState(group)
           /\ Closed(s, threshold).chain = <<>>
           /\ OfRuns(lg, threshold, Closed(s, threshold).flagged)
<1> DEFINE more == IF Len(s.chain) >= threshold THEN ToSet(s.chain) ELSE {}
<1>1. s.chain \in Seq(group) /\ s.flagged \subseteq group
    BY DEF ChainState
<1>2. ToSet(s.chain) \subseteq group
    BY <1>1 DEF ToSet
<1>3. OfRuns(lg, threshold, more)
    BY <1>1, ChainIsRun DEF OfRuns
<1>4. more \subseteq group
    BY <1>2
<1>5. Closed(s, threshold) = [chain |-> <<>>, flagged |-> s.flagged \cup more]
    BY DEF Closed
<1> HIDE DEF more
<1>6. OfRuns(lg, threshold, s.flagged \cup more)
    BY <1>3, RunsUnion
<1>7. <<>> \in Seq(group)
    OBVIOUS
<1>8. Closed(s, threshold) \in ChainState(group)
    <2>1. s.flagged \cup more \in SUBSET group
        BY <1>1, <1>4
    <2> QED
        BY <1>5, <1>7, <2>1 DEF ChainState
<1> QED
    BY <1>5, <1>6, <1>8

LEMMA BegunKeeps ==
    ASSUME NEW lg, Timed(lg), NEW group \in SUBSET (1..Len(lg)), NEW order, NEW k \in Nat,
           NEW s \in ChainState(group), s.chain = <<>>, order[k+1] \in group
    PROVE  /\ Begun(lg, s, order[k+1]) \in ChainState(group)
           /\ Chain(lg, order, k + 1, Begun(lg, s, order[k+1]).chain)
           /\ Begun(lg, s, order[k+1]).flagged = s.flagged
<1> DEFINE p == order[k+1]
<1>0. p \in group
    OBVIOUS
<1>1. k + 1 \in 1..(k + 1) /\ p \in 1..Len(lg)
    <2> HIDE DEF p
    <2> QED
        BY <1>0
<1>2. Chain(lg, order, k + 1, <<>>)
    BY DEF Chain
<1>3. CASE ReportExit(lg, p) = "fail"
    <2>1. lg[p].at <= lg[p].at + RetryWindow
        BY <1>1, SignalsAssumption DEF Timed, SignalsAssumption
    <2>2. <<p>> \in Seq(group) /\ Len(<<p>>) = 1 /\ <<p>>[1] = p
        OBVIOUS
    <2>3. Chain(lg, order, k + 1, <<p>>)
        BY <1>1, <1>3, <2>1, <2>2 DEF Chain
    <2>4. /\ Begun(lg, s, p) \in ChainState(group)
          /\ Begun(lg, s, p).chain = <<p>> /\ Begun(lg, s, p).flagged = s.flagged
        BY <1>3, <2>2 DEF Begun, ChainState
    <2> QED
        BY <2>3, <2>4
<1>4. CASE ReportExit(lg, p) # "fail"
    BY <1>2, <1>4 DEF Begun
<1> QED
    BY <1>3, <1>4

LEMMA ChainedKeeps ==
    ASSUME NEW lg, Timed(lg), NEW group \in SUBSET (1..Len(lg)), NEW order,
           Ordered(lg, group, order), NEW k \in Nat, k + 1 \in 1..Cardinality(group),
           NEW s \in ChainState(group), Chain(lg, order, k, s.chain),
           NEW threshold \in Nat \ {0}, OfRuns(lg, threshold, s.flagged)
    PROVE  LET t == Chained(lg, s, order[k+1], threshold)
           IN  /\ t \in ChainState(group) /\ Chain(lg, order, k + 1, t.chain)
               /\ OfRuns(lg, threshold, t.flagged)
<1> DEFINE p == order[k+1]
           t == Chained(lg, s, p, threshold)
           c == Closed(s, threshold)
<1>1. Cardinality(group) \in Nat
    BY RankOf
<1>2. p \in group /\ p \in 1..Len(lg) /\ \A j \in 1..k : j \in 1..Cardinality(group) /\ j < k + 1
    <2>1. p \in group
        BY DEF Ordered
    <2>2. \A j \in 1..k : j \in 1..Cardinality(group) /\ j < k + 1
        BY <1>1
    <2> HIDE DEF p
    <2> QED
        BY <2>1, <2>2
<1>3. \A j \in 1..k : order[j] \in group /\ Earlier(lg, order[j], p)
    BY <1>2 DEF Ordered
<1>4. /\ c \in ChainState(group) /\ c.chain = <<>> /\ OfRuns(lg, threshold, c.flagged)
    BY ClosedKeeps
<1>5. Chain(lg, order, k + 1, <<>>)
    BY DEF Chain
<1>6. s.chain \in Seq(group) /\ s.flagged \subseteq group
    BY DEF ChainState
<1> HIDE DEF c
<1>7. CASE s.chain = <<>>
    BY <1>2, <1>7, BegunKeeps DEF Chained
<1>8. CASE s.chain # <<>> /\ lg[p].at - lg[Head(s.chain)].at > RetryWindow
    BY <1>2, <1>4, <1>8, BegunKeeps DEF Chained, c
<1>9. CASE /\ s.chain # <<>> /\ ~(lg[p].at - lg[Head(s.chain)].at > RetryWindow)
           /\ ReportExit(lg, p) = "ok"
    BY <1>4, <1>5, <1>9 DEF Chained, c
<1>10. CASE /\ s.chain # <<>> /\ ~(lg[p].at - lg[Head(s.chain)].at > RetryWindow)
            /\ ReportExit(lg, p) # "ok"
    <2> DEFINE ch == s.chain
               m == Len(s.chain)
               ch2 == Append(s.chain, p)
    <2>1. m \in Nat \ {0} /\ Head(ch) = ch[1] /\ ch[1] \in 1..Len(lg) /\ 1 \in 1..m
        <3>1. m \in Nat \ {0} /\ Head(ch) = ch[1] /\ 1 \in 1..m
            BY <1>6, <1>10
        <3>2. ch[1] \in group
            BY <1>6, <3>1
        <3> QED
            BY <3>1, <3>2
    <2>2. lg[p].at <= lg[ch[1]].at + RetryWindow
        <3>1. ~(lg[p].at - lg[ch[1]].at > RetryWindow)
            BY <1>10, <2>1
        <3>2. lg[p].at \in Nat /\ lg[ch[1]].at \in Nat /\ RetryWindow \in Nat
            BY <1>2, <2>1, SignalsAssumption DEF Timed, SignalsAssumption
        <3> HIDE DEF p, ch
        <3> QED
            BY <3>1, <3>2
    <2>3. /\ ch2 \in Seq(group) /\ Len(ch2) = m + 1 /\ ch2[m+1] = p
          /\ \A i \in 1..m : ch2[i] = ch[i]
        BY <1>2, <1>6
    <2>4. t = [s EXCEPT !.chain = ch2]
        BY <1>10 DEF Chained
    <2>5. t \in ChainState(group) /\ t.chain = ch2 /\ t.flagged = s.flagged
        BY <2>3, <2>4 DEF ChainState
    <2> HIDE DEF ch2, ch, m, t, p
    <2>6. Chain(lg, order, k, ch) /\ m = Len(ch)
        BY DEF ch, m
    <2>7. \A i \in 1..(m + 1) : i \in 1..m \/ i = m + 1
        BY <2>1
    <2>8. \A i \in 1..m : \E j \in 1..k : ch[i] = order[j]
        BY <2>6 DEF Chain
    <2>9. \A i \in 1..m : Earlier(lg, ch[i], p)
        BY <1>3, <2>8
    <2>10. k + 1 \in 1..(k + 1) /\ \A j \in 1..k : j \in 1..(k + 1)
        OBVIOUS
    <2>11. \A i \in 1..(m + 1) :
              /\ \E j \in 1..(k + 1) : ch2[i] = order[j]
              /\ ReportExit(lg, ch2[i]) # "ok"
              /\ lg[ch2[i]].at <= lg[ch2[1]].at + RetryWindow
        <3>1. ASSUME NEW i \in 1..m
              PROVE  /\ \E j \in 1..(k + 1) : ch2[i] = order[j]
                     /\ ReportExit(lg, ch2[i]) # "ok"
                     /\ lg[ch2[i]].at <= lg[ch2[1]].at + RetryWindow
            BY <2>1, <2>3, <2>6, <2>8, <2>10 DEF Chain
        <3>2. /\ \E j \in 1..(k + 1) : ch2[m+1] = order[j]
              /\ ReportExit(lg, ch2[m+1]) # "ok"
              /\ lg[ch2[m+1]].at <= lg[ch2[1]].at + RetryWindow
            BY <1>10, <2>1, <2>2, <2>3, <2>10 DEF p
        <3> QED
            BY <2>7, <3>1, <3>2
    <2>12. \A i, j \in 1..(m + 1) : i < j => Earlier(lg, ch2[i], ch2[j])
        <3>1. \A i, j \in 1..m : i < j => Earlier(lg, ch2[i], ch2[j])
            BY <2>3, <2>6 DEF Chain
        <3>2. \A i \in 1..m : Earlier(lg, ch2[i], ch2[m+1])
            BY <2>3, <2>9
        <3>3. \A i, j \in 1..(m + 1) : i < j => i \in 1..m /\ (j \in 1..m \/ j = m + 1)
            BY <2>1
        <3> QED
            BY <3>1, <3>2, <3>3
    <2>13. ReportExit(lg, ch2[1]) = "fail"
        BY <1>10, <2>1, <2>3, <2>6 DEF Chain, ch
    <2>14. Chain(lg, order, k + 1, ch2)
        BY <2>3, <2>11, <2>12, <2>13 DEF Chain
    <2> QED
        BY <2>5, <2>14 DEF t, p
<1> QED
    BY <1>7, <1>8, <1>9, <1>10

ScansLoops(lg, order, threshold, n, f) ==
    f = [k \in 0..n |-> IF k = 0 THEN [chain |-> <<>>, flagged |-> {}]
                        ELSE Chained(lg, f[k-1], order[k], threshold)]

LEMMA ChainedStays ==
    ASSUME NEW lg, NEW group, NEW s \in ChainState(group), NEW p \in group, NEW threshold
    PROVE  Chained(lg, s, p, threshold) \in ChainState(group)
<1>1. s.chain \in Seq(group) /\ s.flagged \in SUBSET group
      /\ s = [chain |-> s.chain, flagged |-> s.flagged]
    BY DEF ChainState
<1>2. <<>> \in Seq(group) /\ <<p>> \in Seq(group) /\ Append(s.chain, p) \in Seq(group)
    BY <1>1
<1>3. ToSet(s.chain) \subseteq group
    BY <1>1 DEF ToSet
<1>4. Closed(s, threshold) \in ChainState(group)
    BY <1>1, <1>2, <1>3 DEF ChainState, Closed
<1>5. \A t \in ChainState(group) : Begun(lg, t, p) \in ChainState(group)
    BY <1>2 DEF ChainState, Begun
<1>6. [s EXCEPT !.chain = Append(@, p)] \in ChainState(group)
    BY <1>2 DEF ChainState
<1> QED
    BY <1>4, <1>5, <1>6 DEF Chained

LEMMA LoopScanExists ==
    ASSUME NEW lg, NEW group, NEW n \in Nat, NEW order \in [1..n -> group], NEW threshold
    PROVE  \E f : ScansLoops(lg, order, threshold, n, f)
<1> DEFINE X == ChainState(group)
           base == [chain |-> <<>>, flagged |-> {}]
           Step(k, s) == Chained(lg, s, order[k], threshold)
           step == [k \in 1..n |-> [s \in X |-> Step(k, s)]]
<1>1. base \in X
    BY DEF ChainState
<1>2. \A k \in 1..n : \A s \in X : Step(k, s) \in X
    BY ChainedStays
<1> HIDE DEF X, Step, base
<1>3. step \in [1..n -> [X -> X]]
    BY <1>2
<1> HIDE DEF step
<1>4. Iterated(X, base, n, step)
    BY <1>1, <1>3, Iteration
<1>5. PICK f \in [0..n -> X] : f[0] = base /\ \A k \in 1..n : f[k] = step[k][f[k-1]]
    BY <1>4 DEF Iterated
<1>6. \A k \in 0..n : k # 0 => k \in 1..n /\ k - 1 \in 0..n
    OBVIOUS
<1>7. \A k \in 0..n : f[k] = IF k = 0 THEN base ELSE Step(k, f[k-1])
    BY <1>5, <1>6 DEF step
<1>8. f = [k \in 0..n |-> IF k = 0 THEN base ELSE Step(k, f[k-1])]
    BY <1>7
<1> QED
    BY <1>8 DEF ScansLoops, Step, base

LEMMA LoopScanKeeps ==
    ASSUME NEW lg, Timed(lg), NEW group \in SUBSET (1..Len(lg)), NEW order,
           Ordered(lg, group, order), NEW threshold \in Nat \ {0},
           NEW f, ScansLoops(lg, order, threshold, Cardinality(group), f)
    PROVE  \A k \in 0..Cardinality(group) :
              /\ f[k] \in ChainState(group) /\ Chain(lg, order, k, f[k].chain)
              /\ OfRuns(lg, threshold, f[k].flagged)
<1> DEFINE n == Cardinality(group)
           Good(k) == /\ f[k] \in ChainState(group) /\ Chain(lg, order, k, f[k].chain)
                      /\ OfRuns(lg, threshold, f[k].flagged)
           S == {k \in Nat : k <= n => Good(k)}
<1>0. n \in Nat
    BY RankOf
<1>1. 0 \in S
    <2>1. f[0] = [chain |-> <<>>, flagged |-> {}]
        BY <1>0 DEF ScansLoops
    <2>2. <<>> \in Seq(group) /\ {} \subseteq group
        OBVIOUS
    <2>3. f[0] \in ChainState(group) /\ f[0].chain = <<>> /\ f[0].flagged = {}
        BY <2>1, <2>2 DEF ChainState
    <2>4. Chain(lg, order, 0, <<>>)
        BY DEF Chain
    <2>5. Good(0)
        BY <2>3, <2>4 DEF OfRuns
    <2> QED
        BY <2>5
<1>2. ASSUME NEW k \in Nat, k \in S PROVE k + 1 \in S
    <2> SUFFICES ASSUME k + 1 <= n PROVE Good(k + 1)
        OBVIOUS
    <2>1. /\ k + 1 \in 0..n /\ k + 1 # 0 /\ (k + 1) - 1 = k /\ k <= n
          /\ k + 1 \in 1..n
        BY <1>0
    <2>2. f[k+1] = Chained(lg, f[k], order[k+1], threshold)
        <3>1. f[k+1] = Chained(lg, f[(k+1)-1], order[k+1], threshold)
            BY <2>1 DEF ScansLoops
        <3> QED
            BY <2>1, <3>1
    <2>3. Good(k)
        BY <1>2, <2>1
    <2> QED
        BY <2>1, <2>2, <2>3, ChainedKeeps
<1> HIDE DEF S
<1>3. \A k \in 0..n : k \in S
    <2>1. Nat \subseteq S
        BY <1>1, <1>2, SetInduction
    <2> HIDE DEF n
    <2> QED
        BY <1>0, <2>1
<1> QED
    BY <1>0, <1>3 DEF S

LEMMA LoopScan ==
    ASSUME NEW lg, Timed(lg), NEW group \in SUBSET (1..Len(lg)), NEW threshold
    PROVE  \E f : /\ ScansLoops(lg, ByTimestamp(lg, group), threshold, Cardinality(group), f)
                  /\ DetectRetryLoopChains(lg, group, threshold) =
                       Closed(f[Cardinality(group)], threshold).flagged
<1> DEFINE order == ByTimestamp(lg, group)
           n == Cardinality(group)
           h == CHOOSE f : ScansLoops(lg, order, threshold, Len(order), f)
<1>1. Ordered(lg, group, order) /\ n \in Nat
    BY ByTimestampOrders, RankOf
<1>2. Len(order) = n
    BY <1>1 DEF Ordered
<1>3. ScansLoops(lg, order, threshold, n, h)
    BY <1>1, <1>2, LoopScanExists DEF Ordered
<1>4. DetectRetryLoopChains(lg, group, threshold) = Closed(h[n], threshold).flagged
    BY <1>2 DEF DetectRetryLoopChains, ScansLoops
<1> HIDE DEF h, order
<1> QED
    BY <1>3, <1>4 DEF order

LEMMA ChainsSound ==
    ASSUME NEW lg, Timed(lg), NEW group \in SUBSET (1..Len(lg)), NEW threshold \in Nat \ {0}
    PROVE  /\ DetectRetryLoopChains(lg, group, threshold) \subseteq group
           /\ OfRuns(lg, threshold, DetectRetryLoopChains(lg, group, threshold))
<1> DEFINE order == ByTimestamp(lg, group)
           n == Cardinality(group)
<1>1. Ordered(lg, group, order)
    BY ByTimestampOrders
<1>2. PICK f : /\ ScansLoops(lg, order, threshold, n, f)
               /\ DetectRetryLoopChains(lg, group, threshold) = Closed(f[n], threshold).flagged
    BY LoopScan
<1>3. n \in Nat /\ n \in 0..n
    BY RankOf
<1> HIDE DEF order
<1>4. /\ f[n] \in ChainState(group) /\ Chain(lg, order, n, f[n].chain)
      /\ OfRuns(lg, threshold, f[n].flagged)
    BY <1>1, <1>2, <1>3, LoopScanKeeps
<1>5. /\ Closed(f[n], threshold) \in ChainState(group)
      /\ OfRuns(lg, threshold, Closed(f[n], threshold).flagged)
    BY <1>1, <1>3, <1>4, ClosedKeeps
<1> QED
    BY <1>2, <1>5 DEF ChainState

LEMMA GroupsAre ==
    ASSUME NEW lg, NEW key, DOMAIN key = Prescriptions(lg), NEW group \in Groups(key)
    PROVE  /\ group \in SUBSET Prescriptions(lg)
           /\ \A p, q \in group : key[p] = key[q]
           /\ \A p \in group, q \in Prescriptions(lg) : key[q] = key[p] => q \in group
BY DEF Groups

LEMMA LoopsHold == Timed(log) => LoopsSound
<1> SUFFICES ASSUME Timed(log), NEW p \in DetectRetryLoops(log)
             PROVE  \E run \in SUBSET DetectRetryLoops(log) :
                      /\ p \in run /\ Cardinality(run) >= AtMost(RetryThreshold, VariantThreshold)
                      /\ \A q \in run : ByArea(log)[q] = ByArea(log)[p] /\ ~Succeeded(q)
                      /\ \E first \in run :
                            /\ Failed(first)
                            /\ \A q \in run : log[first].at <= log[q].at
                                               /\ log[q].at <= log[first].at + RetryWindow
    BY DEF LoopsSound
<1>1. \A q \in Prescriptions(log) : q \in 1..Len(log)
    BY DEF Prescriptions
<1>2. /\ RetryThreshold \in Nat \ {0} /\ VariantThreshold \in Nat \ {0}
      /\ RetryThreshold >= AtMost(RetryThreshold, VariantThreshold)
      /\ VariantThreshold >= AtMost(RetryThreshold, VariantThreshold)
      /\ AtMost(RetryThreshold, VariantThreshold) \in Nat
    BY SignalsAssumption DEF SignalsAssumption, AtMost
<1> DEFINE Found(group, threshold) ==
              /\ group \in SUBSET Prescriptions(log)
              /\ \A q, r \in group : ByArea(log)[q] = ByArea(log)[r]
              /\ threshold \in Nat \ {0}
              /\ threshold >= AtMost(RetryThreshold, VariantThreshold)
              /\ DetectRetryLoopChains(log, group, threshold) \subseteq DetectRetryLoops(log)
              /\ p \in DetectRetryLoopChains(log, group, threshold)
<1>3. \E group, threshold : Found(group, threshold)
    <2>1. CASE \E g \in Groups(ByArtifact(log)) :
             p \in DetectRetryLoopChains(log, g, RetryThreshold)
        <3>1. PICK g \in Groups(ByArtifact(log)) :
                p \in DetectRetryLoopChains(log, g, RetryThreshold)
            BY <2>1
        <3>2. /\ g \in SUBSET Prescriptions(log)
              /\ \A q, r \in g : ByArtifact(log)[q] = ByArtifact(log)[r]
            BY GroupsAre DEF ByArtifact
        <3>3. \A q, r \in g : ByArea(log)[q] = ByArea(log)[r]
            BY <3>2 DEF ByArtifact, ByArea
        <3>4. DetectRetryLoopChains(log, g, RetryThreshold) \subseteq DetectRetryLoops(log)
            BY DEF DetectRetryLoops
        <3>5. Found(g, RetryThreshold)
            BY <1>2, <3>1, <3>2, <3>3, <3>4
        <3> QED
            BY <3>5
    <2>2. CASE \E g \in Groups(ByArea(log)) :
             p \in DetectRetryLoopChains(log, g, VariantThreshold)
        <3>1. PICK g \in Groups(ByArea(log)) :
                p \in DetectRetryLoopChains(log, g, VariantThreshold)
            BY <2>2
        <3>2. /\ g \in SUBSET Prescriptions(log)
              /\ \A q, r \in g : ByArea(log)[q] = ByArea(log)[r]
            BY GroupsAre DEF ByArea
        <3>4. DetectRetryLoopChains(log, g, VariantThreshold) \subseteq DetectRetryLoops(log)
            BY DEF DetectRetryLoops
        <3>5. Found(g, VariantThreshold)
            BY <1>2, <3>1, <3>2, <3>4
        <3> QED
            BY <3>5
    <2> QED
        BY <2>1, <2>2 DEF DetectRetryLoops
<1>4. PICK group, threshold : Found(group, threshold)
    BY <1>3
<1> DEFINE found == DetectRetryLoopChains(log, group, threshold)
<1>5. found \subseteq group /\ OfRuns(log, threshold, found)
    <2>1. group \in SUBSET (1..Len(log))
        BY <1>1, <1>4
    <2> QED
        BY <1>4, <2>1, ChainsSound
<1>6. PICK run \in SUBSET found : p \in run /\ Run(log, threshold, run)
    <2>1. p \in found
        BY <1>4
    <2> HIDE DEF found
    <2> QED
        BY <1>5, <2>1 DEF OfRuns
<1>7. \E first \in run :
          /\ Failed(first)
          /\ \A q \in run : log[first].at <= log[q].at /\ log[q].at <= log[first].at + RetryWindow
    BY <1>6 DEF Run, Failed
<1>8. \A q \in run : ByArea(log)[q] = ByArea(log)[p] /\ ~Succeeded(q)
    <2>1. \A q \in run : q \in group
        BY <1>5, <1>6
    <2> QED
        BY <1>4, <1>6, <2>1 DEF Run, Succeeded
<1>9. Cardinality(run) >= AtMost(RetryThreshold, VariantThreshold)
    <2>1. IsFiniteSet(run)
        <3>1. IsFiniteSet(1..Len(log)) /\ run \subseteq 1..Len(log)
            BY <1>1, <1>4, <1>5, <1>6, FS_Interval DEF Timed
        <3> QED
            BY <3>1, FS_Subset
    <2>2. Cardinality(run) \in Nat
        BY <2>1, FS_CardinalityType
    <2>3. Cardinality(run) >= threshold
        BY <1>6 DEF Run
    <2> QED
        BY <1>2, <1>4, <2>2, <2>3
<1>10. run \in SUBSET DetectRetryLoops(log)
    BY <1>4, <1>6
<1> QED
    BY <1>6, <1>7, <1>8, <1>9, <1>10

-----------------------------------------------------------------------------
(* Thrashing.                                                               *)

Exits(lg) == Timed(lg) /\ \A p \in 1..Len(lg) : lg[p].exit \in Exit

\* The last report of several.
LEMMA LastReport ==
    ASSUME NEW lg, Timed(lg), NEW p, ReportsOf(lg, p) # {}
    PROVE  \E r \in ReportsOf(lg, p) : \A q \in ReportsOf(lg, p) : q <= r
<1> DEFINE n == Len(lg)
           back == {n - r : r \in ReportsOf(lg, p)}
<1>1. n \in Nat /\ \A r \in ReportsOf(lg, p) : r \in 1..n
    BY DEF Timed, ReportsOf, Reports
<1> HIDE DEF n
<1>2. back \subseteq Nat /\ back # {}
    BY <1>1
<1>3. PICK x \in back : \A y \in back : ~ (<<y, x>> \in OpToRel(<, Nat))
    BY <1>2, NatLessThanWellFounded, WFMin
<1>4. PICK r \in ReportsOf(lg, p) : x = n - r
    BY <1>3
<1>5. ASSUME NEW q \in ReportsOf(lg, p) PROVE q <= r
    <2>1. n - q \in back
        OBVIOUS
    <2>2. ~ (n - q < x)
        BY <1>2, <1>3, <2>1 DEF OpToRel
    <2> QED
        BY <1>1, <1>4, <2>2
<1> QED
    BY <1>5

LEMMA ExitIs ==
    ASSUME NEW lg, Exits(lg), NEW p
    PROVE  ReportExit(lg, p) \in Exit
<1>1. CASE ReportsOf(lg, p) = {}
    BY <1>1 DEF ReportExit, Exit
<1>2. CASE ReportsOf(lg, p) # {}
    <2>1. \E r \in ReportsOf(lg, p) : \A q \in ReportsOf(lg, p) : q <= r
        BY <1>2, LastReport DEF Exits
    <2>2. \E r \in ReportsOf(lg, p) : ReportExit(lg, p) = lg[r].exit
        BY <1>2, <2>1 DEF ReportExit
    <2> QED
        BY <2>2 DEF Exits, ReportsOf, Reports
<1> QED
    BY <1>1, <1>2

LEMMA OrderedBack ==
    ASSUME NEW lg, Timed(lg), NEW set \in SUBSET (1..Len(lg)), NEW order, Ordered(lg, set, order),
           NEW j \in 1..Cardinality(set), NEW k \in 1..Cardinality(set),
           Earlier(lg, order[j], order[k])
    PROVE  j < k
<1>1. order[j] \in 1..Len(lg) /\ order[k] \in 1..Len(lg)
    <2>1. order[j] \in set /\ order[k] \in set
        BY DEF Ordered
    <2> QED
        BY <2>1
<1>2. order[j] # order[k] /\ ~Earlier(lg, order[k], order[j])
    BY <1>1, EarlierOrders
<1>3. j # k /\ ~(k < j)
    BY <1>2 DEF Ordered
<1> QED
    BY <1>3

\* A run of failures that counts, and a set that is made of such runs.
FailedRun(lg, run) ==
    /\ \A q \in run : ReportExit(lg, q) = "fail"
    /\ Cardinality({lg[q].intent : q \in run}) >= ThrashingThreshold
    /\ \A q, m \in run : \A b \in Prescriptions(lg) :
          Earlier(lg, q, b) /\ Earlier(lg, b, m) => ReportExit(lg, b) # "ok"
OfFailedRuns(lg, flagged) ==
    \A p \in flagged : \E run \in SUBSET flagged : p \in run /\ FailedRun(lg, run)

\* A window holds failures since the last success.
Window(lg, order, k, window) ==
    \E m \in 0..k :
        /\ \A i \in 1..Len(window) : /\ ReportExit(lg, window[i]) = "fail"
                                     /\ \E j \in (m+1)..k : window[i] = order[j]
        /\ \A j \in (m+1)..k : ReportExit(lg, order[j]) # "ok"

WindowState(group) == [window: Seq(group), flagged: SUBSET group]

LEMMA WindowIsRun ==
    ASSUME NEW lg, Timed(lg), NEW order, Ordered(lg, Prescriptions(lg), order),
           NEW k \in Nat, k <= Cardinality(Prescriptions(lg)),
           NEW window \in Seq(Prescriptions(lg)), Window(lg, order, k, window),
           Cardinality(IntentsOf(lg, window)) >= ThrashingThreshold
    PROVE  FailedRun(lg, ToSet(window))
<1> DEFINE group == Prescriptions(lg)
           n == Cardinality(group)
<1>1. group \in SUBSET (1..Len(lg)) /\ n \in Nat
    BY RankOf DEF Prescriptions
<1>2. \A q \in ToSet(window) : \E i \in 1..Len(window) : q = window[i]
    BY DEF ToSet
<1>3. PICK m \in 0..k :
        /\ \A i \in 1..Len(window) : /\ ReportExit(lg, window[i]) = "fail"
                                     /\ \E j \in (m+1)..k : window[i] = order[j]
        /\ \A j \in (m+1)..k : ReportExit(lg, order[j]) # "ok"
    BY DEF Window
<1>4. {lg[q].intent : q \in ToSet(window)} = IntentsOf(lg, window)
    BY DEF ToSet, IntentsOf
<1>5. ASSUME NEW q \in ToSet(window), NEW r \in ToSet(window), NEW b \in group,
             Earlier(lg, q, b), Earlier(lg, b, r)
      PROVE  ReportExit(lg, b) # "ok"
    <2>1. PICK i \in (m+1)..k : q = order[i]
        BY <1>2, <1>3
    <2>2. PICK j \in (m+1)..k : r = order[j]
        BY <1>2, <1>3
    <2>3. PICK l \in 1..n : b = order[l]
        BY DEF Ordered
    <2>4. i \in 1..n /\ j \in 1..n
        BY <1>1
    <2>5. i < l
        BY <1>1, <1>5, <2>1, <2>3, <2>4, OrderedBack
    <2>6. l < j
        BY <1>1, <1>5, <2>2, <2>3, <2>4, OrderedBack
    <2>7. l \in (m+1)..k
        BY <2>5, <2>6
    <2> QED
        BY <1>3, <2>3, <2>7
<1> QED
    BY <1>2, <1>3, <1>4, <1>5 DEF FailedRun

LEMMA ThrashedStays ==
    ASSUME NEW lg, NEW group, NEW s \in WindowState(group), NEW p \in group
    PROVE  Thrashed(lg, s, p) \in WindowState(group)
<1>1. s.window \in Seq(group) /\ s.flagged \in SUBSET group
      /\ s = [window |-> s.window, flagged |-> s.flagged]
    BY DEF WindowState
<1>2. <<>> \in Seq(group) /\ Append(s.window, p) \in Seq(group)
    BY <1>1
<1>3. ToSet(Append(s.window, p)) \subseteq group
    BY <1>2 DEF ToSet
<1>4. [window |-> <<>>, flagged |-> s.flagged \cup ToSet(Append(s.window, p))]
        \in WindowState(group)
    BY <1>1, <1>2, <1>3 DEF WindowState
<1>5. /\ [s EXCEPT !.window = <<>>] \in WindowState(group)
      /\ [s EXCEPT !.window = Append(s.window, p)] \in WindowState(group)
    BY <1>2 DEF WindowState
<1> QED
    BY <1>4, <1>5 DEF Thrashed

LEMMA ThrashedKeeps ==
    ASSUME NEW lg, Exits(lg), NEW order, Ordered(lg, Prescriptions(lg), order),
           NEW k \in Nat, k + 1 \in 1..Cardinality(Prescriptions(lg)),
           NEW s \in WindowState(Prescriptions(lg)), Window(lg, order, k, s.window),
           OfFailedRuns(lg, s.flagged)
    PROVE  LET t == Thrashed(lg, s, order[k+1])
           IN  Window(lg, order, k + 1, t.window) /\ OfFailedRuns(lg, t.flagged)
<1> DEFINE group == Prescriptions(lg)
           p == order[k+1]
           t == Thrashed(lg, s, p)
           more == Append(s.window, p)
<1>1. Cardinality(group) \in Nat
    BY RankOf DEF Prescriptions, Exits
<1>2. p \in group /\ s.window \in Seq(group) /\ s.flagged \in SUBSET group
    BY DEF Ordered, WindowState
<1>3. ReportExit(lg, p) \in {"ok", "fail", "none"}
    BY ExitIs DEF Exit
<1>4. PICK m \in 0..k :
        /\ \A i \in 1..Len(s.window) : /\ ReportExit(lg, s.window[i]) = "fail"
                                       /\ \E j \in (m+1)..k : s.window[i] = order[j]
        /\ \A j \in (m+1)..k : ReportExit(lg, order[j]) # "ok"
    BY DEF Window
<1>5. /\ m \in 0..(k+1) /\ k + 1 \in (m+1)..(k+1)
      /\ \A j \in (m+1)..k : j \in (m+1)..(k+1)
      /\ \A j \in (m+1)..(k+1) : j \in (m+1)..k \/ j = k + 1
    OBVIOUS
<1>6. Window(lg, order, k + 1, <<>>)
    <2>1. k + 1 \in 0..(k+1) /\ \A j \in ((k+1)+1)..(k+1) : FALSE
        OBVIOUS
    <2> QED
        BY <2>1 DEF Window
<1>7. CASE ReportExit(lg, p) = "ok"
    <2>1. t = [s EXCEPT !.window = <<>>]
        BY <1>7 DEF Thrashed
    <2>2. t.window = <<>> /\ t.flagged = s.flagged
        BY <2>1 DEF WindowState
    <2> QED
        BY <1>6, <2>2
<1>8. CASE ReportExit(lg, p) = "none"
    <2>1. t = s
        BY <1>8 DEF Thrashed
    <2>2. \A j \in (m+1)..(k+1) : ReportExit(lg, order[j]) # "ok"
        BY <1>4, <1>5, <1>8
    <2>3. Window(lg, order, k + 1, s.window)
        BY <1>4, <1>5, <2>2 DEF Window
    <2> QED
        BY <2>1, <2>3
<1>9. CASE ReportExit(lg, p) = "fail"
    <2>1. /\ more \in Seq(group) /\ Len(more) = Len(s.window) + 1 /\ more[Len(s.window)+1] = p
          /\ \A i \in 1..Len(s.window) : more[i] = s.window[i]
          /\ \A i \in 1..Len(s.window) + 1 : i \in 1..Len(s.window) \/ i = Len(s.window) + 1
        <3> DEFINE w == s.window
        <3>1. w \in Seq(group) /\ p \in group /\ more = Append(w, p)
            BY <1>2
        <3> HIDE DEF w, p, group
        <3>2. /\ Append(w, p) \in Seq(group) /\ Len(Append(w, p)) = Len(w) + 1
              /\ Append(w, p)[Len(w)+1] = p
              /\ \A i \in 1..Len(w) : Append(w, p)[i] = w[i]
              /\ \A i \in 1..Len(w) + 1 : i \in 1..Len(w) \/ i = Len(w) + 1
            BY <3>1
        <3> QED
            BY <3>1, <3>2 DEF w
    <2> HIDE DEF more
    <2>2. \A j \in (m+1)..(k+1) : ReportExit(lg, order[j]) # "ok"
        BY <1>4, <1>5, <1>9
    <2>3. \A i \in 1..Len(more) : /\ ReportExit(lg, more[i]) = "fail"
                                  /\ \E j \in (m+1)..(k+1) : more[i] = order[j]
        BY <1>4, <1>5, <1>9, <2>1
    <2>4. Window(lg, order, k + 1, more)
        BY <1>5, <2>2, <2>3 DEF Window
    <2>5. CASE Cardinality(IntentsOf(lg, more)) >= ThrashingThreshold
        <3>1. t = [window |-> <<>>, flagged |-> s.flagged \cup ToSet(more)]
            BY <1>9, <2>5 DEF Thrashed, more
        <3>2. FailedRun(lg, ToSet(more))
            BY <1>1, <2>1, <2>4, <2>5, WindowIsRun DEF Exits
        <3>3. OfFailedRuns(lg, s.flagged \cup ToSet(more))
            BY <3>2 DEF OfFailedRuns
        <3> QED
            BY <1>6, <3>1, <3>3
    <2>6. CASE ~(Cardinality(IntentsOf(lg, more)) >= ThrashingThreshold)
        <3>1. t = [s EXCEPT !.window = more]
            BY <1>9, <2>6 DEF Thrashed, more
        <3>2. t.window = more /\ t.flagged = s.flagged
            BY <3>1 DEF WindowState
        <3> QED
            BY <2>4, <3>2
    <2> QED
        BY <2>5, <2>6
<1> QED
    BY <1>3, <1>7, <1>8, <1>9

ScansWindows(lg, order, n, f) ==
    f = [k \in 0..n |-> IF k = 0 THEN [window |-> <<>>, flagged |-> {}]
                        ELSE Thrashed(lg, f[k-1], order[k])]

LEMMA WindowScanExists ==
    ASSUME NEW lg, NEW group, NEW n \in Nat, NEW order \in [1..n -> group]
    PROVE  \E f : ScansWindows(lg, order, n, f)
<1> DEFINE X == WindowState(group)
           base == [window |-> <<>>, flagged |-> {}]
           Step(k, s) == Thrashed(lg, s, order[k])
           step == [k \in 1..n |-> [s \in X |-> Step(k, s)]]
<1>1. base \in X
    BY DEF WindowState
<1>2. \A k \in 1..n : \A s \in X : Step(k, s) \in X
    BY ThrashedStays
<1> HIDE DEF X, Step, base
<1>3. step \in [1..n -> [X -> X]]
    BY <1>2
<1> HIDE DEF step
<1>4. Iterated(X, base, n, step)
    BY <1>1, <1>3, Iteration
<1>5. PICK f \in [0..n -> X] : f[0] = base /\ \A k \in 1..n : f[k] = step[k][f[k-1]]
    BY <1>4 DEF Iterated
<1>6. \A k \in 0..n : k # 0 => k \in 1..n /\ k - 1 \in 0..n
    OBVIOUS
<1>7. \A k \in 0..n : f[k] = IF k = 0 THEN base ELSE Step(k, f[k-1])
    BY <1>5, <1>6 DEF step
<1>8. f = [k \in 0..n |-> IF k = 0 THEN base ELSE Step(k, f[k-1])]
    BY <1>7
<1> QED
    BY <1>8 DEF ScansWindows, Step, base

LEMMA WindowScanKeeps ==
    ASSUME NEW lg, Exits(lg), NEW order, Ordered(lg, Prescriptions(lg), order),
           NEW n, n = Cardinality(Prescriptions(lg)), NEW f, ScansWindows(lg, order, n, f)
    PROVE  /\ f[n] \in WindowState(Prescriptions(lg))
           /\ OfFailedRuns(lg, f[n].flagged)
<1> DEFINE group == Prescriptions(lg)
           Good(k) == /\ f[k] \in WindowState(group) /\ Window(lg, order, k, f[k].window)
                      /\ OfFailedRuns(lg, f[k].flagged)
           S == {k \in Nat : k <= n => Good(k)}
<1>0. n \in Nat
    BY RankOf DEF Prescriptions, Exits
<1>1. 0 \in S
    <2>1. f[0] = [window |-> <<>>, flagged |-> {}]
        BY <1>0 DEF ScansWindows
    <2>2. <<>> \in Seq(group) /\ {} \subseteq group
        OBVIOUS
    <2>3. f[0] \in WindowState(group) /\ f[0].window = <<>> /\ f[0].flagged = {}
        BY <2>1, <2>2 DEF WindowState
    <2>4. Window(lg, order, 0, <<>>)
        BY DEF Window
    <2>5. Good(0)
        BY <2>3, <2>4 DEF OfFailedRuns
    <2> QED
        BY <2>5
<1>2. ASSUME NEW k \in Nat, k \in S PROVE k + 1 \in S
    <2> SUFFICES ASSUME k + 1 <= n PROVE Good(k + 1)
        OBVIOUS
    <2>1. /\ k + 1 \in 0..n /\ k + 1 # 0 /\ (k + 1) - 1 = k /\ k <= n
          /\ k + 1 \in 1..n
        BY <1>0
    <2>2. f[k+1] = Thrashed(lg, f[k], order[k+1])
        <3>1. f[k+1] = Thrashed(lg, f[(k+1)-1], order[k+1])
            BY <2>1 DEF ScansWindows
        <3> QED
            BY <2>1, <3>1
    <2>3. Good(k)
        BY <1>2, <2>1
    <2>4. order[k+1] \in group
        BY <2>1 DEF Ordered
    <2>5. f[k+1] \in WindowState(group)
        BY <2>2, <2>3, <2>4, ThrashedStays
    <2>6. /\ Window(lg, order, k + 1, f[k+1].window)
          /\ OfFailedRuns(lg, f[k+1].flagged)
        BY <2>1, <2>2, <2>3, ThrashedKeeps
    <2> QED
        BY <2>5, <2>6
<1> HIDE DEF S
<1>3. n \in S
    BY <1>0, <1>1, <1>2, SetInduction
<1> QED
    BY <1>0, <1>3 DEF S

LEMMA WindowScan ==
    ASSUME NEW lg, Timed(lg)
    PROVE  \E f : /\ ScansWindows(lg, ByTimestamp(lg, Prescriptions(lg)),
                                  Cardinality(Prescriptions(lg)), f)
                  /\ DetectThrashing(lg) = f[Cardinality(Prescriptions(lg))].flagged
<1> DEFINE group == Prescriptions(lg)
           order == ByTimestamp(lg, group)
           n == Cardinality(group)
           h == CHOOSE f : ScansWindows(lg, order, Len(order), f)
<1>1. group \in SUBSET (1..Len(lg))
    BY DEF Prescriptions
<1>2. Ordered(lg, group, order) /\ n \in Nat
    BY <1>1, ByTimestampOrders, RankOf
<1>3. Len(order) = n
    BY <1>2 DEF Ordered
<1>4. ScansWindows(lg, order, n, h)
    BY <1>2, <1>3, WindowScanExists DEF Ordered
<1>5. DetectThrashing(lg) = h[n].flagged
    BY <1>3 DEF DetectThrashing, ScansWindows
<1> HIDE DEF h, order
<1> QED
    BY <1>4, <1>5 DEF order

LEMMA ThrashingRuns ==
    ASSUME NEW lg, Exits(lg)
    PROVE  /\ DetectThrashing(lg) \subseteq Prescriptions(lg)
           /\ OfFailedRuns(lg, DetectThrashing(lg))
<1> DEFINE group == Prescriptions(lg)
           order == ByTimestamp(lg, group)
           n == Cardinality(group)
<1>1. group \in SUBSET (1..Len(lg)) /\ Timed(lg)
    BY DEF Prescriptions, Exits
<1>2. Ordered(lg, group, order)
    BY <1>1, ByTimestampOrders
<1>3. PICK f : ScansWindows(lg, order, n, f) /\ DetectThrashing(lg) = f[n].flagged
    BY <1>1, WindowScan
<1> HIDE DEF order
<1> QED
    BY <1>2, <1>3, WindowScanKeeps DEF WindowState

LEMMA ThrashingHolds == Exits(log) => ThrashingSound
<1>1. \A run : FailedRun(log, run) =>
         /\ \A q \in run : Failed(q)
         /\ Cardinality({log[q].intent : q \in run}) >= ThrashingThreshold
         /\ \A q, m \in run : \A b \in Between(q, m) : ~Succeeded(b)
    BY DEF FailedRun, Failed, Succeeded, Between, Before
<1>2. Exits(log) => OfFailedRuns(log, DetectThrashing(log))
    BY ThrashingRuns
<1> QED
    BY <1>1, <1>2 DEF ThrashingSound, OfFailedRuns

-----------------------------------------------------------------------------
(* Repairs.                                                                 *)

\* The j-th is the last of the first k attempts whose exit is known.
LastKnown(lg, order, k, j) ==
    /\ j \in 1..k /\ ReportExit(lg, order[j]) # "none"
    /\ \A i \in (j+1)..k : ReportExit(lg, order[i]) = "none"

\* The artifact that the last known attempt failed with, NoArtifact for none.
LastFailed(lg, order, k, artifact) ==
    /\ \A j \in 1..k : LastKnown(lg, order, k, j) =>
          artifact = IF ReportExit(lg, order[j]) = "fail" THEN lg[order[j]].artifact ELSE NoArtifact
    /\ artifact # NoArtifact => \E j \in 1..k : LastKnown(lg, order, k, j)

RepairAt(lg, order, i) ==
    /\ ReportExit(lg, order[i]) = "ok"
    /\ \E j \in 1..i-1 : /\ LastKnown(lg, order, i - 1, j) /\ ReportExit(lg, order[j]) = "fail"
                         /\ lg[order[j]].artifact \notin {NoArtifact, lg[order[i]].artifact}
RepairsUpto(lg, order, k) == {order[i] : i \in {x \in 1..k : RepairAt(lg, order, x)}}

RepairState(lg, group) ==
    [failed: {lg[q].artifact : q \in group} \cup {NoArtifact}, flagged: SUBSET group]

LEMMA RepairedStays ==
    ASSUME NEW lg, NEW group, NEW s \in RepairState(lg, group), NEW p \in group
    PROVE  Repaired(lg, s, p) \in RepairState(lg, group)
BY DEF RepairState, Repaired

LEMMA RepairedKeeps ==
    ASSUME NEW lg, Exits(lg), NEW group, NEW order, NEW k \in Nat,
           NEW s \in RepairState(lg, group), LastFailed(lg, order, k, s.failed),
           s.flagged = RepairsUpto(lg, order, k)
    PROVE  LET t == Repaired(lg, s, order[k+1])
           IN  /\ LastFailed(lg, order, k + 1, t.failed)
               /\ t.flagged = RepairsUpto(lg, order, k + 1)
<1> DEFINE p == order[k+1]
           t == Repaired(lg, s, p)
           a == s.failed
<1>1. ReportExit(lg, p) \in {"ok", "fail", "none"}
    BY ExitIs DEF Exit
<1>2. /\ k + 1 \in 1..(k+1) /\ (k + 1) - 1 = k
      /\ \A j \in 1..k : j \in 1..(k+1) /\ j # k + 1 /\ k + 1 \in (j+1)..(k+1)
      /\ \A j \in 1..(k+1) : j \in 1..k \/ j = k + 1
      /\ \A j \in 1..k : \A i \in (j+1)..(k+1) : i \in (j+1)..k \/ i = k + 1
      /\ \A j \in 1..k : \A i \in (j+1)..k : i \in (j+1)..(k+1)
      /\ \A i \in ((k+1)+1)..(k+1) : FALSE
    OBVIOUS
<1>3. RepairsUpto(lg, order, k + 1) =
        RepairsUpto(lg, order, k) \cup IF RepairAt(lg, order, k + 1) THEN {p} ELSE {}
    <2> DEFINE At(x) == RepairAt(lg, order, x)
    <2>1. /\ RepairsUpto(lg, order, k + 1) = {order[i] : i \in {x \in 1..(k+1) : At(x)}}
          /\ RepairsUpto(lg, order, k) = {order[i] : i \in {x \in 1..k : At(x)}}
        BY DEF RepairsUpto
    <2> HIDE DEF At
    <2>2. {x \in 1..(k+1) : At(x)} = {x \in 1..k : At(x)} \cup IF At(k + 1) THEN {k + 1} ELSE {}
        BY <1>2
    <2>3. RepairsUpto(lg, order, k + 1) =
            RepairsUpto(lg, order, k) \cup IF At(k + 1) THEN {order[k+1]} ELSE {}
        BY <2>1, <2>2
    <2> QED
        BY <2>3 DEF At
\* The last known attempt after this one.
<1>4. ASSUME ReportExit(lg, p) # "none"
      PROVE  \A j \in 1..(k+1) : LastKnown(lg, order, k + 1, j) <=> j = k + 1
    BY <1>2, <1>4 DEF LastKnown
<1>5. ASSUME ReportExit(lg, p) = "none"
      PROVE  /\ ~LastKnown(lg, order, k + 1, k + 1)
             /\ \A j \in 1..k : LastKnown(lg, order, k + 1, j) <=> LastKnown(lg, order, k, j)
    BY <1>2, <1>5 DEF LastKnown
<1>6. RepairAt(lg, order, k + 1) <=>
        ReportExit(lg, p) = "ok" /\ a \notin {NoArtifact, lg[p].artifact}
    <2>1. ASSUME RepairAt(lg, order, k + 1)
          PROVE  ReportExit(lg, p) = "ok" /\ a \notin {NoArtifact, lg[p].artifact}
        BY <1>2, <2>1 DEF RepairAt, LastFailed
    <2>2. ASSUME ReportExit(lg, p) = "ok", a \notin {NoArtifact, lg[p].artifact}
          PROVE  RepairAt(lg, order, k + 1)
        <3>1. PICK j \in 1..k : LastKnown(lg, order, k, j)
            BY <2>2 DEF LastFailed
        <3>2. ReportExit(lg, order[j]) = "fail" /\ a = lg[order[j]].artifact
            BY <2>2, <3>1 DEF LastFailed
        <3> QED
            BY <1>2, <2>2, <3>1, <3>2 DEF RepairAt
    <2> QED
        BY <2>1, <2>2
<1>7. s = [failed |-> a, flagged |-> s.flagged]
    BY DEF RepairState
<1>8. CASE ReportExit(lg, p) = "none"
    <2>1. t = s /\ ~RepairAt(lg, order, k + 1)
        BY <1>6, <1>8 DEF Repaired
    <2>2. LastFailed(lg, order, k + 1, a)
        BY <1>2, <1>5, <1>8 DEF LastFailed
    <2> QED
        BY <1>3, <2>1, <2>2
<1>9. CASE ReportExit(lg, p) = "fail"
    <2>1. t.failed = lg[p].artifact /\ t.flagged = s.flagged /\ ~RepairAt(lg, order, k + 1)
        BY <1>6, <1>7, <1>9 DEF Repaired
    <2>2. LastFailed(lg, order, k + 1, lg[p].artifact)
        BY <1>2, <1>4, <1>9 DEF LastFailed
    <2> QED
        BY <1>3, <2>1, <2>2
<1>10. CASE ReportExit(lg, p) = "ok"
    <2>1. /\ t.failed = NoArtifact
          /\ t.flagged = s.flagged \cup IF RepairAt(lg, order, k + 1) THEN {p} ELSE {}
        BY <1>6, <1>7, <1>10 DEF Repaired
    <2>2. LastFailed(lg, order, k + 1, NoArtifact)
        BY <1>2, <1>4, <1>10 DEF LastFailed
    <2> QED
        BY <1>3, <2>1, <2>2
<1> QED
    BY <1>1, <1>8, <1>9, <1>10

ScansRepairs(lg, order, n, f) ==
    f = [k \in 0..n |-> IF k = 0 THEN [failed |-> NoArtifact, flagged |-> {}]
                        ELSE Repaired(lg, f[k-1], order[k])]

LEMMA RepairScanExists ==
    ASSUME NEW lg, NEW group, NEW n \in Nat, NEW order \in [1..n -> group]
    PROVE  \E f : ScansRepairs(lg, order, n, f)
<1> DEFINE X == RepairState(lg, group)
           base == [failed |-> NoArtifact, flagged |-> {}]
           Step(k, s) == Repaired(lg, s, order[k])
           step == [k \in 1..n |-> [s \in X |-> Step(k, s)]]
<1>1. base \in X
    BY DEF RepairState
<1>2. \A k \in 1..n : \A s \in X : Step(k, s) \in X
    BY RepairedStays
<1> HIDE DEF X, Step, base
<1>3. step \in [1..n -> [X -> X]]
    BY <1>2
<1> HIDE DEF step
<1>4. Iterated(X, base, n, step)
    BY <1>1, <1>3, Iteration
<1>5. PICK f \in [0..n -> X] : f[0] = base /\ \A k \in 1..n : f[k] = step[k][f[k-1]]
    BY <1>4 DEF Iterated
<1>6. \A k \in 0..n : k # 0 => k \in 1..n /\ k - 1 \in 0..n
    OBVIOUS
<1>7. \A k \in 0..n : f[k] = IF k = 0 THEN base ELSE Step(k, f[k-1])
    BY <1>5, <1>6 DEF step
<1>8. f = [k \in 0..n |-> IF k = 0 THEN base ELSE Step(k, f[k-1])]
    BY <1>7
<1> QED
    BY <1>8 DEF ScansRepairs, Step, base

LEMMA RepairScanKeeps ==
    ASSUME NEW lg, Exits(lg), NEW group, NEW n \in Nat, NEW order \in [1..n -> group],
           NEW f, ScansRepairs(lg, order, n, f)
    PROVE  f[n].flagged = RepairsUpto(lg, order, n)
<1> DEFINE Good(k) == /\ f[k] \in RepairState(lg, group) /\ LastFailed(lg, order, k, f[k].failed)
                      /\ f[k].flagged = RepairsUpto(lg, order, k)
           S == {k \in Nat : k <= n => Good(k)}
<1>1. 0 \in S
    <2>1. f[0] = [failed |-> NoArtifact, flagged |-> {}]
        BY DEF ScansRepairs
    <2>2. f[0] \in RepairState(lg, group) /\ f[0].failed = NoArtifact /\ f[0].flagged = {}
        BY <2>1 DEF RepairState
    <2>3. LastFailed(lg, order, 0, NoArtifact) /\ RepairsUpto(lg, order, 0) = {}
        BY DEF LastFailed, RepairsUpto
    <2> QED
        BY <2>2, <2>3
<1>2. ASSUME NEW k \in Nat, k \in S PROVE k + 1 \in S
    <2> SUFFICES ASSUME k + 1 <= n PROVE Good(k + 1)
        OBVIOUS
    <2>1. /\ k + 1 \in 0..n /\ k + 1 # 0 /\ (k + 1) - 1 = k /\ k <= n
          /\ k + 1 \in 1..n
        OBVIOUS
    <2>2. f[k+1] = Repaired(lg, f[k], order[k+1])
        <3>1. f[k+1] = Repaired(lg, f[(k+1)-1], order[k+1])
            BY <2>1 DEF ScansRepairs
        <3> QED
            BY <2>1, <3>1
    <2>3. Good(k)
        BY <1>2, <2>1
    <2>4. f[k+1] \in RepairState(lg, group)
        BY <2>1, <2>2, <2>3, RepairedStays
    <2>5. /\ LastFailed(lg, order, k + 1, f[k+1].failed)
          /\ f[k+1].flagged = RepairsUpto(lg, order, k + 1)
        BY <2>2, <2>3, RepairedKeeps
    <2> QED
        BY <2>4, <2>5
<1> HIDE DEF S
<1>3. n \in S
    BY <1>1, <1>2, SetInduction
<1> QED
    BY <1>3 DEF S

\* The same said without the order of the scan.
RepairOf(lg, group, p) ==
    LET earlier == {q \in group : Earlier(lg, q, p) /\ ReportExit(lg, q) # "none"}
    IN  /\ ReportExit(lg, p) = "ok"
        /\ \E q \in earlier :
              /\ ReportExit(lg, q) = "fail"
              /\ lg[q].artifact \notin {NoArtifact, lg[p].artifact}
              /\ \A m \in earlier : m = q \/ Earlier(lg, m, q)

LEMMA RepairAtIs ==
    ASSUME NEW lg, Timed(lg), NEW group \in SUBSET (1..Len(lg)), NEW order,
           Ordered(lg, group, order), NEW i \in 1..Cardinality(group)
    PROVE  RepairAt(lg, order, i) <=> RepairOf(lg, group, order[i])
<1> DEFINE n == Cardinality(group)
           p == order[i]
           earlier == {q \in group : Earlier(lg, q, p) /\ ReportExit(lg, q) # "none"}
<1>0. n \in Nat
    BY RankOf
<1>1. \A j \in 1..n : order[j] \in group
    BY DEF Ordered
<1>2. \A q \in group : \E j \in 1..n : q = order[j]
    BY DEF Ordered
<1>3. \A j, k \in 1..n : Earlier(lg, order[j], order[k]) <=> j < k
    BY OrderedBack DEF Ordered
<1>4. \A j \in 1..n : j \in 1..i-1 <=> j < i
    BY <1>0
<1>5. \A j \in 1..i-1 : j \in 1..n
    BY <1>0
<1> HIDE DEF n
<1>6. ASSUME RepairAt(lg, order, i) PROVE RepairOf(lg, group, p)
    <2>1. PICK j \in 1..i-1 :
             /\ LastKnown(lg, order, i - 1, j) /\ ReportExit(lg, order[j]) = "fail"
             /\ lg[order[j]].artifact \notin {NoArtifact, lg[p].artifact}
        BY <1>6 DEF RepairAt
    <2>2. order[j] \in earlier
        BY <1>1, <1>3, <1>4, <1>5, <2>1 DEF n
    <2>3. ASSUME NEW m \in earlier PROVE m = order[j] \/ Earlier(lg, m, order[j])
        <3>1. PICK l \in 1..n : m = order[l]
            BY <1>2
        <3>2. l < i /\ l \in 1..i-1
            BY <1>3, <1>4, <3>1 DEF n
        <3>3. ~(l \in (j+1)..i-1)
            BY <2>1, <3>1 DEF LastKnown
        <3>4. l = j \/ l < j
            BY <3>2, <3>3
        <3> QED
            BY <1>3, <1>5, <3>1, <3>4
    <2> QED
        BY <1>6, <2>1, <2>2, <2>3 DEF RepairAt, RepairOf
<1>7. ASSUME RepairOf(lg, group, p) PROVE RepairAt(lg, order, i)
    <2>1. PICK q \in earlier : /\ ReportExit(lg, q) = "fail"
                               /\ lg[q].artifact \notin {NoArtifact, lg[p].artifact}
                               /\ \A m \in earlier : m = q \/ Earlier(lg, m, q)
        BY <1>7 DEF RepairOf
    <2>2. PICK j \in 1..n : q = order[j]
        BY <1>2
    <2>3. j < i /\ j \in 1..i-1
        BY <1>3, <1>4, <2>2 DEF n
    <2>4. ASSUME NEW l \in (j+1)..i-1, ReportExit(lg, order[l]) # "none" PROVE FALSE
        <3>1. l \in 1..i-1 /\ j < l
            OBVIOUS
        <3>2. l \in 1..n /\ l < i
            BY <1>4, <1>5, <3>1
        <3>3. order[l] \in earlier
            BY <1>1, <1>3, <2>4, <3>2 DEF n
        <3>4. order[l] = order[j] \/ Earlier(lg, order[l], order[j])
            BY <2>1, <2>2, <3>3
        <3>5. ~(l < j) /\ Earlier(lg, order[j], order[l])
            BY <1>3, <3>1, <3>2
        <3>6. order[l] = order[j]
            BY <1>3, <3>2, <3>4, <3>5
        <3> QED
            BY <1>3, <3>1, <3>2, <3>5, <3>6
    <2>5. LastKnown(lg, order, i - 1, j)
        BY <2>1, <2>2, <2>3, <2>4 DEF LastKnown
    <2> QED
        BY <1>7, <2>1, <2>2, <2>3, <2>5 DEF RepairAt, RepairOf
<1> QED
    BY <1>6, <1>7

LEMMA RepairScan ==
    ASSUME NEW lg, Timed(lg), NEW group \in SUBSET (1..Len(lg))
    PROVE  \E f : /\ ScansRepairs(lg, ByTimestamp(lg, group), Cardinality(group), f)
                  /\ RepairsIn(lg, group) = f[Cardinality(group)].flagged
<1> DEFINE order == ByTimestamp(lg, group)
           n == Cardinality(group)
           h == CHOOSE f : ScansRepairs(lg, order, Len(order), f)
<1>1. Ordered(lg, group, order) /\ n \in Nat
    BY ByTimestampOrders, RankOf
<1>2. Len(order) = n /\ order \in [1..n -> group]
    BY <1>1 DEF Ordered
<1>3. ScansRepairs(lg, order, n, h)
    BY <1>1, <1>2, RepairScanExists
<1>4. RepairsIn(lg, group) = h[n].flagged
    BY <1>2 DEF RepairsIn, ScansRepairs
<1> HIDE DEF h, order
<1> QED
    BY <1>3, <1>4 DEF order

LEMMA RepairsInAre ==
    ASSUME NEW lg, Exits(lg), NEW group \in SUBSET (1..Len(lg))
    PROVE  RepairsIn(lg, group) = {p \in group : RepairOf(lg, group, p)}
<1> DEFINE order == ByTimestamp(lg, group)
           n == Cardinality(group)
<1>1. Ordered(lg, group, order) /\ n \in Nat /\ Timed(lg)
    BY ByTimestampOrders, RankOf DEF Exits
<1>2. order \in [1..n -> group]
    BY <1>1 DEF Ordered
<1>3. PICK f : ScansRepairs(lg, order, n, f) /\ RepairsIn(lg, group) = f[n].flagged
    BY <1>1, RepairScan
<1> HIDE DEF order
<1>4. RepairsIn(lg, group) = RepairsUpto(lg, order, n)
    BY <1>1, <1>2, <1>3, RepairScanKeeps
<1>5. \A i \in 1..n : RepairAt(lg, order, i) <=> RepairOf(lg, group, order[i])
    BY <1>1, RepairAtIs
<1>6. \A p \in group : \E i \in 1..n : order[i] = p
    BY <1>1 DEF Ordered
<1>7. \A i \in 1..n : order[i] \in group
    BY <1>2
<1> HIDE DEF n
<1> QED
    BY <1>4, <1>5, <1>6, <1>7 DEF RepairsUpto

LEMMA RepairsHold == Exits(log) => RepairsExact
<1> SUFFICES ASSUME Exits(log) PROVE RepairsExact
    OBVIOUS
<1> DEFINE Same(p) == {q \in Prescriptions(log) : ByIntent(log)[q] = ByIntent(log)[p]}
<1>1. DetectRepairLoop(log) = UNION {RepairsIn(log, Same(p)) : p \in Prescriptions(log)}
    <2>1. DOMAIN ByIntent(log) = Prescriptions(log)
        BY DEF ByIntent
    <2>2. Groups(ByIntent(log)) = {Same(p) : p \in Prescriptions(log)}
        BY <2>1 DEF Groups
    <2> HIDE DEF Same
    <2>3. DetectRepairLoop(log) =
            UNION {RepairsIn(log, g) : g \in {Same(p) : p \in Prescriptions(log)}}
        BY <2>2 DEF DetectRepairLoop
    <2> QED
        BY <2>3
<1>2. \A p \in Prescriptions(log) : Same(p) \in SUBSET (1..Len(log)) /\ p \in Same(p)
    BY DEF Prescriptions
<1>3. \A p, q \in Prescriptions(log) :
         q \in Same(p) <=> log[q].actor = log[p].actor /\ log[q].intent = log[p].intent
    BY DEF ByIntent
<1>4. \A p \in Prescriptions(log) : \A q \in Same(p) : q \in Prescriptions(log) /\ Same(q) = Same(p)
    OBVIOUS
<1> HIDE DEF Same
<1>5. \A p \in Prescriptions(log) :
         RepairsIn(log, Same(p)) = {q \in Same(p) : RepairOf(log, Same(p), q)}
    BY <1>2, RepairsInAre
<1>6. DetectRepairLoop(log) = {p \in Prescriptions(log) : RepairOf(log, Same(p), p)}
    BY <1>1, <1>2, <1>4, <1>5
<1>7. ASSUME NEW p \in Prescriptions(log)
      PROVE  RepairOf(log, Same(p), p) <=>
             /\ Succeeded(p)
             /\ LET earlier == {q \in Prescriptions(log) :
                                  /\ Before(q, p) /\ ReportExit(log, q) # "none"
                                  /\ log[q].actor = log[p].actor /\ log[q].intent = log[p].intent}
                IN  \E q \in earlier :
                      /\ Failed(q) /\ log[q].artifact \notin {NoArtifact, log[p].artifact}
                      /\ \A m \in earlier : m = q \/ Before(m, q)
    <2> DEFINE earlier == {q \in Prescriptions(log) :
                             /\ Before(q, p) /\ ReportExit(log, q) # "none"
                             /\ log[q].actor = log[p].actor /\ log[q].intent = log[p].intent}
    <2>1. earlier = {q \in Same(p) : Earlier(log, q, p) /\ ReportExit(log, q) # "none"}
        BY <1>3, <1>4 DEF Before
    <2> HIDE DEF earlier
    <2>2. RepairOf(log, Same(p), p) <=>
             /\ ReportExit(log, p) = "ok"
             /\ \E q \in earlier :
                  /\ ReportExit(log, q) = "fail"
                  /\ log[q].artifact \notin {NoArtifact, log[p].artifact}
                  /\ \A m \in earlier : m = q \/ Earlier(log, m, q)
        BY <2>1 DEF RepairOf
    <2> QED
        BY <2>2 DEF Succeeded, Failed, Before, earlier
<1> QED
    BY <1>6, <1>7 DEF RepairsExact

-----------------------------------------------------------------------------
(* The score.                                                               *)

LEMMA AssessedIs == \A lg, t : Assessed(lg, t) = Snapshot(AllSignals(lg, t), Operations(lg))
BY DEF Assessed

LEMMA SumIs ==
    ASSUME NEW c \in [Signal -> Int]
    PROVE  /\ WeightedSum(c) = 30 * c.protocol_violation + 25 * c.artifact_drift
                 + 15 * c.retry_loop + 10 * c.blast_radius + 5 * c.new_scope
                 + (-5) * c.repair_loop + 10 * c.thrashing + 10 * c.risk_escalation
           /\ WeightedSum(c) \in Int
<1>1. \A s \in Signal : c[s] \in Int
    OBVIOUS
<1>2. /\ c.protocol_violation \in Int /\ c.artifact_drift \in Int /\ c.retry_loop \in Int
      /\ c.blast_radius \in Int /\ c.new_scope \in Int /\ c.repair_loop \in Int
      /\ c.thrashing \in Int /\ c.risk_escalation \in Int
    BY <1>1 DEF Signal, Weights
<1>3. WeightedSum(c) = 30 * c.protocol_violation + 25 * c.artifact_drift
                 + 15 * c.retry_loop + 10 * c.blast_radius + 5 * c.new_scope
                 + (-5) * c.repair_loop + 10 * c.thrashing + 10 * c.risk_escalation
    BY DEF WeightedSum, Weights
<1> HIDE DEF WeightedSum
<1> QED
    BY <1>2, <1>3

\* The score of a session that has operations, in integers.
Rated(sum, violations, drift, ops) ==
    AtMost((IF RateAbove(violations, ops, 10) THEN 85 ELSE 100) * ops,
           IF RateAbove(drift, ops, 5)
           THEN AtMost(85 * ops, 100 * ops - AtLeast(0, AtMost(100 * ops, sum)))
           ELSE 100 * ops - AtLeast(0, AtMost(100 * ops, sum)))

LEMMA SnapshotIs ==
    ASSUME NEW c, NEW ops \in Nat
    PROVE  /\ ops = 0 => Snapshot(c, ops).times = -1 /\ ~Snapshot(c, ops).sufficient
           /\ ops # 0 => Snapshot(c, ops).times =
                            Rated(WeightedSum(c), c.protocol_violation, c.artifact_drift, ops)
<1>1. MinOperations \in Nat \ {0}
    BY ScoreAssumption DEF ScoreAssumption
<1>2. CASE ops = 0
    <2>0. ops < MinOperations /\ ops < 1
        BY <1>1, <1>2
    <2>1. Snapshot(c, ops) = Compute(c, ops, FALSE, 1) /\ ops < 1
        BY <2>0, Zenon DEF Snapshot
    <2>2. Compute(c, ops, FALSE, 1).times = -1 /\ ~Compute(c, ops, FALSE, 1).sufficient
        BY <2>1 DEF Compute
    <2> QED
        BY <1>2, <2>1, <2>2
<1>3. CASE ops # 0
    <2>1. PICK min : Snapshot(c, ops) = Compute(c, ops, FALSE, min) /\ ~(ops < min)
        <3>1. ~(ops < 1)
            BY <1>3
        <3> QED
            BY <3>1, Zenon DEF Snapshot
    <2>2. Compute(c, ops, FALSE, min).times =
            Capped(100 * ops - Penalty(c, ops), c, ops,
                   Confidence(c.protocol_violation, ops, FALSE))
        BY <2>1 DEF Compute
    <2>3. Confidence(c.protocol_violation, ops, FALSE).ceiling =
            IF RateAbove(c.protocol_violation, ops, 10) THEN 85 ELSE 100
        BY DEF Confidence
    <2> QED
        BY <1>3, <2>1, <2>2, <2>3 DEF Capped, Penalty, Rated
<1> QED
    BY <1>2, <1>3

\* The score lies between 0 and 100, whatever is counted.
LEMMA RatedBounds ==
    ASSUME NEW sum \in Int, NEW violations \in Int, NEW drift \in Int, NEW ops \in Nat
    PROVE  Rated(sum, violations, drift, ops) \in 0..100 * ops
BY DEF Rated, AtMost, AtLeast, RateAbove

\* More violations never raise it.
LEMMA RatedFalls ==
    ASSUME NEW sum \in Int, NEW more \in Int, sum <= more,
           NEW v \in Int, NEW w \in Int, v <= w, NEW drift \in Int, NEW ops \in Nat
    PROVE  Rated(more, w, drift, ops) <= Rated(sum, v, drift, ops)
<1>1. RateAbove(v, ops, 10) => RateAbove(w, ops, 10)
    BY DEF RateAbove
<1> QED
    BY <1>1 DEF Rated, AtMost, AtLeast

LEMMA ScoreHolds ==
    ASSUME NEW c \in [Signal -> Int], NEW ops \in Nat, Snapshot(c, ops).sufficient
    PROVE  Snapshot(c, ops).times \in 0..100 * ops
<1>1. c.protocol_violation \in Int /\ c.artifact_drift \in Int
    BY DEF Signal, Weights
<1>2. WeightedSum(c) \in Int
    BY SumIs
<1>3. ops # 0 /\ Snapshot(c, ops).times =
         Rated(WeightedSum(c), c.protocol_violation, c.artifact_drift, ops)
    BY SnapshotIs
<1>4. Rated(WeightedSum(c), c.protocol_violation, c.artifact_drift, ops) \in 0..100 * ops
    BY <1>1, <1>2, RatedBounds
<1> QED
    BY <1>3, <1>4, Zenon

LEMMA ScoreFalls ==
    ASSUME NEW c \in [Signal -> Int], NEW d \in [Signal -> Int], NEW ops \in Nat,
           c.protocol_violation <= d.protocol_violation,
           \A s \in Signal \ {"protocol_violation"} : c[s] = d[s]
    PROVE  Snapshot(d, ops).times <= Snapshot(c, ops).times
<1>1. /\ \A s \in Signal : c[s] \in Int /\ d[s] \in Int
      /\ Signal = {"protocol_violation", "artifact_drift", "retry_loop", "blast_radius",
                   "new_scope", "repair_loop", "thrashing", "risk_escalation"}
    BY DEF Signal, Weights
<1>2. /\ d.artifact_drift = c.artifact_drift /\ d.retry_loop = c.retry_loop
      /\ d.blast_radius = c.blast_radius /\ d.new_scope = c.new_scope
      /\ d.repair_loop = c.repair_loop /\ d.thrashing = c.thrashing
      /\ d.risk_escalation = c.risk_escalation
    BY <1>1
<1>3. /\ c.protocol_violation \in Int /\ c.artifact_drift \in Int /\ c.retry_loop \in Int
      /\ c.blast_radius \in Int /\ c.new_scope \in Int /\ c.repair_loop \in Int
      /\ c.thrashing \in Int /\ c.risk_escalation \in Int /\ d.protocol_violation \in Int
    BY <1>1
<1>4. WeightedSum(c) <= WeightedSum(d) /\ WeightedSum(c) \in Int /\ WeightedSum(d) \in Int
    BY <1>2, <1>3, SumIs
<1>5. CASE ops = 0
    BY <1>5, SnapshotIs
<1>6. CASE ops # 0
    <2>1. Rated(WeightedSum(d), d.protocol_violation, c.artifact_drift, ops)
            <= Rated(WeightedSum(c), c.protocol_violation, c.artifact_drift, ops)
        BY <1>3, <1>4, RatedFalls
    <2> QED
        BY <1>2, <1>6, <2>1, SnapshotIs
<1> QED
    BY <1>5, <1>6

-----------------------------------------------------------------------------
(* The counts.                                                              *)

LEMMA EventsFinite ==
    ASSUME NEW lg, Timed(lg), NEW t
    PROVE  IsFiniteSet(DetectProtocolViolations(lg, t))
<1> DEFINE subs == Violations \cup {"crash_before_report", "stalled_operation"}
           n == Len(lg)
           found == DetectProtocolViolations(lg, t)
           pairs == subs \X (1..n)
           f == [e \in found |-> <<e.sub, e.ref>>]
<1>1. n \in Nat
    BY DEF Timed
<1>2. found \subseteq [sub: subs, ref: 1..n]
    <2>1. found = EventsUpto(lg, n) \cup DetectUnreported(lg, t)
        BY <1>1, JudgedAll
    <2>2. EventsUpto(lg, n) \subseteq [sub: subs, ref: 1..n]
        BY DEF EventsUpto
    <2>3. ASSUME NEW e \in DetectUnreported(lg, t) PROVE e \in [sub: subs, ref: 1..n]
        <3>1. /\ e.ref \in 1..n /\ e.sub \in {"crash_before_report", "stalled_operation"}
              /\ e = [sub |-> e.sub, ref |-> e.ref]
            BY UnreportedIs DEF DetectUnreported, Prescriptions
        <3> QED
            BY <3>1
    <2> QED
        BY <2>1, <2>2, <2>3
<1> HIDE DEF found, n
<1>3. f \in Injection(found, pairs)
    <2> HIDE DEF subs
    <2>1. \A e \in found : e.sub \in subs /\ e.ref \in 1..n /\ e = [sub |-> e.sub, ref |-> e.ref]
        BY <1>2
    <2> QED
        BY <2>1 DEF Injection, IsInjective
<1>4. IsFiniteSet(subs)
    <2>1. subs = {"unprescribed_action", "duplicate_report", "cross_actor_report"}
                 \cup {"report_without_digest"} \cup {"crash_before_report"}
                 \cup {"stalled_operation"}
        BY DEF Violations
    <2>2. IsFiniteSet({"unprescribed_action", "duplicate_report", "cross_actor_report"})
        <3>1. IsFiniteSet({"unprescribed_action"} \cup {"duplicate_report"}
                          \cup {"cross_actor_report"})
            BY FS_Singleton, FS_AddElement
        <3> QED
            BY <3>1
    <2> QED
        BY <2>1, <2>2, FS_AddElement
<1>5. IsFiniteSet(1..n)
    BY <1>1, FS_Interval
<1>6. IsFiniteSet(pairs)
    <2> HIDE DEF subs
    <2> QED
        BY <1>4, <1>5, FS_Product
<1>7. IsFiniteSet(found)
    <2> HIDE DEF f, pairs
    <2> QED
        BY <1>3, <1>6, FS_Injection
<1> QED
    BY <1>7 DEF found

LEMMA CountsNat ==
    ASSUME NEW lg, Exits(lg), NEW t
    PROVE  AllSignals(lg, t) \in [Signal -> Nat]
<1> DEFINE small(set) == set \subseteq 1..Len(lg)
           c == AllSignals(lg, t)
<1>1. ASSUME NEW set, small(set) PROVE Cardinality(set) \in Nat
    <2>1. Len(lg) \in Nat
        BY DEF Exits, Timed
    <2>2. IsFiniteSet(1..Len(lg))
        BY <2>1, FS_Interval
    <2> QED
        BY <1>1, <2>2, FS_Subset, FS_CardinalityType
<1>2. Prescriptions(lg) \subseteq 1..Len(lg) /\ Timed(lg)
    BY DEF Prescriptions, Exits
<1>3. /\ small(DetectArtifactDrift(lg)) /\ small(DetectBlastRadius(lg))
      /\ small(DetectNewScope(lg)) /\ small(DetectRiskEscalation(lg))
    BY <1>2
       DEF DetectArtifactDrift, DetectBlastRadius, DetectNewScope, DetectRiskEscalation, Reports
<1>4. small(DetectThrashing(lg))
    BY <1>2, ThrashingRuns
<1>5. small(DetectRetryLoops(lg))
    <2>1. \A g \in Groups(ByArtifact(lg)) \cup Groups(ByArea(lg)) : g \in SUBSET (1..Len(lg))
        <3>1. DOMAIN ByArtifact(lg) = Prescriptions(lg) /\ DOMAIN ByArea(lg) = Prescriptions(lg)
            BY DEF ByArtifact, ByArea
        <3> QED
            BY <1>2, <3>1, GroupsAre
    <2>2. RetryThreshold \in Nat \ {0} /\ VariantThreshold \in Nat \ {0}
        BY SignalsAssumption DEF SignalsAssumption
    <2>3. /\ \A g \in Groups(ByArtifact(lg)) : small(DetectRetryLoopChains(lg, g, RetryThreshold))
          /\ \A g \in Groups(ByArea(lg)) : small(DetectRetryLoopChains(lg, g, VariantThreshold))
        BY <1>2, <2>1, <2>2, ChainsSound
    <2> QED
        BY <2>3 DEF DetectRetryLoops
<1>6. small(DetectRepairLoop(lg))
    <2>1. \A g \in Groups(ByIntent(lg)) : g \in SUBSET (1..Len(lg))
        <3>1. DOMAIN ByIntent(lg) = Prescriptions(lg)
            BY DEF ByIntent
        <3> QED
            BY <1>2, <3>1, GroupsAre
    <2>2. \A g \in Groups(ByIntent(lg)) : small(RepairsIn(lg, g))
        BY <2>1, RepairsInAre
    <2> QED
        BY <2>2 DEF DetectRepairLoop
<1>7. Cardinality(DetectProtocolViolations(lg, t)) \in Nat
    BY <1>2, EventsFinite, FS_CardinalityType
<1> HIDE DEF small
<1> QED
    BY <1>1, <1>3, <1>4, <1>5, <1>6, <1>7 DEF AllSignals, Signal, Weights

LEMMA OperationsNat == \A lg : Exits(lg) => Operations(lg) \in Nat
BY RankOf DEF Exits, Operations, Prescriptions

\* The score of any session is one of 0..100, times the operations.
LEMMA AssessedBounds ==
    ASSUME NEW lg, Exits(lg), NEW t, Assessed(lg, t).sufficient
    PROVE  Assessed(lg, t).times \in 0..100 * Operations(lg)
<1>1. AllSignals(lg, t) \in [Signal -> Int]
    BY CountsNat
<1> QED
    BY <1>1, AssessedIs, OperationsNat, ScoreHolds

\* Time adds unreported prescriptions and nothing else.
LEMMA AssessedFalls ==
    ASSUME NEW lg, Exits(lg), NEW t \in Nat, NEW u \in Nat, t <= u
    PROVE  Assessed(lg, u).times <= Assessed(lg, t).times
<1> DEFINE c == AllSignals(lg, t)
           d == AllSignals(lg, u)
<1>1. c \in [Signal -> Int] /\ d \in [Signal -> Int]
    BY CountsNat
<1>2. \A s \in Signal \ {"protocol_violation"} : c[s] = d[s]
    BY DEF AllSignals, Signal, Weights
<1>3. DetectUnreported(lg, t) \subseteq DetectUnreported(lg, u)
    <2> DEFINE Late(v) == {p \in Prescriptions(lg) : v > lg[p].at + TTL}
    <2>1. Late(t) \subseteq Late(u)
        BY SignalsAssumption DEF SignalsAssumption, Prescriptions, Exits, Timed
    <2>2. /\ DetectUnreported(lg, t) = Unreported(lg, Late(t))
          /\ DetectUnreported(lg, u) = Unreported(lg, Late(u))
        BY DEF DetectUnreported
    <2> HIDE DEF Late
    <2>3. Unreported(lg, Late(t)) \subseteq Unreported(lg, Late(u))
        BY <2>1 DEF Unreported
    <2> QED
        BY <2>2, <2>3
<1>4. c.protocol_violation <= d.protocol_violation
    <2>1. DetectProtocolViolations(lg, t) \subseteq DetectProtocolViolations(lg, u)
        BY <1>3, JudgedAll DEF Exits, Timed
    <2>2. IsFiniteSet(DetectProtocolViolations(lg, u))
        BY EventsFinite DEF Exits
    <2>3. Cardinality(DetectProtocolViolations(lg, t))
            <= Cardinality(DetectProtocolViolations(lg, u))
        BY <2>1, <2>2, FS_Subset
    <2> QED
        BY <2>3 DEF AllSignals
<1> HIDE DEF c, d
<1>5. Snapshot(d, Operations(lg)).times <= Snapshot(c, Operations(lg)).times
    BY <1>1, <1>2, <1>4, OperationsNat, ScoreFalls
<1> QED
    BY <1>5, AssessedIs DEF c, d

-----------------------------------------------------------------------------
(* The session grows.                                                       *)

LEMMA SessionExits == \A lg, t : Session(lg, t) => Exits(lg)
<1> SUFFICES ASSUME NEW lg, NEW t, Session(lg, t) PROVE Exits(lg)
    OBVIOUS
<1>1. Len(lg) \in Nat /\ \A k \in 1..Len(lg) : lg[k] \in Entry
    BY DEF Session
<1> QED
    BY <1>1 DEF Entry, Exits, Timed

LEMMA StartsWell == Init => Session(log, now) /\ now \in 0..MaxTime
<1> SUFFICES ASSUME Init PROVE Session(log, now) /\ now \in 0..MaxTime
    OBVIOUS
<1>1. /\ \A h \in DOMAIN MaxEntries : Session(h, 0)
      /\ MaxTime \in Nat
    BY AssessmentAssumption, Zenon DEF AssessmentAssumption
<1> QED
    BY <1>1 DEF Init

\* An entry that is added leaves the others where they are.
LEMMA Added ==
    ASSUME NEW lg \in Seq(Entry), NEW e \in Entry
    PROVE  /\ Append(lg, e) \in Seq(Entry) /\ Len(Append(lg, e)) = Len(lg) + 1
           /\ Len(lg) \in Nat
           /\ \A k \in 1..Len(lg) : Append(lg, e)[k] = lg[k]
           /\ Append(lg, e)[Len(lg) + 1] = e
           /\ \A k \in 1..Len(lg) + 1 : k \in 1..Len(lg) \/ k = Len(lg) + 1
OBVIOUS

LEMMA SessionGrows ==
    ASSUME NEW lg, NEW t, Session(lg, t), NEW e \in Entry, e.at <= t,
           e.kind = "prescribe" => e.intent \in Intents,
           e.ref \in Prescriptions(lg) \cup {0}
    PROVE  Session(Append(lg, e), t)
<1> DEFINE more == Append(lg, e)
           n == Len(lg)
<1>1. /\ more \in Seq(Entry) /\ Len(more) = n + 1 /\ n \in Nat
      /\ \A k \in 1..n : more[k] = lg[k]
      /\ more[n + 1] = e
      /\ \A k \in 1..n + 1 : k \in 1..n \/ k = n + 1
    BY Added DEF Session
<1>2. \A k \in 1..n :
          /\ lg[k].at <= t
          /\ lg[k].kind = "prescribe" => lg[k].intent \in Intents
          /\ lg[k].ref \in Prescriptions(lg) \cup {0} /\ lg[k].ref < k
    BY DEF Session
<1> HIDE DEF more, n
<1>3. Prescriptions(lg) \subseteq Prescriptions(more) /\ Prescriptions(lg) \subseteq 1..n
    <2>1. \A k \in 1..n : k \in 1..n + 1
        BY <1>1
    <2> QED
        BY <1>1, <2>1 DEF Prescriptions, n
<1>4. e.ref < n + 1
    BY <1>1, <1>3
<1>5. \A k \in 1..n + 1 :
          /\ more[k].at <= t
          /\ more[k].kind = "prescribe" => more[k].intent \in Intents
          /\ more[k].ref \in Prescriptions(more) \cup {0} /\ more[k].ref < k
    BY <1>1, <1>2, <1>3, <1>4
<1> QED
    BY <1>1, <1>5 DEF Session, more

\* A report is stamped no earlier than the prescription it names.
Stamped(lg, e) == e.kind = "report" /\ e.ref # 0 => lg[e.ref].at <= e.at

\* What a step does: it adds an entry that a session may have, or time passes.
LEMMA StepIs ==
    ASSUME Session(log, now), now \in 0..MaxTime, Next
    PROVE  \/ /\ now' = now
              /\ \E e \in Entry : /\ log' = Append(log, e) /\ e.at <= now
                                  /\ Stamped(log, e)
                                  /\ e.kind = "prescribe" => e.intent \in Intents
                                  /\ e.ref \in Prescriptions(log) \cup {0}
           \/ log' = log /\ now' = now + 1 /\ now' \in 0..MaxTime
<1>0. /\ Plans \subseteq Intents \X (Artifacts \cup {NoArtifact})
      /\ Outcomes \subseteq (Artifacts \cup {NoArtifact}) \X Exit
      /\ MaxTime \in Nat
    BY AssessmentAssumption, Zenon DEF AssessmentAssumption
<1>1. CASE Prescribe
    <2>1. PICK a \in Actors, plan \in Plans, t \in Times : Add(Prescription(a, plan[1], plan[2], t))
        BY <1>1 DEF Prescribe
    <2> DEFINE e == Prescription(a, plan[1], plan[2], t)
    <2>2. plan[1] \in Intents /\ plan[2] \in Artifacts \cup {NoArtifact}
        BY <1>0
    <2>3. t \in Nat /\ t <= now
        BY DEF Times
    <2>4. /\ e \in Entry /\ e.at <= now /\ e.kind # "report"
          /\ e.intent \in Intents /\ e.ref = 0
        BY <2>2, <2>3 DEF Prescription, Entry, Exit
    <2>5. log' = Append(log, e) /\ now' = now
        BY <2>1 DEF Add
    <2> HIDE DEF e
    <2> QED
        BY <2>4, <2>5 DEF Stamped
<1>2. CASE RecordReport
    <2>1. PICK a \in Actors, ref \in Prescriptions(log) \cup {0}, outcome \in Outcomes,
               t \in Times :
             /\ ref # 0 => log[ref].at <= t
             /\ Add(Report(a, ref, outcome[1], outcome[2], t))
        BY <1>2 DEF RecordReport
    <2> DEFINE e == Report(a, ref, outcome[1], outcome[2], t)
    <2>2. outcome[1] \in Artifacts \cup {NoArtifact} /\ outcome[2] \in Exit
        BY <1>0
    <2>3. ref \in Nat /\ t \in Nat /\ t <= now
        BY DEF Prescriptions, Times
    <2>4. e \in Entry /\ e.at = t /\ e.at <= now /\ e.kind # "prescribe" /\ e.ref = ref
        BY <2>2, <2>3 DEF Report, Entry
    <2>5. log' = Append(log, e) /\ now' = now
        BY <2>1 DEF Add
    <2>6. Stamped(log, e)
        BY <2>1, <2>4 DEF Stamped
    <2> HIDE DEF e
    <2> QED
        BY <2>4, <2>5, <2>6
<1>3. CASE Wait
    BY <1>0, <1>3 DEF Wait
<1> QED
    BY <1>1, <1>2, <1>3 DEF Next

LEMMA SessionStep ==
    ASSUME Session(log, now), now \in 0..MaxTime, [Next]_vars
    PROVE  Session(log, now)' /\ (now \in 0..MaxTime)'
<1>1. CASE UNCHANGED vars
    BY <1>1 DEF vars, Session
<1>2. CASE /\ now' = now
           /\ \E e \in Entry : /\ log' = Append(log, e) /\ e.at <= now
                               /\ e.kind = "prescribe" => e.intent \in Intents
                               /\ e.ref \in Prescriptions(log) \cup {0}
    <2>1. Session(log', now')
        BY <1>2, SessionGrows
    <2> QED
        BY <1>2, <2>1
<1>3. CASE log' = log /\ now' = now + 1 /\ now' \in 0..MaxTime
    <2>1. \A k \in 1..Len(log) : log[k].at \in Nat
        BY SessionExits DEF Exits, Timed
    <2>2. Session(log', now')
        BY <1>3, <2>1 DEF Session
    <2> QED
        BY <1>3, <2>2
<1> QED
    BY <1>1, <1>2, <1>3, StepIs

-----------------------------------------------------------------------------
(* Verdicts on what was recorded.                                           *)

LEMMA BaselineStays ==
    ASSUME NEW lg, NEW more, NEW set, \A q \in set : more[q] = lg[q]
    PROVE  BaselineSeverity(more, set) = BaselineSeverity(lg, set)
<1>1. \A s : {q \in set : Severity[more[q].intent] = s} = {q \in set : Severity[lg[q].intent] = s}
    OBVIOUS
<1> QED
    BY <1>1 DEF BaselineSeverity

LEMMA VerdictsStay ==
    ASSUME NEW lg, NEW more, Len(lg) \in Nat, Len(more) \in Nat, Len(lg) <= Len(more),
           \A k \in 1..Len(lg) : more[k] = lg[k],
           NEW p \in Prescriptions(lg)
    PROVE  /\ p \in DetectRiskEscalation(lg) <=> p \in DetectRiskEscalation(more)
           /\ p \in DetectNewScope(lg) <=> p \in DetectNewScope(more)
<1>1. /\ p \in 1..Len(lg) /\ p \in Prescriptions(more) /\ more[p] = lg[p]
      /\ \A q \in 1..Len(more) : q < p => q \in 1..Len(lg) /\ more[q] = lg[q]
      /\ \A q \in 1..Len(lg) : q \in 1..Len(more)
    BY DEF Prescriptions
<1>2. \A q : q < p => (q \in Prescriptions(more) <=> q \in Prescriptions(lg))
    BY <1>1 DEF Prescriptions
<1>3. \A q \in Prescriptions(more) : q < p => q \in Prescriptions(lg) /\ more[q] = lg[q]
    BY <1>1, <1>2 DEF Prescriptions
<1>4. Prior(more, p) = Prior(lg, p)
    BY <1>1, <1>2, <1>3 DEF Prior, Stream, Prescriptions
<1>5. \A q \in Prior(lg, p) : more[q] = lg[q]
    BY <1>2, <1>3 DEF Prior, Stream
<1>6. BaselineSeverity(more, Prior(lg, p)) = BaselineSeverity(lg, Prior(lg, p))
    BY <1>5, BaselineStays
<1>7. \A q \in Prescriptions(more) : q < p => ByArea(more)[q] = ByArea(lg)[q]
    BY <1>3 DEF ByArea
<1>8. ByArea(more)[p] = ByArea(lg)[p]
    BY <1>1 DEF ByArea
<1>9. p \in DetectRiskEscalation(lg) <=> p \in DetectRiskEscalation(more)
    BY <1>1, <1>4, <1>6 DEF DetectRiskEscalation
<1>10. p \in DetectNewScope(lg) <=> p \in DetectNewScope(more)
    BY <1>1, <1>2, <1>7, <1>8 DEF DetectNewScope
<1> QED
    BY <1>9, <1>10

LEMMA VerdictsStep ==
    ASSUME Session(log, now), now \in 0..MaxTime, [Next]_vars
    PROVE  \A p \in Prescriptions(log) :
             /\ p \in DetectRiskEscalation(log) <=> p \in DetectRiskEscalation(log')
             /\ p \in DetectNewScope(log) <=> p \in DetectNewScope(log')
<1>1. CASE log' = log
    BY <1>1
<1>2. CASE \E e \in Entry : log' = Append(log, e)
    <2>1. log \in Seq(Entry)
        BY DEF Session
    <2>2. /\ Len(log) \in Nat /\ Len(log') \in Nat /\ Len(log) <= Len(log')
          /\ \A k \in 1..Len(log) : log'[k] = log[k]
        <3>1. PICK e \in Entry : log' = Append(log, e)
            BY <1>2
        <3> QED
            BY <2>1, <3>1, Added
    <2> QED
        BY <2>2, VerdictsStay
<1> QED
    BY <1>1, <1>2, StepIs DEF vars

-----------------------------------------------------------------------------
(* A part of a session, or another order of it: m takes the entries K of lg *)
(* to those of mo.                                                          *)

Img(m, set) == {m[k] : k \in set}

\* The same entries, and the reports of a prescription are where it is.
Mapped(lg, mo, m, K) ==
    /\ K \subseteq 1..Len(lg)
    /\ \A k, l \in K : m[k] = m[l] => k = l
    /\ Prescriptions(mo) = Img(m, K \cap Prescriptions(lg))
    /\ Reports(mo) = Img(m, K \cap Reports(lg))
    /\ \A k \in K : /\ mo[m[k]].actor = lg[k].actor /\ mo[m[k]].at = lg[k].at
                    /\ mo[m[k]].artifact = lg[k].artifact /\ mo[m[k]].intent = lg[k].intent
                    /\ mo[m[k]].exit = lg[k].exit
    /\ \A r \in K \cap Reports(lg) :
          IF lg[r].ref \in K \cap Prescriptions(lg) THEN mo[m[r]].ref = m[lg[r].ref]
                                                    ELSE mo[m[r]].ref \notin Prescriptions(mo)
    /\ \A p \in K \cap Prescriptions(lg) : ReportsOf(lg, p) \subseteq K

\* And prescriptions have the same order of timestamps, and the reports of one
\* the same order of entries.
Alike(lg, mo, m, K) ==
    /\ Mapped(lg, mo, m, K)
    /\ \A k, l \in K \cap Prescriptions(lg) : Earlier(mo, m[k], m[l]) <=> Earlier(lg, k, l)
    /\ \A p \in K \cap Prescriptions(lg) :
          \A q, r \in ReportsOf(lg, p) : q < r <=> m[q] < m[r]

LEMMA ReportsAlike ==
    ASSUME NEW lg, NEW mo, NEW m, NEW K, Alike(lg, mo, m, K), NEW p \in K \cap Prescriptions(lg)
    PROVE  ReportsOf(mo, m[p]) = Img(m, ReportsOf(lg, p))
<1>1. m[p] \in Prescriptions(mo)
    BY DEF Alike, Mapped, Img
<1>2. ASSUME NEW s \in ReportsOf(mo, m[p]) PROVE s \in Img(m, ReportsOf(lg, p))
    <2>1. s \in Reports(mo) /\ mo[s].ref = m[p]
        BY DEF ReportsOf
    <2>2. PICK r \in K \cap Reports(lg) : s = m[r]
        BY <2>1 DEF Alike, Mapped, Img
    <2>3. lg[r].ref \in K \cap Prescriptions(lg) /\ m[lg[r].ref] = m[p]
        BY <1>1, <2>1, <2>2 DEF Alike, Mapped
    <2>4. lg[r].ref = p
        BY <2>3 DEF Alike, Mapped
    <2> QED
        BY <2>2, <2>4 DEF Img, ReportsOf
<1>3. ASSUME NEW r \in ReportsOf(lg, p) PROVE m[r] \in ReportsOf(mo, m[p])
    <2>1. r \in K \cap Reports(lg) /\ lg[r].ref = p
        BY DEF Alike, Mapped, ReportsOf
    <2>2. m[r] \in Reports(mo) /\ mo[m[r]].ref = m[p]
        BY <2>1 DEF Alike, Mapped, Img
    <2> QED
        BY <2>2 DEF ReportsOf
<1> QED
    BY <1>2, <1>3 DEF Img

LEMMA ExitAlike ==
    ASSUME NEW lg, NEW mo, Timed(lg), Timed(mo), NEW m, NEW K, Alike(lg, mo, m, K),
           NEW p \in K \cap Prescriptions(lg)
    PROVE  ReportExit(mo, m[p]) = ReportExit(lg, p)
<1>1. ReportsOf(mo, m[p]) = Img(m, ReportsOf(lg, p))
    BY ReportsAlike
<1>2. CASE ReportsOf(lg, p) = {}
    BY <1>1, <1>2 DEF ReportExit, Img
<1>3. CASE ReportsOf(lg, p) # {}
    <2>1. PICK r \in ReportsOf(lg, p) : \A q \in ReportsOf(lg, p) : q <= r
        BY <1>3, LastReport
    <2>2. /\ ReportsOf(lg, p) \subseteq K \cap Reports(lg)
          /\ \A q \in ReportsOf(lg, p) : q \in Nat
          /\ \A q \in ReportsOf(mo, m[p]) : q \in Nat
        BY DEF Alike, Mapped, ReportsOf, Reports
    <2>3. \A q \in ReportsOf(lg, p) : q # r => q < r
        BY <2>1, <2>2
    <2>4. \A q \in ReportsOf(lg, p) : m[q] <= m[r]
        <3>1. \A q \in ReportsOf(lg, p) : q # r => m[q] < m[r]
            BY <2>2, <2>3 DEF Alike, Mapped
        <3>2. \A q \in ReportsOf(lg, p) : m[q] \in Nat
            BY <1>1, <2>2 DEF Img
        <3> QED
            BY <3>1, <3>2
    <2>5. m[r] \in ReportsOf(mo, m[p]) /\ \A q \in ReportsOf(mo, m[p]) : q <= m[r]
        BY <1>1, <2>4 DEF Img
    <2>6. ReportExit(lg, p) = lg[r].exit
        <3>1. \A q \in ReportsOf(lg, p) :
                (\A x \in ReportsOf(lg, p) : x <= q) => q = r
            BY <2>1, <2>2
        <3> QED
            BY <1>3, <2>1, <3>1 DEF ReportExit
    <2>7. ReportExit(mo, m[p]) = mo[m[r]].exit
        <3>1. \A q \in ReportsOf(mo, m[p]) :
                (\A x \in ReportsOf(mo, m[p]) : x <= q) => q = m[r]
            BY <2>2, <2>5
        <3> QED
            BY <2>5, <3>1 DEF ReportExit
    <2>8. mo[m[r]].exit = lg[r].exit
        BY <2>2 DEF Alike, Mapped
    <2> QED
        BY <2>6, <2>7, <2>8
<1> QED
    BY <1>2, <1>3

\* As many in the image.
LEMMA ImgCount ==
    ASSUME NEW m, NEW set, IsFiniteSet(set), \A k, l \in set : m[k] = m[l] => k = l
    PROVE  IsFiniteSet(Img(m, set)) /\ Cardinality(Img(m, set)) = Cardinality(set)
<1> DEFINE f == [k \in set |-> m[k]]
<1>1. f \in Bijection(set, Img(m, set))
    BY DEF Bijection, Injection, IsInjective, Surjection, Img
<1> QED
    BY <1>1, FS_Bijection DEF ExistsBijection

\* A group and its image have the same order.
LEMMA OrderAlike ==
    ASSUME NEW lg, NEW mo, Timed(lg), Timed(mo), NEW m, NEW K, Alike(lg, mo, m, K),
           NEW group \in SUBSET (K \cap Prescriptions(lg))
    PROVE  LET order == ByTimestamp(lg, group)
               image == ByTimestamp(mo, Img(m, group))
           IN  /\ Cardinality(Img(m, group)) = Cardinality(group)
               /\ \A k \in 1..Cardinality(group) : image[k] = m[order[k]]
<1> DEFINE order == ByTimestamp(lg, group)
           image == ByTimestamp(mo, Img(m, group))
           n == Cardinality(group)
<1>1. group \in SUBSET (1..Len(lg)) /\ Img(m, group) \in SUBSET (1..Len(mo))
    BY DEF Prescriptions, Alike, Mapped, Img
<1>2. /\ Ordered(lg, group, order) /\ Ranked(lg, group, order)
      /\ Ordered(mo, Img(m, group), image) /\ Ranked(mo, Img(m, group), image)
    BY <1>1, ByTimestampOrders
<1>3. IsFiniteSet(group) /\ n \in Nat
    BY <1>1, RankOf
<1>4. \A k, l \in group : m[k] = m[l] => k = l
    BY DEF Alike, Mapped
<1>5. Cardinality(Img(m, group)) = n
    BY <1>3, <1>4, ImgCount
<1> HIDE DEF order, image
<1>6. ASSUME NEW p \in group
      PROVE  Cardinality(Upto(mo, Img(m, group), m[p])) = Cardinality(Upto(lg, group, p))
    <2>1. \A q \in group : Earlier(mo, m[p], m[q]) <=> Earlier(lg, p, q)
        BY DEF Alike, Mapped
    <2>2. Upto(mo, Img(m, group), m[p]) = Img(m, Upto(lg, group, p))
        BY <2>1 DEF Upto, Img
    <2>3. IsFiniteSet(Upto(lg, group, p)) /\ Upto(lg, group, p) \subseteq group
        BY <1>3, FS_Subset DEF Upto
    <2> QED
        BY <1>4, <2>2, <2>3, ImgCount
<1>7. ASSUME NEW k \in 1..n PROVE image[k] = m[order[k]]
    <2>1. /\ order[k] \in group /\ image[k] \in Img(m, group)
          /\ Cardinality(Upto(lg, group, order[k])) = k
          /\ Cardinality(Upto(mo, Img(m, group), image[k])) = k
        BY <1>2, <1>5 DEF Ordered, Ranked
    <2>2. m[order[k]] \in Img(m, group)
        BY <2>1 DEF Img
    <2>3. Cardinality(Upto(mo, Img(m, group), m[order[k]])) = k
        BY <1>6, <2>1
    <2> QED
        BY <1>2, <2>1, <2>2, <2>3 DEF Ranked
<1> QED
    BY <1>5, <1>7 DEF order, image

-----------------------------------------------------------------------------
(* The detectors that follow attempts see the same of a group's image.      *)

\* A sequence of entries and its image.
ImgSeq(m, a, b) == Len(b) = Len(a) /\ \A i \in 1..Len(a) : b[i] = m[a[i]]

LEMMA ImgSeqIs ==
    ASSUME NEW m, NEW G, NEW H, NEW a \in Seq(G), NEW b \in Seq(H), ImgSeq(m, a, b)
    PROVE  /\ ToSet(b) = Img(m, ToSet(a))
           /\ \A p \in G : m[p] \in H => ImgSeq(m, Append(a, p), Append(b, m[p]))
<1>1. Len(a) \in Nat /\ Len(b) = Len(a)
    BY DEF ImgSeq
<1>4. ToSet(b) = Img(m, ToSet(a))
    BY <1>1 DEF ImgSeq, ToSet, Img
<1>5. ASSUME NEW p \in G, m[p] \in H PROVE ImgSeq(m, Append(a, p), Append(b, m[p]))
    <2>1. /\ Len(Append(a, p)) = Len(a) + 1 /\ Len(Append(b, m[p])) = Len(a) + 1
          /\ \A i \in 1..Len(a) : Append(a, p)[i] = a[i] /\ Append(b, m[p])[i] = b[i]
          /\ Append(a, p)[Len(a) + 1] = p /\ Append(b, m[p])[Len(a) + 1] = m[p]
          /\ \A i \in 1..Len(a) + 1 : i \in 1..Len(a) \/ i = Len(a) + 1
        BY <1>1, <1>5
    <2> QED
        BY <2>1 DEF ImgSeq
<1> QED
    BY <1>4, <1>5

LEMMA ImgSeqHead ==
    ASSUME NEW m, NEW G, NEW H, NEW a \in Seq(G), NEW b \in Seq(H), ImgSeq(m, a, b)
    PROVE  (a = <<>> /\ b = <<>>) \/ (a # <<>> /\ b # <<>> /\ Head(a) \in G /\ Head(b) = m[Head(a)])
<1>1. Len(a) \in Nat /\ Len(b) = Len(a)
    BY DEF ImgSeq
<1>2. CASE Len(a) = 0
    <2>1. a = <<>> /\ b = <<>>
        BY <1>1, <1>2
    <2> QED
        BY <2>1
<1>3. CASE Len(a) # 0
    <2>1. a # <<>> /\ b # <<>>
        BY <1>1, <1>3
    <2>2. 1 \in 1..Len(a) /\ Head(a) = a[1] /\ a[1] \in G /\ Head(b) = b[1]
        BY <1>1, <1>3
    <2>3. Head(b) = m[Head(a)]
        BY <2>2 DEF ImgSeq
    <2> QED
        BY <2>1, <2>2, <2>3
<1> QED
    BY <1>2, <1>3

\* The states of the loop over a group and over its image.
ChainsAlike(m, s, t) == ImgSeq(m, s.chain, t.chain) /\ t.flagged = Img(m, s.flagged)
WindowsAlike(m, s, t) == ImgSeq(m, s.window, t.window) /\ t.flagged = Img(m, s.flagged)
FailuresAlike(m, s, t) == t.failed = s.failed /\ t.flagged = Img(m, s.flagged)

LEMMA ClosedAlike ==
    ASSUME NEW m, NEW G, NEW H, NEW s \in ChainState(G), NEW t \in ChainState(H),
           ChainsAlike(m, s, t), NEW threshold
    PROVE  ChainsAlike(m, Closed(s, threshold), Closed(t, threshold))
<1>1. s.chain \in Seq(G) /\ t.chain \in Seq(H) /\ ImgSeq(m, s.chain, t.chain)
    BY DEF ChainState, ChainsAlike
<1>2. ToSet(t.chain) = Img(m, ToSet(s.chain)) /\ Len(t.chain) = Len(s.chain)
    BY <1>1, ImgSeqIs DEF ImgSeq
<1>3. ImgSeq(m, <<>>, <<>>)
    BY DEF ImgSeq
<1>4. Closed(s, threshold).chain = <<>> /\ Closed(t, threshold).chain = <<>>
    BY DEF Closed
<1>5. Closed(t, threshold).flagged = Img(m, Closed(s, threshold).flagged)
    BY <1>2 DEF Closed, ChainsAlike, Img
<1> QED
    BY <1>3, <1>4, <1>5 DEF ChainsAlike

LEMMA BegunAlike ==
    ASSUME NEW m, NEW lg, NEW mo, NEW G, NEW H, NEW s \in ChainState(G),
           NEW t \in ChainState(H), ChainsAlike(m, s, t), NEW p,
           ReportExit(mo, m[p]) = ReportExit(lg, p)
    PROVE  ChainsAlike(m, Begun(lg, s, p), Begun(mo, t, m[p]))
<1>1. ImgSeq(m, <<p>>, <<m[p]>>)
    BY DEF ImgSeq
<1>2. /\ [s EXCEPT !.chain = <<p>>].chain = <<p>>
      /\ [s EXCEPT !.chain = <<p>>].flagged = s.flagged
      /\ [t EXCEPT !.chain = <<m[p]>>].chain = <<m[p]>>
      /\ [t EXCEPT !.chain = <<m[p]>>].flagged = t.flagged
    BY DEF ChainState
<1> QED
    BY <1>1, <1>2 DEF ChainsAlike, Begun

LEMMA ChainedAlike ==
    ASSUME NEW lg, NEW mo, Timed(lg), Timed(mo), NEW m, NEW K, Alike(lg, mo, m, K),
           NEW G \in SUBSET (K \cap Prescriptions(lg)),
           NEW s \in ChainState(G), NEW t \in ChainState(Img(m, G)), ChainsAlike(m, s, t),
           NEW p \in G, NEW threshold
    PROVE  ChainsAlike(m, Chained(lg, s, p, threshold), Chained(mo, t, m[p], threshold))
<1> DEFINE c == Closed(s, threshold)
           d == Closed(t, threshold)
           H == Img(m, G)
<1>1. ReportExit(mo, m[p]) = ReportExit(lg, p)
    BY ExitAlike
<1>2. /\ s.chain \in Seq(G) /\ t.chain \in Seq(H) /\ ImgSeq(m, s.chain, t.chain)
      /\ t.flagged = Img(m, s.flagged)
    BY DEF ChainState, ChainsAlike
<1>3. m[p] \in H
    BY DEF Img
<1> HIDE DEF H
<1>4. /\ \/ s.chain = <<>> /\ t.chain = <<>>
         \/ /\ s.chain # <<>> /\ t.chain # <<>>
            /\ Head(s.chain) \in G /\ Head(t.chain) = m[Head(s.chain)]
      /\ ImgSeq(m, Append(s.chain, p), Append(t.chain, m[p]))
    <2>1. ASSUME NEW a \in Seq(G), NEW b \in Seq(H), ImgSeq(m, a, b)
          PROVE  /\ \/ a = <<>> /\ b = <<>>
                    \/ a # <<>> /\ b # <<>> /\ Head(a) \in G /\ Head(b) = m[Head(a)]
                 /\ ImgSeq(m, Append(a, p), Append(b, m[p]))
        <3>1. \/ a = <<>> /\ b = <<>>
              \/ a # <<>> /\ b # <<>> /\ Head(a) \in G /\ Head(b) = m[Head(a)]
            BY <2>1, ImgSeqHead
        <3>3. ImgSeq(m, Append(a, p), Append(b, m[p]))
            BY <1>3, <2>1, ImgSeqIs
        <3> QED
            BY <3>1, <3>3
    <2> QED
        BY <1>2, <2>1
<1>5. ChainsAlike(m, c, d)
    BY ClosedAlike DEF H
<1>6. c \in ChainState(G) /\ d \in ChainState(H)
    <2>1. /\ ToSet(s.chain) \subseteq G /\ ToSet(t.chain) \subseteq H
          /\ s.flagged \subseteq G /\ t.flagged \subseteq H
        BY <1>2 DEF ToSet, ChainState, H
    <2>2. <<>> \in Seq(G) /\ <<>> \in Seq(H)
        OBVIOUS
    <2> QED
        BY <2>1, <2>2 DEF ChainState, Closed
<1>7. ChainsAlike(m, Begun(lg, c, p), Begun(mo, d, m[p]))
    <2> HIDE DEF c, d
    <2> QED
        BY <1>1, <1>5, <1>6, BegunAlike
<1>8. ChainsAlike(m, Begun(lg, s, p), Begun(mo, t, m[p]))
    BY <1>1, BegunAlike DEF H
<1>9. ChainsAlike(m, [s EXCEPT !.chain = Append(@, p)], [t EXCEPT !.chain = Append(@, m[p])])
    <2>1. /\ [s EXCEPT !.chain = Append(@, p)].chain = Append(s.chain, p)
          /\ [s EXCEPT !.chain = Append(@, p)].flagged = s.flagged
          /\ [t EXCEPT !.chain = Append(@, m[p])].chain = Append(t.chain, m[p])
          /\ [t EXCEPT !.chain = Append(@, m[p])].flagged = t.flagged
        BY DEF ChainState
    <2> QED
        BY <1>2, <1>4, <2>1 DEF ChainsAlike
<1>10. \A q \in G : mo[m[q]].at = lg[q].at
    BY DEF Alike, Mapped
<1>11. s.chain # <<>> =>
          /\ mo[m[p]].at = lg[p].at
          /\ mo[Head(t.chain)].at = lg[Head(s.chain)].at
    BY <1>4, <1>10
<1> HIDE DEF c, d
<1> QED
    BY <1>1, <1>4, <1>5, <1>7, <1>8, <1>9, <1>11 DEF Chained, c, d

LEMMA ThrashedAlike ==
    ASSUME NEW lg, NEW mo, Timed(lg), Timed(mo), NEW m, NEW K, Alike(lg, mo, m, K),
           NEW G \in SUBSET (K \cap Prescriptions(lg)),
           NEW s \in WindowState(G), NEW t \in WindowState(Img(m, G)), WindowsAlike(m, s, t),
           NEW p \in G
    PROVE  WindowsAlike(m, Thrashed(lg, s, p), Thrashed(mo, t, m[p]))
<1> DEFINE H == Img(m, G)
           v == Append(s.window, p)
           w == Append(t.window, m[p])
<1>1. ReportExit(mo, m[p]) = ReportExit(lg, p)
    BY ExitAlike
<1>2. /\ s.window \in Seq(G) /\ t.window \in Seq(H) /\ ImgSeq(m, s.window, t.window)
      /\ t.flagged = Img(m, s.flagged)
    BY DEF WindowState, WindowsAlike
<1>3. m[p] \in H
    BY DEF Img
<1> HIDE DEF H
<1>4. v \in Seq(G) /\ w \in Seq(H) /\ ImgSeq(m, v, w)
    <2>1. ASSUME NEW a \in Seq(G), NEW b \in Seq(H), ImgSeq(m, a, b)
          PROVE  /\ Append(a, p) \in Seq(G) /\ Append(b, m[p]) \in Seq(H)
                 /\ ImgSeq(m, Append(a, p), Append(b, m[p]))
        <3>1. Append(a, p) \in Seq(G) /\ Append(b, m[p]) \in Seq(H)
            BY <1>3
        <3>2. ImgSeq(m, Append(a, p), Append(b, m[p]))
            BY <1>3, <2>1, ImgSeqIs
        <3> QED
            BY <3>1, <3>2
    <2> QED
        BY <1>2, <2>1
<1> HIDE DEF v, w
<1>5. ToSet(w) = Img(m, ToSet(v))
    BY <1>4, ImgSeqIs
<1>6. IntentsOf(mo, w) = IntentsOf(lg, v)
    <2>1. \A k \in 1..Len(v) : v[k] \in K /\ w[k] = m[v[k]]
        BY <1>4 DEF ImgSeq
    <2>2. \A k \in 1..Len(v) : mo[w[k]].intent = lg[v[k]].intent
        BY <2>1 DEF Alike, Mapped
    <2>3. Len(w) = Len(v)
        BY <1>4 DEF ImgSeq
    <2> QED
        BY <2>2, <2>3 DEF IntentsOf
<1>7. ImgSeq(m, <<>>, <<>>)
    BY DEF ImgSeq
<1>8. CASE ReportExit(lg, p) = "ok"
    <2>1. /\ Thrashed(lg, s, p) = [s EXCEPT !.window = <<>>]
          /\ Thrashed(mo, t, m[p]) = [t EXCEPT !.window = <<>>]
        BY <1>1, <1>8 DEF Thrashed
    <2>2. /\ [s EXCEPT !.window = <<>>].window = <<>>
          /\ [s EXCEPT !.window = <<>>].flagged = s.flagged
          /\ [t EXCEPT !.window = <<>>].window = <<>>
          /\ [t EXCEPT !.window = <<>>].flagged = t.flagged
        BY DEF WindowState
    <2> QED
        BY <1>2, <1>7, <2>1, <2>2 DEF WindowsAlike
<1>9. CASE ReportExit(lg, p) = "none"
    BY <1>1, <1>9 DEF Thrashed
<1>10. CASE /\ ReportExit(lg, p) \notin {"ok", "none"}
            /\ Cardinality(IntentsOf(lg, v)) >= ThrashingThreshold
    <2>1. /\ Thrashed(lg, s, p) = [window |-> <<>>, flagged |-> s.flagged \cup ToSet(v)]
          /\ Thrashed(mo, t, m[p]) = [window |-> <<>>, flagged |-> t.flagged \cup ToSet(w)]
        BY <1>1, <1>6, <1>10 DEF Thrashed, v, w
    <2>2. t.flagged \cup ToSet(w) = Img(m, s.flagged \cup ToSet(v))
        BY <1>2, <1>5 DEF Img
    <2> QED
        <3>1. /\ Thrashed(lg, s, p).window = <<>> /\ Thrashed(mo, t, m[p]).window = <<>>
              /\ Thrashed(lg, s, p).flagged = s.flagged \cup ToSet(v)
              /\ Thrashed(mo, t, m[p]).flagged = t.flagged \cup ToSet(w)
            BY <2>1
        <3> QED
            BY <1>7, <2>2, <3>1 DEF WindowsAlike
<1>11. CASE /\ ReportExit(lg, p) \notin {"ok", "none"}
            /\ ~(Cardinality(IntentsOf(lg, v)) >= ThrashingThreshold)
    <2>1. /\ Thrashed(lg, s, p) = [s EXCEPT !.window = v]
          /\ Thrashed(mo, t, m[p]) = [t EXCEPT !.window = w]
        BY <1>1, <1>6, <1>11 DEF Thrashed, v, w
    <2>2. /\ [s EXCEPT !.window = v].window = v
          /\ [s EXCEPT !.window = v].flagged = s.flagged
          /\ [t EXCEPT !.window = w].window = w
          /\ [t EXCEPT !.window = w].flagged = t.flagged
        BY DEF WindowState
    <2> QED
        BY <1>2, <1>4, <2>1, <2>2 DEF WindowsAlike
<1> QED
    BY <1>8, <1>9, <1>10, <1>11

LEMMA RepairedAlike ==
    ASSUME NEW lg, NEW mo, Timed(lg), Timed(mo), NEW m, NEW K, Alike(lg, mo, m, K),
           NEW G \in SUBSET (K \cap Prescriptions(lg)),
           NEW s \in RepairState(lg, G), NEW t \in RepairState(mo, Img(m, G)),
           FailuresAlike(m, s, t), NEW p \in G
    PROVE  FailuresAlike(m, Repaired(lg, s, p), Repaired(mo, t, m[p]))
<1>1. ReportExit(mo, m[p]) = ReportExit(lg, p)
    BY ExitAlike
<1>2. mo[m[p]].artifact = lg[p].artifact
    BY DEF Alike, Mapped
<1>3. \A x : /\ [s EXCEPT !.failed = x].failed = x /\ [s EXCEPT !.failed = x].flagged = s.flagged
             /\ [t EXCEPT !.failed = x].failed = x /\ [t EXCEPT !.failed = x].flagged = t.flagged
    BY DEF RepairState
<1>4. t.flagged \cup {m[p]} = Img(m, s.flagged \cup {p})
    BY DEF FailuresAlike, Img
<1> QED
    BY <1>1, <1>2, <1>3, <1>4 DEF Repaired, FailuresAlike

\* What the two loops have in common at their beginning they have at their end.
LEMMA InStep ==
    ASSUME NEW n \in Nat, NEW f, NEW g, NEW R, <<f[0], g[0]>> \in R,
           \A k \in 1..n : <<f[k-1], g[k-1]>> \in R => <<f[k], g[k]>> \in R
    PROVE  <<f[n], g[n]>> \in R
<1> DEFINE S == {k \in Nat : k <= n => <<f[k], g[k]>> \in R}
<1>1. 0 \in S
    OBVIOUS
<1>2. ASSUME NEW k \in Nat, k \in S PROVE k + 1 \in S
    <2> SUFFICES ASSUME k + 1 <= n PROVE <<f[k+1], g[k+1]>> \in R
        OBVIOUS
    <2>1. k + 1 \in 1..n /\ (k + 1) - 1 = k /\ k <= n
        OBVIOUS
    <2>2. <<f[(k+1)-1], g[(k+1)-1]>> \in R
        BY <1>2, <2>1
    <2> QED
        BY <2>1, <2>2
<1> HIDE DEF S
<1>3. n \in S
    BY <1>1, <1>2, SetInduction
<1> QED
    BY <1>3 DEF S

LEMMA ChainsOfAlike ==
    ASSUME NEW lg, NEW mo, Timed(lg), Timed(mo), NEW m, NEW K, Alike(lg, mo, m, K),
           NEW G \in SUBSET (K \cap Prescriptions(lg)), NEW threshold
    PROVE  DetectRetryLoopChains(mo, Img(m, G), threshold) =
             Img(m, DetectRetryLoopChains(lg, G, threshold))
<1> DEFINE H == Img(m, G)
           a == ByTimestamp(lg, G)
           b == ByTimestamp(mo, H)
           n == Cardinality(G)
           R == {x \in ChainState(G) \X ChainState(H) : ChainsAlike(m, x[1], x[2])}
<1>1. G \in SUBSET (1..Len(lg)) /\ H \in SUBSET (1..Len(mo))
    BY DEF Prescriptions, Alike, Mapped, Img
<1>2. n \in Nat /\ Cardinality(H) = n /\ \A k \in 1..n : b[k] = m[a[k]]
    <2>1. n \in Nat
        BY <1>1, RankOf
    <2>2. Cardinality(H) = n /\ \A k \in 1..n : b[k] = m[a[k]]
        BY OrderAlike
    <2> QED
        BY <2>1, <2>2
<1>3. PICK f : /\ ScansLoops(lg, a, threshold, n, f)
               /\ DetectRetryLoopChains(lg, G, threshold) = Closed(f[n], threshold).flagged
    BY <1>1, LoopScan
<1>4. PICK g : /\ ScansLoops(mo, b, threshold, n, g)
               /\ DetectRetryLoopChains(mo, H, threshold) = Closed(g[n], threshold).flagged
    BY <1>1, <1>2, LoopScan
<1>5. \A k \in 1..n : a[k] \in G
    BY <1>1, ByTimestampOrders DEF Ordered
<1>6. \A q \in G : m[q] \in H
    BY DEF Img
<1> HIDE DEF a, b, H, n
<1>7. <<f[0], g[0]>> \in R
    <2>1. f[0] = [chain |-> <<>>, flagged |-> {}] /\ g[0] = [chain |-> <<>>, flagged |-> {}]
        BY <1>2, <1>3, <1>4 DEF ScansLoops
    <2>2. f[0] \in ChainState(G) /\ g[0] \in ChainState(H)
        BY <2>1 DEF ChainState
    <2>3. f[0].chain = <<>> /\ g[0].chain = <<>> /\ f[0].flagged = {} /\ g[0].flagged = {}
        BY <2>1
    <2>4. ImgSeq(m, <<>>, <<>>) /\ Img(m, {}) = {}
        BY DEF ImgSeq, Img
    <2> QED
        BY <2>2, <2>3, <2>4 DEF ChainsAlike
<1>8. ASSUME NEW k \in 1..n, <<f[k-1], g[k-1]>> \in R PROVE <<f[k], g[k]>> \in R
    <2>1. k \in 0..n /\ k # 0
        BY <1>2
    <2>2. /\ f[k] = Chained(lg, f[k-1], a[k], threshold)
          /\ g[k] = Chained(mo, g[k-1], m[a[k]], threshold)
        BY <1>2, <1>3, <1>4, <2>1 DEF ScansLoops
    <2>3. f[k-1] \in ChainState(G) /\ g[k-1] \in ChainState(H) /\ ChainsAlike(m, f[k-1], g[k-1])
        BY <1>8
    <2>4. a[k] \in G /\ m[a[k]] \in H
        BY <1>5, <1>6
    <2>5. ChainsAlike(m, f[k], g[k])
        BY <2>2, <2>3, <2>4, ChainedAlike DEF H
    <2>6. f[k] \in ChainState(G) /\ g[k] \in ChainState(H)
        BY <2>2, <2>3, <2>4, ChainedStays
    <2> QED
        BY <2>5, <2>6
<1> HIDE DEF R
<1>9. <<f[n], g[n]>> \in R
    BY <1>2, <1>7, <1>8, InStep
<1>10. ChainsAlike(m, Closed(f[n], threshold), Closed(g[n], threshold))
    BY <1>9, ClosedAlike DEF R
<1> QED
    BY <1>3, <1>4, <1>10 DEF ChainsAlike, H

LEMMA RepairsAlike ==
    ASSUME NEW lg, NEW mo, Timed(lg), Timed(mo), NEW m, NEW K, Alike(lg, mo, m, K),
           NEW G \in SUBSET (K \cap Prescriptions(lg))
    PROVE  RepairsIn(mo, Img(m, G)) = Img(m, RepairsIn(lg, G))
<1> DEFINE H == Img(m, G)
           a == ByTimestamp(lg, G)
           b == ByTimestamp(mo, H)
           n == Cardinality(G)
           R == {x \in RepairState(lg, G) \X RepairState(mo, H) : FailuresAlike(m, x[1], x[2])}
<1>1. G \in SUBSET (1..Len(lg)) /\ H \in SUBSET (1..Len(mo))
    BY DEF Prescriptions, Alike, Mapped, Img
<1>2. n \in Nat /\ Cardinality(H) = n /\ \A k \in 1..n : b[k] = m[a[k]]
    <2>1. n \in Nat
        BY <1>1, RankOf
    <2>2. Cardinality(H) = n /\ \A k \in 1..n : b[k] = m[a[k]]
        BY OrderAlike
    <2> QED
        BY <2>1, <2>2
<1>3. PICK f : ScansRepairs(lg, a, n, f) /\ RepairsIn(lg, G) = f[n].flagged
    BY <1>1, RepairScan
<1>4. PICK g : ScansRepairs(mo, b, n, g) /\ RepairsIn(mo, H) = g[n].flagged
    BY <1>1, <1>2, RepairScan
<1>5. \A k \in 1..n : a[k] \in G
    BY <1>1, ByTimestampOrders DEF Ordered
<1>6. \A q \in G : m[q] \in H
    BY DEF Img
<1> HIDE DEF a, b, H, n
<1>7. <<f[0], g[0]>> \in R
    <2>1. /\ f[0] = [failed |-> NoArtifact, flagged |-> {}]
          /\ g[0] = [failed |-> NoArtifact, flagged |-> {}]
        BY <1>2, <1>3, <1>4 DEF ScansRepairs
    <2>2. f[0] \in RepairState(lg, G) /\ g[0] \in RepairState(mo, H)
        BY <2>1 DEF RepairState
    <2>3. Img(m, {}) = {}
        BY DEF Img
    <2> QED
        BY <2>1, <2>2, <2>3 DEF FailuresAlike
<1>8. ASSUME NEW k \in 1..n, <<f[k-1], g[k-1]>> \in R PROVE <<f[k], g[k]>> \in R
    <2>1. k \in 0..n /\ k # 0
        BY <1>2
    <2>2. f[k] = Repaired(lg, f[k-1], a[k]) /\ g[k] = Repaired(mo, g[k-1], m[a[k]])
        BY <1>2, <1>3, <1>4, <2>1 DEF ScansRepairs
    <2>3. /\ f[k-1] \in RepairState(lg, G) /\ g[k-1] \in RepairState(mo, H)
          /\ FailuresAlike(m, f[k-1], g[k-1])
        BY <1>8
    <2>4. a[k] \in G /\ m[a[k]] \in H
        BY <1>5, <1>6
    <2>5. FailuresAlike(m, f[k], g[k])
        BY <2>2, <2>3, <2>4, RepairedAlike DEF H
    <2>6. f[k] \in RepairState(lg, G) /\ g[k] \in RepairState(mo, H)
        BY <2>2, <2>3, <2>4, RepairedStays
    <2> QED
        BY <2>5, <2>6
<1> HIDE DEF R
<1>9. <<f[n], g[n]>> \in R
    BY <1>2, <1>7, <1>8, InStep
<1> QED
    BY <1>3, <1>4, <1>9 DEF FailuresAlike, R, H

\* Thrashing is over all prescriptions, so none may be missing.
LEMMA ThrashingAlike ==
    ASSUME NEW lg, NEW mo, Timed(lg), Timed(mo), NEW m, NEW K, Alike(lg, mo, m, K),
           Prescriptions(lg) \subseteq K
    PROVE  DetectThrashing(mo) = Img(m, DetectThrashing(lg))
<1> DEFINE G == Prescriptions(lg)
           H == Img(m, G)
           a == ByTimestamp(lg, G)
           b == ByTimestamp(mo, H)
           n == Cardinality(G)
           R == {x \in WindowState(G) \X WindowState(H) : WindowsAlike(m, x[1], x[2])}
<1>0. Prescriptions(mo) = H /\ G \in SUBSET (K \cap Prescriptions(lg))
    <2>1. K \cap Prescriptions(lg) = Prescriptions(lg)
        OBVIOUS
    <2> QED
        BY <2>1 DEF Alike, Mapped
<1>1. G \in SUBSET (1..Len(lg)) /\ H \in SUBSET (1..Len(mo))
    BY <1>0 DEF Prescriptions
<1>2. n \in Nat /\ Cardinality(H) = n /\ \A k \in 1..n : b[k] = m[a[k]]
    <2>1. n \in Nat
        BY <1>1, RankOf
    <2>2. Cardinality(H) = n /\ \A k \in 1..n : b[k] = m[a[k]]
        BY <1>0, OrderAlike
    <2> QED
        BY <2>1, <2>2
<1>3. PICK f : ScansWindows(lg, a, n, f) /\ DetectThrashing(lg) = f[n].flagged
    BY WindowScan
<1>4. PICK g : ScansWindows(mo, b, n, g) /\ DetectThrashing(mo) = g[n].flagged
    BY <1>0, <1>2, WindowScan
<1>5. \A k \in 1..n : a[k] \in G
    BY <1>1, ByTimestampOrders DEF Ordered
<1>6. \A q \in G : m[q] \in H
    BY DEF Img
<1> HIDE DEF a, b, H, n, G
<1>7. <<f[0], g[0]>> \in R
    <2>1. f[0] = [window |-> <<>>, flagged |-> {}] /\ g[0] = [window |-> <<>>, flagged |-> {}]
        BY <1>2, <1>3, <1>4 DEF ScansWindows
    <2>2. f[0] \in WindowState(G) /\ g[0] \in WindowState(H)
        BY <2>1 DEF WindowState
    <2>3. f[0].window = <<>> /\ g[0].window = <<>> /\ f[0].flagged = {} /\ g[0].flagged = {}
        BY <2>1
    <2>4. ImgSeq(m, <<>>, <<>>) /\ Img(m, {}) = {}
        BY DEF ImgSeq, Img
    <2> QED
        BY <2>2, <2>3, <2>4 DEF WindowsAlike
<1>8. ASSUME NEW k \in 1..n, <<f[k-1], g[k-1]>> \in R PROVE <<f[k], g[k]>> \in R
    <2>1. k \in 0..n /\ k # 0
        BY <1>2
    <2>2. f[k] = Thrashed(lg, f[k-1], a[k]) /\ g[k] = Thrashed(mo, g[k-1], m[a[k]])
        BY <1>2, <1>3, <1>4, <2>1 DEF ScansWindows
    <2>3. /\ f[k-1] \in WindowState(G) /\ g[k-1] \in WindowState(H)
          /\ WindowsAlike(m, f[k-1], g[k-1])
        BY <1>8
    <2>4. a[k] \in G /\ m[a[k]] \in H
        BY <1>5, <1>6
    <2>5. WindowsAlike(m, f[k], g[k])
        BY <1>0, <2>2, <2>3, <2>4, ThrashedAlike DEF H
    <2>6. f[k] \in WindowState(G) /\ g[k] \in WindowState(H)
        BY <2>2, <2>3, <2>4, ThrashedStays
    <2> QED
        BY <2>5, <2>6
<1> HIDE DEF R
<1>9. <<f[n], g[n]>> \in R
    BY <1>2, <1>7, <1>8, InStep
<1> QED
    BY <1>3, <1>4, <1>9 DEF WindowsAlike, R

-----------------------------------------------------------------------------
(* The groups of a part of a session are groups of the session.             *)

\* Keys that are kept, and with an entry all entries of its key.
KeysAlike(lg, mo, m, K, ka, kb) ==
    /\ DOMAIN ka = Prescriptions(lg) /\ DOMAIN kb = Prescriptions(mo)
    /\ \A p \in K \cap Prescriptions(lg) : kb[m[p]] = ka[p]
    /\ \A p \in K \cap Prescriptions(lg), q \in Prescriptions(lg) : ka[q] = ka[p] => q \in K

LEMMA GroupsAlike ==
    ASSUME NEW lg, NEW mo, NEW m, NEW K, Alike(lg, mo, m, K),
           NEW ka, NEW kb, KeysAlike(lg, mo, m, K, ka, kb)
    PROVE  /\ \A g \in Groups(ka) : \A p \in g : p \in K =>
                 g \in SUBSET (K \cap Prescriptions(lg)) /\ Img(m, g) \in Groups(kb)
           /\ \A h \in Groups(kb) : \E g \in Groups(ka) :
                 g \in SUBSET (K \cap Prescriptions(lg)) /\ h = Img(m, g)
<1> DEFINE D == K \cap Prescriptions(lg)
           A(p) == {q \in Prescriptions(lg) : ka[q] = ka[p]}
           B(x) == {y \in Prescriptions(mo) : kb[y] = kb[x]}
<1>1. /\ \A g : g \in Groups(ka) <=> \E p \in Prescriptions(lg) : g = A(p)
      /\ \A h : h \in Groups(kb) <=> \E x \in Prescriptions(mo) : h = B(x)
    BY DEF Groups, KeysAlike
<1>2. \A y : y \in Prescriptions(mo) <=> \E q \in D : y = m[q]
    BY DEF Alike, Mapped, Img
<1>3. ASSUME NEW p \in D PROVE A(p) \subseteq D /\ B(m[p]) = Img(m, A(p))
    <2>1. A(p) \subseteq D
        BY DEF KeysAlike
    <2>2. kb[m[p]] = ka[p] /\ \A q \in D : kb[m[q]] = ka[q]
        BY DEF KeysAlike
    <2>3. \A y \in B(m[p]) : \E q \in A(p) : y = m[q]
        BY <1>2, <2>2
    <2>4. \A q \in A(p) : m[q] \in B(m[p])
        BY <1>2, <2>1, <2>2
    <2> QED
        BY <2>1, <2>3, <2>4 DEF Img
<1>4. ASSUME NEW g \in Groups(ka), NEW p \in g, p \in K
      PROVE  g \in SUBSET D /\ Img(m, g) \in Groups(kb)
    <2>1. PICK q \in Prescriptions(lg) : g = A(q)
        BY <1>1
    <2>2. p \in D /\ A(q) = A(p)
        BY <1>4, <2>1
    <2>3. m[p] \in Prescriptions(mo)
        BY <1>2, <2>2
    <2> HIDE DEF A, B, D
    <2> QED
        BY <1>1, <1>3, <2>1, <2>2, <2>3
<1>5. ASSUME NEW h \in Groups(kb) PROVE \E g \in Groups(ka) : g \in SUBSET D /\ h = Img(m, g)
    <2>1. PICK x \in Prescriptions(mo) : h = B(x)
        BY <1>1
    <2>2. PICK p \in D : x = m[p]
        BY <1>2
    <2>3. p \in Prescriptions(lg)
        OBVIOUS
    <2> HIDE DEF A, B, D
    <2> QED
        BY <1>1, <1>3, <2>1, <2>2, <2>3
<1> QED
    BY <1>4, <1>5

LEMMA UnionAlike ==
    ASSUME NEW lg, NEW mo, NEW m, NEW K, Alike(lg, mo, m, K),
           NEW ka, NEW kb, KeysAlike(lg, mo, m, K, ka, kb), NEW F, NEW G,
           \A g \in Groups(ka) : F[g] \subseteq g,
           \A g \in Groups(ka) : g \in SUBSET (K \cap Prescriptions(lg)) =>
              G[Img(m, g)] = Img(m, F[g])
    PROVE  UNION {G[h] : h \in Groups(kb)} = Img(m, K \cap UNION {F[g] : g \in Groups(ka)})
<1> DEFINE D == K \cap Prescriptions(lg)
<1>1. ASSUME NEW h \in Groups(kb), NEW x \in G[h]
      PROVE  \E p \in K : x = m[p] /\ \E g \in Groups(ka) : p \in F[g]
    <2>1. PICK g \in Groups(ka) : g \in SUBSET D /\ h = Img(m, g)
        BY GroupsAlike
    <2>2. x \in Img(m, F[g])
        BY <1>1, <2>1
    <2>3. PICK p \in F[g] : x = m[p]
        BY <2>2 DEF Img
    <2>4. p \in K
        BY <2>1, <2>3
    <2> QED
        BY <2>3, <2>4
<1>2. ASSUME NEW g \in Groups(ka), NEW p \in F[g], p \in K
      PROVE  \E h \in Groups(kb) : m[p] \in G[h]
    <2>1. p \in g
        OBVIOUS
    <2>2. g \in SUBSET D /\ Img(m, g) \in Groups(kb)
        BY <1>2, <2>1, GroupsAlike
    <2>3. m[p] \in G[Img(m, g)]
        BY <2>2 DEF Img
    <2> QED
        BY <2>2, <2>3
<1> QED
    BY <1>1, <1>2 DEF Img

\* With a prescription all of its actor in its area.
Whole(lg, K) ==
    \A p \in K \cap Prescriptions(lg), q \in Prescriptions(lg) :
        lg[q].actor = lg[p].actor /\ Area[lg[q].intent] = Area[lg[p].intent] => q \in K

LEMMA KeysKept ==
    ASSUME NEW lg, NEW mo, NEW m, NEW K, Alike(lg, mo, m, K), Whole(lg, K)
    PROVE  /\ KeysAlike(lg, mo, m, K, ByArtifact(lg), ByArtifact(mo))
           /\ KeysAlike(lg, mo, m, K, ByIntent(lg), ByIntent(mo))
           /\ KeysAlike(lg, mo, m, K, ByArea(lg), ByArea(mo))
<1>1. \A p \in K \cap Prescriptions(lg) :
         /\ m[p] \in Prescriptions(mo)
         /\ mo[m[p]].actor = lg[p].actor /\ mo[m[p]].intent = lg[p].intent
         /\ mo[m[p]].artifact = lg[p].artifact
    BY DEF Alike, Mapped, Img
<1>2. KeysAlike(lg, mo, m, K, ByArtifact(lg), ByArtifact(mo))
    BY <1>1 DEF KeysAlike, ByArtifact, Whole
<1>3. KeysAlike(lg, mo, m, K, ByIntent(lg), ByIntent(mo))
    BY <1>1 DEF KeysAlike, ByIntent, Whole
<1>4. KeysAlike(lg, mo, m, K, ByArea(lg), ByArea(mo))
    BY <1>1 DEF KeysAlike, ByArea, Whole
<1> QED
    BY <1>2, <1>3, <1>4

LEMMA LoopsOfKey ==
    ASSUME NEW lg, NEW mo, Timed(lg), Timed(mo), NEW m, NEW K, Alike(lg, mo, m, K),
           NEW ka, NEW kb, KeysAlike(lg, mo, m, K, ka, kb), NEW threshold \in Nat \ {0}
    PROVE  UNION {DetectRetryLoopChains(mo, h, threshold) : h \in Groups(kb)}
             = Img(m, K \cap UNION {DetectRetryLoopChains(lg, g, threshold) : g \in Groups(ka)})
<1> DEFINE F == [g \in Groups(ka) |-> DetectRetryLoopChains(lg, g, threshold)]
           G == [h \in Groups(kb) |-> DetectRetryLoopChains(mo, h, threshold)]
<1>1. \A g \in Groups(ka) : g \in SUBSET Prescriptions(lg)
    BY GroupsAre DEF KeysAlike
<1>2. Prescriptions(lg) \subseteq 1..Len(lg)
    BY DEF Prescriptions
<1>3. \A g \in Groups(ka) : F[g] \subseteq g
    BY <1>1, <1>2, ChainsSound
<1>4. ASSUME NEW g \in Groups(ka), g \in SUBSET (K \cap Prescriptions(lg))
      PROVE  G[Img(m, g)] = Img(m, F[g])
    <2>1. Img(m, g) \in Groups(kb)
        <3>1. PICK p \in Prescriptions(lg) : g = {q \in Prescriptions(lg) : ka[q] = ka[p]}
            BY DEF Groups, KeysAlike
        <3>2. p \in g /\ p \in K
            BY <1>4, <3>1
        <3> QED
            BY <3>2, GroupsAlike
    <2> QED
        BY <1>4, <2>1, ChainsOfAlike
<1>5. /\ UNION {DetectRetryLoopChains(mo, h, threshold) : h \in Groups(kb)}
           = UNION {G[h] : h \in Groups(kb)}
      /\ UNION {DetectRetryLoopChains(lg, g, threshold) : g \in Groups(ka)}
           = UNION {F[g] : g \in Groups(ka)}
    OBVIOUS
<1> HIDE DEF F, G
<1> QED
    BY <1>3, <1>4, <1>5, UnionAlike

LEMMA LoopsAlike ==
    ASSUME NEW lg, NEW mo, Timed(lg), Timed(mo), NEW m, NEW K, Alike(lg, mo, m, K), Whole(lg, K)
    PROVE  DetectRetryLoops(mo) = Img(m, K \cap DetectRetryLoops(lg))
<1> DEFINE P(x) == UNION {DetectRetryLoopChains(x, g, RetryThreshold) : g \in Groups(ByArtifact(x))}
           Q(x) == UNION {DetectRetryLoopChains(x, g, VariantThreshold) : g \in Groups(ByArea(x))}
<1>1. RetryThreshold \in Nat \ {0} /\ VariantThreshold \in Nat \ {0}
    BY SignalsAssumption DEF SignalsAssumption
<1>2. P(mo) = Img(m, K \cap P(lg))
    BY <1>1, KeysKept, LoopsOfKey
<1>3. Q(mo) = Img(m, K \cap Q(lg))
    BY <1>1, KeysKept, LoopsOfKey
<1>4. DetectRetryLoops(mo) = P(mo) \cup Q(mo) /\ DetectRetryLoops(lg) = P(lg) \cup Q(lg)
    BY DEF DetectRetryLoops
<1> HIDE DEF P, Q
<1> QED
    BY <1>2, <1>3, <1>4 DEF Img

LEMMA RepairLoopAlike ==
    ASSUME NEW lg, NEW mo, Exits(lg), Timed(mo), NEW m, NEW K, Alike(lg, mo, m, K), Whole(lg, K)
    PROVE  DetectRepairLoop(mo) = Img(m, K \cap DetectRepairLoop(lg))
<1> DEFINE ka == ByIntent(lg)
           kb == ByIntent(mo)
           F == [g \in Groups(ka) |-> RepairsIn(lg, g)]
           G == [h \in Groups(kb) |-> RepairsIn(mo, h)]
<1>0. Timed(lg) /\ KeysAlike(lg, mo, m, K, ka, kb)
    BY KeysKept DEF Exits
<1>1. \A g \in Groups(ka) : g \in SUBSET Prescriptions(lg)
    BY <1>0, GroupsAre DEF KeysAlike
<1>2. Prescriptions(lg) \subseteq 1..Len(lg)
    BY DEF Prescriptions
<1>3. \A g \in Groups(ka) : F[g] \subseteq g
    BY <1>1, <1>2, RepairsInAre
<1>4. ASSUME NEW g \in Groups(ka), g \in SUBSET (K \cap Prescriptions(lg))
      PROVE  G[Img(m, g)] = Img(m, F[g])
    <2>1. Img(m, g) \in Groups(kb)
        <3>1. PICK p \in Prescriptions(lg) : g = {q \in Prescriptions(lg) : ka[q] = ka[p]}
            BY <1>0 DEF Groups, KeysAlike
        <3>2. p \in g /\ p \in K
            BY <1>4, <3>1
        <3> QED
            BY <1>0, <3>2, GroupsAlike
    <2> QED
        BY <1>0, <1>4, <2>1, RepairsAlike
<1>5. /\ DetectRepairLoop(mo) = UNION {G[h] : h \in Groups(kb)}
      /\ DetectRepairLoop(lg) = UNION {F[g] : g \in Groups(ka)}
    BY DEF DetectRepairLoop
<1> HIDE DEF F, G
<1> QED
    BY <1>0, <1>3, <1>4, <1>5, UnionAlike

-----------------------------------------------------------------------------
(* Reports against their prescriptions.                                     *)

\* With a report the prescription it is on.
Follows(lg, K) ==
    \A r \in K \cap Reports(lg) : lg[r].ref \in Prescriptions(lg) => lg[r].ref \in K

LEMMA DriftAlike ==
    ASSUME NEW lg, NEW mo, NEW m, NEW K, Mapped(lg, mo, m, K), Follows(lg, K)
    PROVE  DetectArtifactDrift(mo) = Img(m, K \cap DetectArtifactDrift(lg))
<1>1. ASSUME NEW r \in K \cap Reports(lg)
      PROVE  m[r] \in DetectArtifactDrift(mo) <=> r \in DetectArtifactDrift(lg)
    <2>1. m[r] \in Reports(mo) /\ mo[m[r]].artifact = lg[r].artifact
        BY DEF Mapped, Img
    <2>2. CASE lg[r].ref \in K \cap Prescriptions(lg)
        <3>1. mo[m[r]].ref = m[lg[r].ref] /\ m[lg[r].ref] \in Prescriptions(mo)
            BY <2>2 DEF Mapped, Img
        <3>2. mo[m[lg[r].ref]].artifact = lg[lg[r].ref].artifact
            BY <2>2 DEF Mapped
        <3> QED
            BY <2>1, <2>2, <3>1, <3>2 DEF DetectArtifactDrift
    <2>3. CASE lg[r].ref \notin K \cap Prescriptions(lg)
        <3>1. mo[m[r]].ref \notin Prescriptions(mo)
            BY <2>3 DEF Mapped
        <3>2. lg[r].ref \notin Prescriptions(lg)
            BY <2>3 DEF Follows
        <3> QED
            BY <3>1, <3>2 DEF DetectArtifactDrift
    <2> QED
        BY <2>2, <2>3
<1>2. DetectArtifactDrift(mo) \subseteq Img(m, K \cap Reports(lg))
    BY DEF DetectArtifactDrift, Mapped
<1>3. DetectArtifactDrift(lg) \subseteq Reports(lg)
    BY DEF DetectArtifactDrift
<1> QED
    BY <1>1, <1>2, <1>3 DEF Img

LEMMA BlastAlike ==
    ASSUME NEW lg, NEW mo, NEW m, NEW K, Mapped(lg, mo, m, K)
    PROVE  DetectBlastRadius(mo) = Img(m, K \cap DetectBlastRadius(lg))
BY DEF DetectBlastRadius, Mapped, Img

LEMMA TakesAlike ==
    ASSUME NEW lg, NEW mo, NEW m, NEW K, Alike(lg, mo, m, K),
           NEW p \in K \cap Prescriptions(lg)
    PROVE  /\ \A r \in K \cap Reports(lg) : Takes(mo, m[r], m[p]) <=> Takes(lg, r, p)
           /\ \A s : Takes(mo, s, m[p]) => \E r \in K \cap Reports(lg) : s = m[r]
           /\ \A r : Takes(lg, r, p) => r \in K \cap Reports(lg)
<1>1. /\ ReportsOf(mo, m[p]) = Img(m, ReportsOf(lg, p))
      /\ ReportsOf(lg, p) \subseteq K \cap Reports(lg)
    <2>1. ReportsOf(lg, p) \subseteq K
        BY DEF Alike, Mapped
    <2>2. ReportsOf(lg, p) \subseteq Reports(lg)
        BY DEF ReportsOf
    <2> QED
        BY <2>1, <2>2, ReportsAlike
<1>2. m[p] \in Prescriptions(mo) /\ mo[m[p]].actor = lg[p].actor
    BY DEF Alike, Mapped, Img
<1>3. \A q \in K \cap Reports(lg) :
         /\ \A r \in K \cap Reports(lg) : m[q] = m[r] => q = r
         /\ mo[m[q]].actor = lg[q].actor
         /\ q \in Nat /\ m[q] \in Nat
    <2>1. \A q \in Reports(lg) : q \in Nat
        BY DEF Reports
    <2>2. \A q \in K \cap Reports(lg) : m[q] \in Reports(mo)
        BY DEF Alike, Mapped, Img
    <2>3. \A q \in Reports(mo) : q \in Nat
        BY DEF Reports
    <2> QED
        BY <2>1, <2>2, <2>3 DEF Alike, Mapped
<1>4. \A q, r \in ReportsOf(lg, p) : r <= q <=> m[r] <= m[q]
    <2> SUFFICES ASSUME NEW q \in ReportsOf(lg, p), NEW r \in ReportsOf(lg, p)
                 PROVE  r <= q <=> m[r] <= m[q]
        OBVIOUS
    <2>1. q < r <=> m[q] < m[r]
        BY DEF Alike
    <2>2. q \in Nat /\ m[q] \in Nat /\ r \in Nat /\ m[r] \in Nat
        BY <1>1, <1>3
    <2> QED
        BY <2>1, <2>2
<1>5. ASSUME NEW r \in K \cap Reports(lg) PROVE Takes(mo, m[r], m[p]) <=> Takes(lg, r, p)
    <2>1. m[r] \in ReportsOf(mo, m[p]) <=> r \in ReportsOf(lg, p)
        BY <1>1, <1>3 DEF Img
    <2>2. mo[m[r]].actor = mo[m[p]].actor <=> lg[r].actor = lg[p].actor
        BY <1>2, <1>3
    <2>3. CASE r \in ReportsOf(lg, p)
        <3>1. (\A s \in ReportsOf(mo, m[p]) : mo[s].actor = mo[m[p]].actor => m[r] <= s)
                <=> \A q \in ReportsOf(lg, p) : mo[m[q]].actor = mo[m[p]].actor => m[r] <= m[q]
            BY <1>1 DEF Img
        <3>2. \A q \in ReportsOf(lg, p) : /\ mo[m[q]].actor = lg[q].actor
                                          /\ r <= q <=> m[r] <= m[q]
            BY <1>1, <1>3, <1>4, <2>3
        <3>3. (\A s \in ReportsOf(mo, m[p]) : mo[s].actor = mo[m[p]].actor => m[r] <= s)
                <=> \A q \in ReportsOf(lg, p) : lg[q].actor = lg[p].actor => r <= q
            BY <1>2, <3>1, <3>2
        <3> QED
            BY <1>2, <2>1, <2>2, <3>3 DEF Takes
    <2>4. CASE r \notin ReportsOf(lg, p)
        BY <2>1, <2>4 DEF Takes
    <2> QED
        BY <2>3, <2>4
<1>6. ASSUME NEW s, Takes(mo, s, m[p]) PROVE \E r \in K \cap Reports(lg) : s = m[r]
    BY <1>1, <1>6 DEF Takes, Img
<1>7. ASSUME NEW r, Takes(lg, r, p) PROVE r \in K \cap Reports(lg)
    BY <1>1, <1>7 DEF Takes
<1> QED
    BY <1>5, <1>6, <1>7

LEMMA VerdictAlike ==
    ASSUME NEW lg, NEW mo, NEW m, NEW K, Alike(lg, mo, m, K), NEW r \in K \cap Reports(lg)
    PROVE  Verdict(mo, m[r]) = IF lg[r].ref \in Prescriptions(lg) \ K
                               THEN {"unprescribed_action"} ELSE Verdict(lg, r)
<1>1. CASE lg[r].ref \notin K \cap Prescriptions(lg)
    <2>1. mo[m[r]].ref \notin Prescriptions(mo)
        BY <1>1 DEF Alike, Mapped
    <2> QED
        BY <1>1, <2>1 DEF Verdict
<1>2. CASE lg[r].ref \in K \cap Prescriptions(lg)
    <2> DEFINE p == lg[r].ref
    <2>1. mo[m[r]].ref = m[p] /\ m[p] \in Prescriptions(mo)
        BY <1>2 DEF Alike, Mapped, Img
    <2>2. /\ mo[m[r]].artifact = lg[r].artifact /\ mo[m[r]].exit = lg[r].exit
          /\ mo[m[p]].artifact = lg[p].artifact
        BY <1>2 DEF Alike, Mapped
    <2>3. Takes(mo, m[r], m[p]) <=> Takes(lg, r, p)
        BY <1>2, TakesAlike
    <2>4. (\E s \in Reports(mo) : s < m[r] /\ Takes(mo, s, m[p]))
            <=> \E q \in Reports(lg) : q < r /\ Takes(lg, q, p)
        <3>0. r \in ReportsOf(lg, p)
            BY DEF ReportsOf
        <3>1. /\ \A q \in K \cap Reports(lg) : m[q] \in Reports(mo)
              /\ \A q \in ReportsOf(lg, p) : q < r <=> m[q] < m[r]
            BY <1>2, <3>0 DEF Alike, Mapped, Img
        <3>2. /\ \A q \in K \cap Reports(lg) : Takes(mo, m[q], m[p]) <=> Takes(lg, q, p)
              /\ \A s : Takes(mo, s, m[p]) => \E q \in K \cap Reports(lg) : s = m[q]
              /\ \A q : Takes(lg, q, p) => q \in K \cap Reports(lg)
            BY <1>2, TakesAlike
        <3>3. \A q : Takes(lg, q, p) => q \in ReportsOf(lg, p)
            BY DEF Takes
        <3> QED
            BY <3>1, <3>2, <3>3
    <2> HIDE DEF p
    <2>5. /\ Verdict(lg, r) =
               IF Takes(lg, r, p) THEN
                 IF /\ lg[r].artifact = NoArtifact /\ lg[r].exit # "none"
                    /\ lg[p].artifact # NoArtifact
                 THEN {"report_without_digest"} ELSE {}
               ELSE IF \E q \in Reports(lg) : q < r /\ Takes(lg, q, p) THEN {"duplicate_report"}
               ELSE {"cross_actor_report"}
        BY <1>2 DEF Verdict, p
    <2>6. /\ Verdict(mo, m[r]) =
               IF Takes(mo, m[r], m[p]) THEN
                 IF /\ mo[m[r]].artifact = NoArtifact /\ mo[m[r]].exit # "none"
                    /\ mo[m[p]].artifact # NoArtifact
                 THEN {"report_without_digest"} ELSE {}
               ELSE IF \E s \in Reports(mo) : s < m[r] /\ Takes(mo, s, m[p])
                    THEN {"duplicate_report"}
               ELSE {"cross_actor_report"}
        BY <2>1 DEF Verdict
    <2>7. Verdict(mo, m[r]) = Verdict(lg, r)
        BY <2>2, <2>3, <2>4, <2>5, <2>6
    <2> QED
        BY <1>2, <2>7
<1> QED
    BY <1>1, <1>2

\* The reports and the prescriptions a violation is counted for.
Overdue(lg) == {p \in Prescriptions(lg) : now > lg[p].at + TTL /\ ReportsOf(lg, p) = {}}

LEMMA ChargedIs ==
    ASSUME NEW lg, Len(lg) \in Nat
    PROVE  Charged(lg) = {r \in Reports(lg) : Verdict(lg, r) # {}} \cup Overdue(lg)
<1> DEFINE late == {p \in Prescriptions(lg) : now > lg[p].at + TTL}
           events == DetectProtocolViolations(lg, now)
<1>1. events = EventsUpto(lg, Len(lg)) \cup Unreported(lg, late)
    BY JudgedAll DEF DetectUnreported
<1> HIDE DEF late, events
<1>2. ASSUME NEW v \in events
      PROVE  v.ref \in {r \in Reports(lg) : Verdict(lg, r) # {}} \cup Overdue(lg)
    <2>1. CASE v \in EventsUpto(lg, Len(lg))
        BY <2>1 DEF EventsUpto
    <2>2. CASE v \in Unreported(lg, late)
        <3>1. v.ref \in late /\ ReportsOf(lg, v.ref) = {}
            BY <2>2, UnreportedIs
        <3> QED
            BY <3>1 DEF Overdue, late
    <2> QED
        BY <1>1, <2>1, <2>2
<1>3. ASSUME NEW r \in Reports(lg), Verdict(lg, r) # {} PROVE \E v \in events : v.ref = r
    <2>1. PICK sub \in Verdict(lg, r) : TRUE
        BY <1>3
    <2>2. sub \in Violations
        BY <2>1 DEF Verdict, Violations
    <2>3. r \in 1..Len(lg)
        BY DEF Reports
    <2>4. [sub |-> sub, ref |-> r] \in EventsUpto(lg, Len(lg))
        BY <2>1, <2>2, <2>3 DEF EventsUpto
    <2> QED
        BY <1>1, <2>4
<1>4. ASSUME NEW p \in Overdue(lg) PROVE \E v \in events : v.ref = p
    <2>1. p \in late /\ ReportsOf(lg, p) = {}
        BY DEF Overdue, late
    <2>2. \E v \in Unreported(lg, late) : v.ref = p
        BY <2>1, UnreportedAll
    <2> QED
        BY <1>1, <2>2
<1>5. Charged(lg) = {v.ref : v \in events}
    BY DEF Charged, events
<1> QED
    BY <1>2, <1>3, <1>4, <1>5

LEMMA ChargedAlike ==
    ASSUME NEW lg, NEW mo, Timed(lg), Timed(mo), NEW m, NEW K, Alike(lg, mo, m, K)
    PROVE  Charged(mo) =
             Img(m, (K \cap Charged(lg))
                    \cup {r \in K \cap Reports(lg) : lg[r].ref \in Prescriptions(lg) \ K})
<1> DEFINE stray == {r \in K \cap Reports(lg) : lg[r].ref \in Prescriptions(lg) \ K}
           J(x) == {r \in Reports(x) : Verdict(x, r) # {}}
<1>1. Charged(lg) = J(lg) \cup Overdue(lg) /\ Charged(mo) = J(mo) \cup Overdue(mo)
    BY ChargedIs DEF Timed
<1>2. J(mo) = Img(m, (K \cap J(lg)) \cup stray)
    <2>1. \A r \in K \cap Reports(lg) :
             m[r] \in Reports(mo) /\ (Verdict(mo, m[r]) # {} <=> Verdict(lg, r) # {} \/ r \in stray)
        <3> SUFFICES ASSUME NEW r \in K \cap Reports(lg)
                     PROVE  /\ m[r] \in Reports(mo)
                            /\ Verdict(mo, m[r]) # {} <=> Verdict(lg, r) # {} \/ r \in stray
            OBVIOUS
        <3>1. m[r] \in Reports(mo)
            BY DEF Alike, Mapped, Img
        <3>2. Verdict(mo, m[r]) = IF r \in stray THEN {"unprescribed_action"} ELSE Verdict(lg, r)
            BY VerdictAlike
        <3> HIDE DEF stray
        <3> QED
            BY <3>1, <3>2
    <2>2. \A s \in Reports(mo) : \E r \in K \cap Reports(lg) : s = m[r]
        BY DEF Alike, Mapped, Img
    <2>3. stray \subseteq K \cap Reports(lg)
        OBVIOUS
    <2> HIDE DEF stray
    <2> QED
        BY <2>1, <2>2, <2>3 DEF Img
<1>3. Overdue(mo) = Img(m, K \cap Overdue(lg))
    <2>1. ASSUME NEW p \in K \cap Prescriptions(lg)
          PROVE  m[p] \in Prescriptions(mo) /\ (m[p] \in Overdue(mo) <=> p \in Overdue(lg))
        <3>1. m[p] \in Prescriptions(mo) /\ mo[m[p]].at = lg[p].at
            BY DEF Alike, Mapped, Img
        <3>2. ReportsOf(mo, m[p]) = {} <=> ReportsOf(lg, p) = {}
            BY ReportsAlike DEF Img
        <3> QED
            BY <3>1, <3>2 DEF Overdue
    <2>2. \A s \in Prescriptions(mo) : \E p \in K \cap Prescriptions(lg) : s = m[p]
        BY DEF Alike, Mapped, Img
    <2>3. Overdue(mo) \subseteq Prescriptions(mo) /\ Overdue(lg) \subseteq Prescriptions(lg)
        BY DEF Overdue
    <2> QED
        BY <2>1, <2>2, <2>3 DEF Img
<1> HIDE DEF J, stray
<1>4. Charged(mo) = Img(m, (K \cap Charged(lg)) \cup stray)
    BY <1>1, <1>2, <1>3 DEF Img
<1> QED
    BY <1>4 DEF stray

-----------------------------------------------------------------------------
(* Some of the entries, at their places.                                    *)

Same(lg) == [k \in 1..Len(lg) |-> k]

LEMMA SameImg == ASSUME NEW lg, NEW set \in SUBSET (1..Len(lg)) PROVE Img(Same(lg), set) = set
BY DEF Img, Same

LEMMA SelectedIs ==
    ASSUME NEW lg, Timed(lg), NEW K \in SUBSET (1..Len(lg))
    PROVE  /\ Len(Selected(lg, K)) = Len(lg)
           /\ \A k \in K : Selected(lg, K)[k] = lg[k]
           /\ Prescriptions(Selected(lg, K)) = K \cap Prescriptions(lg)
           /\ Reports(Selected(lg, K)) = K \cap Reports(lg)
           /\ Timed(Selected(lg, K))
<1> DEFINE kept == Selected(lg, K)
           n == Len(lg)
           S == {lg[k] : k \in 1..n} \cup {LeftOut}
<1>1. kept \in [1..n -> S]
    BY DEF Selected
<1>2. n \in Nat
    BY DEF Timed
<1>3. Len(kept) = n
    <2> HIDE DEF S, n, kept
    <2>1. kept \in Seq(S)
        BY <1>1, <1>2
    <2> QED
        BY <1>1, <1>2, <2>1
<1>4. /\ \A k \in K : kept[k] = lg[k]
      /\ \A k \in (1..n) \ K : kept[k] = LeftOut
    BY DEF Selected
<1>5. LeftOut.kind = "other" /\ LeftOut.at = 0
    BY DEF LeftOut, Prescription
<1> HIDE DEF kept
<1>6. Prescriptions(kept) = K \cap Prescriptions(lg) /\ Reports(kept) = K \cap Reports(lg)
    BY <1>3, <1>4, <1>5 DEF Prescriptions, Reports
<1>7. Timed(kept)
    BY <1>2, <1>3, <1>4, <1>5 DEF Timed
<1> QED
    BY <1>3, <1>4, <1>6, <1>7 DEF kept

\* If reports are kept with their prescriptions, that is a part of the session.
LEMMA SelectedAlike ==
    ASSUME NEW lg, Timed(lg), NEW K \in SUBSET (1..Len(lg)),
           \A p \in K \cap Prescriptions(lg) : ReportsOf(lg, p) \subseteq K
    PROVE  Alike(lg, Selected(lg, K), Same(lg), K)
<1> DEFINE kept == Selected(lg, K)
           m == Same(lg)
<1>1. /\ \A k \in K : kept[k] = lg[k]
      /\ Prescriptions(kept) = K \cap Prescriptions(lg)
      /\ Reports(kept) = K \cap Reports(lg)
    BY SelectedIs
<1>2. \A k \in K : m[k] = k
    BY DEF Same
<1>3. \A set \in SUBSET K : Img(m, set) = set
    BY SameImg
<1> HIDE DEF kept, m
<1>4. Prescriptions(kept) = Img(m, K \cap Prescriptions(lg))
    BY <1>1, <1>3
<1>5. Reports(kept) = Img(m, K \cap Reports(lg))
    BY <1>1, <1>3
<1>6. \A k, l \in K : Earlier(kept, m[k], m[l]) <=> Earlier(lg, k, l)
    BY <1>1, <1>2 DEF Earlier
<1>7. \A r \in K \cap Reports(lg) :
          IF lg[r].ref \in K \cap Prescriptions(lg) THEN kept[m[r]].ref = m[lg[r].ref]
                                                    ELSE kept[m[r]].ref \notin Prescriptions(kept)
    BY <1>1, <1>2
<1>8. Mapped(lg, kept, m, K)
    BY <1>1, <1>2, <1>4, <1>5, <1>7 DEF Mapped
<1>9. \A p \in K \cap Prescriptions(lg) : \A q, r \in ReportsOf(lg, p) : q < r <=> m[q] < m[r]
    BY <1>2
<1>10. Alike(lg, kept, m, K)
    BY <1>6, <1>8, <1>9 DEF Alike
<1> QED
    BY <1>10 DEF kept, m

LEMMA DetectedAre ==
    ASSUME NEW lg, Exits(lg)
    PROVE  /\ DetectRetryLoops(lg) \cup DetectRepairLoop(lg) \subseteq Prescriptions(lg)
           /\ DetectArtifactDrift(lg) \subseteq Reports(lg)
           /\ DetectRiskEscalation(lg) \subseteq Prescriptions(lg)
           /\ Charged(lg) \subseteq Here(lg)
<1>1. Timed(lg) /\ Prescriptions(lg) \subseteq 1..Len(lg)
    BY DEF Exits, Prescriptions
<1>2. /\ DOMAIN ByArtifact(lg) = Prescriptions(lg) /\ DOMAIN ByArea(lg) = Prescriptions(lg)
      /\ DOMAIN ByIntent(lg) = Prescriptions(lg)
    BY DEF ByArtifact, ByArea, ByIntent
<1>3. \A g \in Groups(ByArtifact(lg)) \cup Groups(ByArea(lg)) \cup Groups(ByIntent(lg)) :
         g \in SUBSET Prescriptions(lg) /\ g \in SUBSET (1..Len(lg))
    BY <1>1, <1>2, GroupsAre
<1>4. RetryThreshold \in Nat \ {0} /\ VariantThreshold \in Nat \ {0}
    BY SignalsAssumption DEF SignalsAssumption
<1>5. /\ \A g \in Groups(ByArtifact(lg)) : DetectRetryLoopChains(lg, g, RetryThreshold) \subseteq g
      /\ \A g \in Groups(ByArea(lg)) : DetectRetryLoopChains(lg, g, VariantThreshold) \subseteq g
    BY <1>1, <1>3, <1>4, ChainsSound
<1>6. DetectRetryLoops(lg) \subseteq Prescriptions(lg)
    BY <1>3, <1>5 DEF DetectRetryLoops
<1>7. \A g \in Groups(ByIntent(lg)) : RepairsIn(lg, g) \subseteq g
    BY <1>3, RepairsInAre
<1>8. DetectRepairLoop(lg) \subseteq Prescriptions(lg)
    BY <1>3, <1>7 DEF DetectRepairLoop
<1>9. Charged(lg) \subseteq Here(lg)
    BY <1>1, ChargedIs DEF Timed, Overdue, Here
<1> QED
    BY <1>6, <1>8, <1>9 DEF DetectArtifactDrift, DetectRiskEscalation

-----------------------------------------------------------------------------
(* What a filter keeps.                                                     *)

LEMMA AllSelected ==
    ASSUME NEW lg, NEW S, lg \in Seq(S)
    PROVE  Selected(lg, 1..Len(lg)) = lg
<1>1. lg = [k \in 1..Len(lg) |-> lg[k]]
    OBVIOUS
<1>2. Selected(lg, 1..Len(lg)) = [k \in 1..Len(lg) |-> lg[k]]
    BY DEF Selected
<1> QED
    BY <1>1, <1>2

\* The entries of a tool and a scope, All if any.
OfAction(lg, tool, scope) ==
    {k \in 1..Len(lg) : tool \in {All, Action(lg, k).tool} /\ scope \in {All, Action(lg, k).scope}}

LEMMA ActionOf ==
    ASSUME NEW lg, NEW t, Session(lg, t)
    PROVE  /\ \A p \in Prescriptions(lg) :
                 /\ Action(lg, p) = [tool |-> Tool[lg[p].intent], scope |-> Scope[lg[p].intent]]
                 /\ \A r \in ReportsOf(lg, p) : Action(lg, r) = Action(lg, p)
           /\ \A p, q \in Prescriptions(lg) :
                 Area[lg[p].intent] = Area[lg[q].intent] => Action(lg, p) = Action(lg, q)
<1>1. \A p \in Prescriptions(lg) : p \notin Reports(lg) /\ lg[p].intent \in Intents
    BY DEF Prescriptions, Reports, Session
<1>2. \A p \in Prescriptions(lg) :
         Action(lg, p) = [tool |-> Tool[lg[p].intent], scope |-> Scope[lg[p].intent]]
    BY <1>1 DEF Action
<1>3. \A p \in Prescriptions(lg) : \A r \in ReportsOf(lg, p) : Action(lg, r) = Action(lg, p)
    BY <1>1 DEF Action, ReportsOf
<1>4. \A i, j \in Intents : Area[i] = Area[j] => Tool[i] = Tool[j] /\ Scope[i] = Scope[j]
    BY AnalyticsAssumption DEF AnalyticsAssumption
<1> QED
    BY <1>1, <1>2, <1>3, <1>4

LEMMA OfActionKeeps ==
    ASSUME NEW lg, NEW t, Session(lg, t), NEW tool, NEW scope
    PROVE  LET K == OfAction(lg, tool, scope)
           IN  /\ K \in SUBSET (1..Len(lg)) /\ Whole(lg, K) /\ Follows(lg, K)
               /\ \A p \in K \cap Prescriptions(lg) : ReportsOf(lg, p) \subseteq K
<1> DEFINE K == OfAction(lg, tool, scope)
<1>1. \A k, l \in 1..Len(lg) : Action(lg, k) = Action(lg, l) /\ k \in K => l \in K
    BY DEF OfAction
<1>2. Prescriptions(lg) \subseteq 1..Len(lg) /\ Reports(lg) \subseteq 1..Len(lg)
    BY DEF Prescriptions, Reports
<1>3. K \in SUBSET (1..Len(lg))
    BY DEF OfAction
<1> HIDE DEF K
<1>4. Whole(lg, K)
    BY <1>1, <1>2, ActionOf DEF Whole
<1>5. Follows(lg, K)
    <2> SUFFICES ASSUME NEW r \in K \cap Reports(lg), lg[r].ref \in Prescriptions(lg)
                 PROVE  lg[r].ref \in K
        BY DEF Follows
    <2>1. r \in ReportsOf(lg, lg[r].ref)
        BY DEF ReportsOf
    <2>2. Action(lg, r) = Action(lg, lg[r].ref)
        BY <2>1, ActionOf
    <2> QED
        BY <1>1, <1>2, <2>2
<1>6. \A p \in K \cap Prescriptions(lg) : ReportsOf(lg, p) \subseteq K
    <2> SUFFICES ASSUME NEW p \in K \cap Prescriptions(lg), NEW r \in ReportsOf(lg, p)
                 PROVE  r \in K
        OBVIOUS
    <2>1. Action(lg, r) = Action(lg, p) /\ r \in 1..Len(lg)
        BY <1>2, ActionOf DEF ReportsOf
    <2> QED
        BY <1>1, <1>2, <2>1
<1> QED
    BY <1>3, <1>4, <1>5, <1>6 DEF K

LEMMA KeptOfAction ==
    ASSUME NEW lg, NEW t, Session(lg, t), NEW f, f.actor = All, f.since = 0
    PROVE  FilteredSignalEntries(lg, f) = Selected(lg, OfAction(lg, f.tool, f.scope))
<1>1. lg \in Seq(Entry) /\ \A k \in 1..Len(lg) : lg[k].at \in Nat
    BY SessionExits DEF Session, Exits, Timed
<1>2. {k \in 1..Len(lg) : f.actor \in {All, lg[k].actor} /\ lg[k].at >= f.since} = 1..Len(lg)
    BY <1>1
<1>3. FilterEntries(lg, f) = lg
    BY <1>1, <1>2, AllSelected DEF FilterEntries
<1> QED
    BY <1>3 DEF FilteredSignalEntries, FilterSignalEntriesByToolAndScope, OfAction

LEMMA KeptOfEntries ==
    ASSUME NEW lg, Timed(lg), NEW f, f.tool = All, f.scope = All,
           NEW K, K = {k \in 1..Len(lg) : f.actor \in {All, lg[k].actor} /\ lg[k].at >= f.since}
    PROVE  FilteredSignalEntries(lg, f) = Selected(lg, K)
<1> DEFINE kept == Selected(lg, K)
<1>1. FilterEntries(lg, f) = kept
    BY DEF FilterEntries
<1>2. Len(kept) = Len(lg) /\ kept = [k \in 1..Len(lg) |-> kept[k]]
    BY SelectedIs DEF Selected
<1> HIDE DEF kept
<1>3. {k \in 1..Len(kept) : /\ f.tool \in {All, Action(kept, k).tool}
                            /\ f.scope \in {All, Action(kept, k).scope}} = 1..Len(kept)
    OBVIOUS
<1>4. Selected(kept, 1..Len(kept)) = kept
    BY <1>2 DEF Selected
<1>5. FilteredSignalEntries(lg, f) = kept
    BY <1>1, <1>3, <1>4 DEF FilteredSignalEntries, FilterSignalEntriesByToolAndScope
<1> QED
    BY <1>5 DEF kept

\* The history of an actor with a tool is kept with the tool.
LEMMA EscalationKept ==
    ASSUME NEW lg, NEW t, Session(lg, t), NEW tool
    PROVE  DetectRiskEscalation(Selected(lg, OfAction(lg, tool, All)))
             = DetectRiskEscalation(lg) \cap OfAction(lg, tool, All)
<1> DEFINE K == OfAction(lg, tool, All)
           kept == Selected(lg, K)
<1>1. K \in SUBSET (1..Len(lg)) /\ Timed(lg)
    BY SessionExits DEF OfAction, Exits
<1>2. /\ Prescriptions(kept) = K \cap Prescriptions(lg)
      /\ \A k \in K : kept[k] = lg[k]
    BY <1>1, SelectedIs
<1>3. ASSUME NEW p \in K \cap Prescriptions(lg)
      PROVE  p \in DetectRiskEscalation(kept) <=> p \in DetectRiskEscalation(lg)
    <2>1. ASSUME NEW q \in Prescriptions(lg), Tool[lg[q].intent] = Tool[lg[p].intent] PROVE q \in K
        <3>1. Action(lg, q).tool = Action(lg, p).tool
            BY <2>1, ActionOf
        <3>2. q \in 1..Len(lg)
            BY DEF Prescriptions
        <3> QED
            BY <3>1, <3>2 DEF OfAction
    <2> HIDE DEF K, kept
    <2>2. Prior(kept, p) = Prior(lg, p)
        BY <1>2, <2>1 DEF Prior, Stream
    <2>3. \A q \in Prior(lg, p) : kept[q] = lg[q]
        BY <1>2, <2>1 DEF Prior, Stream
    <2>4. BaselineSeverity(kept, Prior(lg, p)) = BaselineSeverity(lg, Prior(lg, p))
        BY <2>3, BaselineStays
    <2> QED
        BY <1>2, <2>2, <2>4 DEF DetectRiskEscalation
<1>4. /\ DetectRiskEscalation(kept) \subseteq K \cap Prescriptions(lg)
      /\ DetectRiskEscalation(lg) \subseteq Prescriptions(lg)
    BY <1>2 DEF DetectRiskEscalation
<1> HIDE DEF K, kept
<1>5. DetectRiskEscalation(kept) = DetectRiskEscalation(lg) \cap K
    BY <1>3, <1>4
<1> QED
    BY <1>5 DEF K, kept

LEMMA OperationsOf ==
    ASSUME NEW t, Session(log, t), NEW tool, NEW scope
    PROVE  LET kept == Selected(log, OfAction(log, tool, scope))
               here == Here(kept)
           IN  /\ DetectRetryLoops(kept) \cup DetectRepairLoop(kept) =
                    (DetectRetryLoops(log) \cup DetectRepairLoop(log)) \cap here
               /\ DetectArtifactDrift(kept) = DetectArtifactDrift(log) \cap here
               /\ Charged(kept) = Charged(log) \cap here
<1> DEFINE K == OfAction(log, tool, scope)
           kept == Selected(log, K)
           m == Same(log)
<1>1. /\ K \in SUBSET (1..Len(log)) /\ Whole(log, K) /\ Follows(log, K)
      /\ \A p \in K \cap Prescriptions(log) : ReportsOf(log, p) \subseteq K
    BY OfActionKeeps
<1>2. Exits(log) /\ Timed(log)
    BY SessionExits DEF Exits
<1> HIDE DEF K
<1>3. /\ Alike(log, kept, m, K) /\ Timed(kept)
      /\ Here(kept) = K \cap Here(log)
    BY <1>1, <1>2, SelectedAlike, SelectedIs DEF Here
<1>4. \A set \in SUBSET K : Img(m, set) = set
    BY <1>1, SameImg
<1> HIDE DEF kept, m
<1>5. DetectRetryLoops(kept) = K \cap DetectRetryLoops(log)
    <2>1. DetectRetryLoops(kept) = Img(m, K \cap DetectRetryLoops(log))
        BY <1>1, <1>2, <1>3, LoopsAlike
    <2>2. K \cap DetectRetryLoops(log) \in SUBSET K
        OBVIOUS
    <2> QED
        BY <1>4, <2>1, <2>2
<1>6. DetectRepairLoop(kept) = K \cap DetectRepairLoop(log)
    <2>1. DetectRepairLoop(kept) = Img(m, K \cap DetectRepairLoop(log))
        BY <1>1, <1>2, <1>3, RepairLoopAlike
    <2>2. K \cap DetectRepairLoop(log) \in SUBSET K
        OBVIOUS
    <2> QED
        BY <1>4, <2>1, <2>2
<1>7. DetectArtifactDrift(kept) = K \cap DetectArtifactDrift(log)
    <2>1. DetectArtifactDrift(kept) = Img(m, K \cap DetectArtifactDrift(log))
        BY <1>1, <1>3, DriftAlike DEF Alike
    <2>2. K \cap DetectArtifactDrift(log) \in SUBSET K
        OBVIOUS
    <2> QED
        BY <1>4, <2>1, <2>2
<1>8. Charged(kept) = K \cap Charged(log)
    <2> DEFINE stray == {r \in K \cap Reports(log) : log[r].ref \in Prescriptions(log) \ K}
    <2>1. stray = {}
        BY <1>1 DEF Follows
    <2>2. Charged(kept) = Img(m, (K \cap Charged(log)) \cup stray)
        BY <1>2, <1>3, ChargedAlike
    <2> HIDE DEF stray
    <2> QED
        BY <1>4, <2>1, <2>2
<1>9. /\ DetectRetryLoops(log) \cup DetectRepairLoop(log) \subseteq Here(log)
      /\ DetectArtifactDrift(log) \subseteq Here(log) /\ Charged(log) \subseteq Here(log)
    BY <1>2, DetectedAre DEF Here
<1>10. /\ DetectRetryLoops(kept) \cup DetectRepairLoop(kept) =
            (DetectRetryLoops(log) \cup DetectRepairLoop(log)) \cap Here(kept)
       /\ DetectArtifactDrift(kept) = DetectArtifactDrift(log) \cap Here(kept)
       /\ Charged(kept) = Charged(log) \cap Here(kept)
    BY <1>3, <1>5, <1>6, <1>7, <1>8, <1>9
<1> QED
    BY <1>10 DEF K, kept

LEMMA OperationsHold == Session(log, now) => OperationsKept
<1> SUFFICES ASSUME Session(log, now),
                    NEW f \in {[Everything EXCEPT !.scope = s] :
                                 s \in {Scope[i] : i \in Intents}}
                              \cup {[Everything EXCEPT !.tool = t] :
                                 t \in {Tool[i] : i \in Intents}}
             PROVE  LET kept == FilteredSignalEntries(log, f)
                        here == Here(kept)
                    IN  /\ DetectRetryLoops(kept) \cup DetectRepairLoop(kept) =
                             (DetectRetryLoops(log) \cup DetectRepairLoop(log)) \cap here
                        /\ DetectArtifactDrift(kept) = DetectArtifactDrift(log) \cap here
                        /\ f.scope = All =>
                             DetectRiskEscalation(kept) = DetectRiskEscalation(log) \cap here
                        /\ Charged(kept) = Charged(log) \cap here
    BY DEF OperationsKept
<1> DEFINE K == OfAction(log, f.tool, f.scope)
           kept == FilteredSignalEntries(log, f)
<1>1. f.actor = All /\ f.since = 0
    BY DEF Everything
<1>2. kept = Selected(log, K)
    BY <1>1, KeptOfAction
<1>3. Exits(log) /\ Timed(log) /\ K \in SUBSET (1..Len(log))
    BY SessionExits DEF Exits, OfAction
<1>4. Here(kept) = K \cap Here(log) /\ Prescriptions(log) \subseteq Here(log)
    BY <1>2, <1>3, SelectedIs DEF Here
<1>5. f.scope = All => DetectRiskEscalation(kept) = DetectRiskEscalation(log) \cap Here(kept)
    <2> SUFFICES ASSUME f.scope = All
                 PROVE  DetectRiskEscalation(kept) = DetectRiskEscalation(log) \cap Here(kept)
        OBVIOUS
    <2>1. DetectRiskEscalation(Selected(log, OfAction(log, f.tool, All)))
             = DetectRiskEscalation(log) \cap OfAction(log, f.tool, All)
        BY EscalationKept
    <2>2. DetectRiskEscalation(kept) = DetectRiskEscalation(log) \cap K
        BY <1>2, <2>1
    <2>3. DetectRiskEscalation(log) \subseteq Prescriptions(log)
        BY <1>3, DetectedAre
    <2> HIDE DEF K, kept
    <2> QED
        BY <1>4, <2>2, <2>3
<1> HIDE DEF kept
<1>6. /\ DetectRetryLoops(kept) \cup DetectRepairLoop(kept) =
           (DetectRetryLoops(log) \cup DetectRepairLoop(log)) \cap Here(kept)
      /\ DetectArtifactDrift(kept) = DetectArtifactDrift(log) \cap Here(kept)
      /\ Charged(kept) = Charged(log) \cap Here(kept)
    BY <1>2, OperationsOf
<1> QED
    BY <1>5, <1>6 DEF kept

-----------------------------------------------------------------------------
(* Reports are not earlier than what they report on: they are stamped when  *)
(* it is in the store.                                                      *)

InTime(lg) ==
    \A r \in Reports(lg) : lg[r].ref \in Prescriptions(lg) => lg[lg[r].ref].at <= lg[r].at

LEMMA PeriodsHold ==
    ASSUME Session(log, now), InTime(log), now \in Nat
    PROVE  PeriodsCharge
<1> SUFFICES ASSUME NEW since \in 1..now
             PROVE  LET kept == FilteredSignalEntries(log, [Everything EXCEPT !.since = since])
                    IN  Charged(kept) =
                          (Charged(log) \cap Here(kept)) \cup
                          {r \in Reports(kept) : log[r].ref # 0 /\ log[log[r].ref].at < since}
    BY DEF PeriodsCharge
<1> DEFINE f == [Everything EXCEPT !.since = since]
           K == {k \in 1..Len(log) : log[k].at >= since}
           kept == Selected(log, K)
           m == Same(log)
           stray == {r \in K \cap Reports(log) : log[r].ref \in Prescriptions(log) \ K}
<1>1. Exits(log) /\ Timed(log) /\ log \in Seq(Entry)
    BY SessionExits DEF Exits, Session
<1>2. f.actor = All /\ f.since = since /\ f.tool = All /\ f.scope = All
    BY DEF Everything
<1>3. K = {k \in 1..Len(log) : f.actor \in {All, log[k].actor} /\ log[k].at >= f.since}
    BY <1>2
<1>4. K \in SUBSET (1..Len(log)) /\ Len(log) \in Nat
    BY <1>1 DEF Timed
<1>5. FilteredSignalEntries(log, f) = kept
    <2> HIDE DEF f, K
    <2> QED
        BY <1>1, <1>2, <1>3, KeptOfEntries
<1>6. \A p \in K \cap Prescriptions(log) : ReportsOf(log, p) \subseteq K
    <2> SUFFICES ASSUME NEW p \in K \cap Prescriptions(log), NEW r \in ReportsOf(log, p)
                 PROVE  r \in K
        OBVIOUS
    <2>1. r \in Reports(log) /\ log[r].ref = p /\ r \in 1..Len(log) /\ p \in 1..Len(log)
        BY DEF ReportsOf, Reports
    <2>2. log[p].at <= log[r].at /\ log[p].at \in Nat /\ log[r].at \in Nat /\ log[p].at >= since
        BY <1>1, <2>1 DEF InTime, Timed
    <2> QED
        BY <2>1, <2>2
<1>7. \A r \in Reports(log) :
         log[r].ref \in Prescriptions(log) \ K <=> log[r].ref # 0 /\ log[log[r].ref].at < since
    <2> SUFFICES ASSUME NEW r \in Reports(log)
                 PROVE  log[r].ref \in Prescriptions(log) \ K
                           <=> log[r].ref # 0 /\ log[log[r].ref].at < since
        OBVIOUS
    <2>1. log[r].ref \in Prescriptions(log) \cup {0} /\ r \in 1..Len(log)
        BY DEF Session, Reports
    <2>2. \A p \in Prescriptions(log) : p \in 1..Len(log) /\ p # 0 /\ log[p].at \in Nat
        BY <1>1 DEF Prescriptions, Timed
    <2> QED
        BY <2>1, <2>2
<1> HIDE DEF K, kept, m
<1>8. /\ Alike(log, kept, m, K) /\ Timed(kept)
      /\ Here(kept) = K \cap Here(log) /\ Reports(kept) = K \cap Reports(log)
    BY <1>1, <1>4, <1>6, SelectedAlike, SelectedIs DEF Here, kept, m
<1>9. \A set \in SUBSET K : Img(m, set) = set
    BY <1>4, SameImg DEF m
<1>10. Charged(kept) = (K \cap Charged(log)) \cup stray
    <2>1. Charged(kept) = Img(m, (K \cap Charged(log)) \cup stray)
        BY <1>1, <1>8, ChargedAlike
    <2>2. (K \cap Charged(log)) \cup stray \in SUBSET K
        OBVIOUS
    <2> QED
        BY <1>9, <2>1, <2>2
<1>11. stray = {r \in Reports(kept) : log[r].ref # 0 /\ log[log[r].ref].at < since}
    BY <1>7, <1>8
<1>12. Charged(log) \subseteq Here(log)
    BY <1>1, DetectedAre
<1> HIDE DEF stray, f
<1>13. Charged(kept) = (Charged(log) \cap Here(kept)) \cup
                         {r \in Reports(kept) : log[r].ref # 0 /\ log[log[r].ref].at < since}
    BY <1>8, <1>10, <1>11, <1>12
<1> QED
    BY <1>5, <1>13 DEF f

OfActor(lg, a) == {k \in 1..Len(lg) : lg[k].actor = a}

\* What takes the slot of a prescription is its actor's, and so is kept with it.
LEMMA TakesOfActor ==
    ASSUME NEW lg, Timed(lg), NEW a,
           NEW p \in OfActor(lg, a) \cap Prescriptions(lg), NEW r
    PROVE  Takes(Selected(lg, OfActor(lg, a)), r, p) <=> Takes(lg, r, p)
<1> DEFINE K == OfActor(lg, a)
           kept == Selected(lg, K)
<1>1. K \in SUBSET (1..Len(lg))
    BY DEF OfActor
<1>2. /\ \A k \in K : kept[k] = lg[k] /\ lg[k].actor = a
      /\ \A k \in Reports(lg) : lg[k].actor = a => k \in K
    BY <1>1, SelectedIs DEF Reports, OfActor
<1>3. /\ Prescriptions(kept) = K \cap Prescriptions(lg) /\ Reports(kept) = K \cap Reports(lg)
      /\ p \in K \cap Prescriptions(lg) /\ lg[p].actor = a
    BY <1>1, SelectedIs DEF OfActor
<1> HIDE DEF kept, K
<1>4. ReportsOf(kept, p) = K \cap ReportsOf(lg, p) /\ ReportsOf(lg, p) \subseteq Reports(lg)
    BY <1>2, <1>3 DEF ReportsOf
<1>5. Takes(kept, r, p) <=> Takes(lg, r, p)
    <2>1. ASSUME Takes(lg, r, p) PROVE Takes(kept, r, p)
        <3>1. r \in K
            BY <1>2, <1>3, <1>4, <2>1 DEF Takes
        <3> QED
            BY <1>2, <1>3, <1>4, <2>1, <3>1 DEF Takes
    <2>2. ASSUME Takes(kept, r, p) PROVE Takes(lg, r, p)
        <3>1. \A q \in ReportsOf(lg, p) : lg[q].actor = lg[p].actor =>
                 q \in ReportsOf(kept, p) /\ kept[q].actor = kept[p].actor
            BY <1>2, <1>3, <1>4
        <3> QED
            BY <1>2, <1>3, <1>4, <2>2, <3>1 DEF Takes
    <2> QED
        BY <2>1, <2>2
<1> QED
    BY <1>5 DEF kept, K

\* The reports an actor is charged with are the same in its own scorecard.
LEMMA ChargesOfActor ==
    ASSUME NEW lg, Timed(lg), NEW a,
           NEW r \in OfActor(lg, a) \cap Reports(lg)
    PROVE  Verdict(Selected(lg, OfActor(lg, a)), r) # {} <=> Verdict(lg, r) # {}
<1> DEFINE K == OfActor(lg, a)
           kept == Selected(lg, K)
           p == lg[r].ref
<1>1. K \in SUBSET (1..Len(lg)) /\ \A k \in K : lg[k].actor = a
    BY DEF OfActor
<1>2. /\ \A k \in K : kept[k] = lg[k]
      /\ Prescriptions(kept) = K \cap Prescriptions(lg)
    BY <1>1, SelectedIs
<1>3. \A q \in Prescriptions(lg) : q \notin K => lg[q].actor # a
    BY DEF Prescriptions, OfActor
<1>4. CASE p \notin Prescriptions(lg)
    BY <1>2, <1>4 DEF Verdict
<1>5. CASE p \in Prescriptions(lg) \ K
    <2>1. ~Takes(lg, r, p)
        BY <1>1, <1>3, <1>5 DEF Takes
    <2>2. Verdict(lg, r) # {}
        BY <1>5, <2>1 DEF Verdict
    <2>3. Verdict(kept, r) = {"unprescribed_action"}
        BY <1>2, <1>5 DEF Verdict
    <2> QED
        BY <2>2, <2>3
<1>6. CASE p \in K \cap Prescriptions(lg)
    <2>1. \A q \in K \cap Prescriptions(lg) : Takes(kept, r, q) <=> Takes(lg, r, q)
        BY TakesOfActor
    <2>2. /\ kept[r] = lg[r] /\ kept[p] = lg[p] /\ p \in Prescriptions(kept)
          /\ p \in Prescriptions(lg) /\ kept[r].ref = p /\ lg[r].ref = p
          /\ Takes(kept, r, p) <=> Takes(lg, r, p)
        BY <1>2, <1>6, <2>1
    <2> HIDE DEF kept, p
    <2>3. CASE Takes(lg, r, p)
        <3>1. Verdict(lg, r) = IF /\ lg[r].artifact = NoArtifact /\ lg[r].exit # "none"
                                  /\ lg[p].artifact # NoArtifact
                               THEN {"report_without_digest"} ELSE {}
            BY <2>2, <2>3 DEF Verdict
        <3>2. Verdict(kept, r) = IF /\ lg[r].artifact = NoArtifact /\ lg[r].exit # "none"
                                    /\ lg[p].artifact # NoArtifact
                                 THEN {"report_without_digest"} ELSE {}
            BY <2>2, <2>3 DEF Verdict
        <3> QED
            BY <3>1, <3>2 DEF kept
    <2>4. CASE ~Takes(lg, r, p)
        <3>1. Verdict(lg, r) # {}
            BY <2>2, <2>4 DEF Verdict
        <3>2. Verdict(kept, r) # {}
            BY <2>2, <2>4 DEF Verdict
        <3> QED
            BY <3>1, <3>2 DEF kept
    <2> QED
        BY <2>3, <2>4 DEF kept
<1> QED
    BY <1>4, <1>5, <1>6

LEMMA ActorsHold == Session(log, now) => ActorsCharged
<1> SUFFICES ASSUME Session(log, now), NEW a \in Actors
             PROVE  LET kept == FilteredSignalEntries(log, [Everything EXCEPT !.actor = a])
                    IN  Charged(kept) =
                          (Charged(log) \cap Reports(kept)) \cup
                          {p \in Prescriptions(kept) :
                             /\ now > log[p].at + TTL
                             /\ \A r \in ReportsOf(log, p) : log[r].actor # a}
    BY DEF ActorsCharged
<1> DEFINE f == [Everything EXCEPT !.actor = a]
           K == OfActor(log, a)
           kept == Selected(log, K)
<1>1. Exits(log) /\ Timed(log) /\ log \in Seq(Entry) /\ \A k \in 1..Len(log) : log[k].at \in Nat
    BY SessionExits DEF Exits, Session, Timed
<1>2. f.actor = a /\ f.since = 0 /\ f.tool = All /\ f.scope = All /\ a # All
    BY AnalyticsAssumption DEF Everything, AnalyticsAssumption
<1>3. K = {k \in 1..Len(log) : f.actor \in {All, log[k].actor} /\ log[k].at >= f.since}
    BY <1>1, <1>2 DEF OfActor
<1>4. K \in SUBSET (1..Len(log)) /\ Len(log) \in Nat
    BY <1>1 DEF Timed, OfActor
<1>5. FilteredSignalEntries(log, f) = kept
    <2> HIDE DEF f, K
    <2> QED
        BY <1>1, <1>2, <1>3, KeptOfEntries
<1>6. /\ Prescriptions(kept) = K \cap Prescriptions(log)
      /\ Reports(kept) = K \cap Reports(log)
      /\ \A k \in K : kept[k] = log[k]
      /\ Len(kept) \in Nat
    BY <1>1, <1>4, SelectedIs
<1>7. /\ Charged(log) = {r \in Reports(log) : Verdict(log, r) # {}} \cup Overdue(log)
      /\ Charged(kept) = {r \in Reports(kept) : Verdict(kept, r) # {}} \cup Overdue(kept)
    BY <1>4, <1>6, ChargedIs
<1>8. \A r \in K \cap Reports(log) : Verdict(kept, r) # {} <=> Verdict(log, r) # {}
    BY <1>1, ChargesOfActor
<1>9. Overdue(log) \cap Reports(kept) = {}
    BY <1>6 DEF Overdue, Prescriptions, Reports
<1>10. \A k \in Reports(log) : k \in K <=> log[k].actor = a
    BY DEF Reports, OfActor
<1> HIDE DEF kept, K
<1>11. {r \in Reports(kept) : Verdict(kept, r) # {}} = Charged(log) \cap Reports(kept)
    BY <1>6, <1>7, <1>8, <1>9
<1>12. Overdue(kept) = {p \in Prescriptions(kept) :
                          /\ now > log[p].at + TTL
                          /\ \A r \in ReportsOf(log, p) : log[r].actor # a}
    <2>1. ASSUME NEW p \in Prescriptions(kept)
          PROVE  ReportsOf(kept, p) = {} <=> \A r \in ReportsOf(log, p) : log[r].actor # a
        <3>1. \A r : r \in ReportsOf(kept, p) <=> r \in ReportsOf(log, p) /\ r \in K
            BY <1>6 DEF ReportsOf
        <3>2. \A r \in ReportsOf(log, p) : r \in K <=> log[r].actor = a
            BY <1>10 DEF ReportsOf
        <3> QED
            BY <3>1, <3>2
    <2>2. \A p \in Prescriptions(kept) : kept[p].at = log[p].at
        BY <1>6
    <2> QED
        BY <2>1, <2>2 DEF Overdue
<1> HIDE DEF f
<1>13. Charged(kept) = (Charged(log) \cap Reports(kept)) \cup
                         {p \in Prescriptions(kept) :
                            /\ now > log[p].at + TTL
                            /\ \A r \in ReportsOf(log, p) : log[r].actor # a}
    BY <1>7, <1>11, <1>12
<1> QED
    BY <1>5, <1>13 DEF f

\* Sessions stay in time.
LEMMA TimeStarts == Init => InTime(log)
<1> SUFFICES ASSUME Init PROVE InTime(log)
    OBVIOUS
<1>1. Session(log, now) /\ now = 0
    BY StartsWell DEF Init
<1>2. \A k \in 1..Len(log) : log[k].at = 0
    <2>1. \A k \in 1..Len(log) : log[k].at \in Nat /\ log[k].at <= 0
        BY <1>1, SessionExits DEF Session, Exits, Timed
    <2> QED
        BY <2>1
<1>3. Prescriptions(log) \subseteq 1..Len(log) /\ Reports(log) \subseteq 1..Len(log)
    BY DEF Prescriptions, Reports
<1> QED
    BY <1>2, <1>3 DEF InTime

LEMMA TimeGrows ==
    ASSUME NEW lg, NEW t, Session(lg, t), InTime(lg), NEW e \in Entry,
           Stamped(lg, e)
    PROVE  InTime(Append(lg, e))
<1> DEFINE more == Append(lg, e)
           n == Len(lg)
<1>1. /\ Len(more) = n + 1 /\ n \in Nat
      /\ \A k \in 1..n : more[k] = lg[k]
      /\ more[n + 1] = e
      /\ \A k \in 1..n + 1 : k \in 1..n \/ k = n + 1
    BY Added DEF Session
<1>2. \A k \in 1..n : lg[k].at \in Nat /\ lg[k].at <= t /\ lg[k].ref < k
    BY SessionExits DEF Session, Exits, Timed
<1> HIDE DEF more
<1>4. /\ \A k \in Reports(more) : k \in Reports(lg) \/ (k = n + 1 /\ e.kind = "report")
      /\ \A k \in Prescriptions(more) :
            k \in Prescriptions(lg) \/ (k = n + 1 /\ e.kind = "prescribe")
      /\ Reports(lg) \subseteq 1..n /\ Prescriptions(lg) \subseteq 1..n
    BY <1>1 DEF Reports, Prescriptions
<1> HIDE DEF n
<1>5. ASSUME NEW r \in Reports(more), more[r].ref \in Prescriptions(more)
      PROVE  more[more[r].ref].at <= more[r].at
    <2>1. CASE r \in Reports(lg)
        <3>1. r \in 1..n /\ more[r] = lg[r] /\ lg[r].ref < r
            BY <1>1, <1>2, <1>4, <2>1
        <3>2. lg[r].ref \in Prescriptions(lg)
            BY <1>1, <1>4, <1>5, <3>1
        <3> QED
            BY <1>1, <1>4, <2>1, <3>1, <3>2 DEF InTime
    <2>2. CASE r = n + 1 /\ e.kind = "report"
        <3>1. more[r] = e
            BY <1>1, <2>2
        <3>2. \A k \in Prescriptions(more) : k # n + 1
            BY <1>1, <2>2 DEF Prescriptions
        <3>3. more[r].ref \in 1..n
            BY <1>4, <1>5, <3>2
        <3>4. e.ref # 0 /\ more[e.ref] = lg[e.ref]
            BY <1>1, <3>1, <3>3
        <3> QED
            BY <2>2, <3>1, <3>4 DEF Stamped
    <2> QED
        BY <1>4, <2>1, <2>2
<1> QED
    BY <1>5 DEF InTime, more

-----------------------------------------------------------------------------
(* What is counted.                                                         *)

LEMMA LeastOf ==
    ASSUME NEW set \in SUBSET Nat, set # {}
    PROVE  \E p \in set : \A q \in set : p <= q
<1>1. PICK p \in set : \A q \in set : ~ (<<q, p>> \in OpToRel(<, Nat))
    BY NatLessThanWellFounded, WFMin
<1>2. \A q \in set : p <= q
    <2> SUFFICES ASSUME NEW q \in set, ~(p <= q) PROVE FALSE
        OBVIOUS
    <2>1. <<q, p>> \in OpToRel(<, Nat)
        BY DEF OpToRel
    <2> QED
        BY <1>1, <2>1
<1> QED
    BY <1>2

\* One violation for each that is charged.
LEMMA ViolationCount ==
    ASSUME NEW lg, Timed(lg)
    PROVE  Cardinality(DetectProtocolViolations(lg, now)) = Cardinality(Charged(lg))
<1> DEFINE found == DetectProtocolViolations(lg, now)
           late == {p \in Prescriptions(lg) : now > lg[p].at + TTL}
           f == [v \in found |-> v.ref]
<1>1. found = EventsUpto(lg, Len(lg)) \cup Unreported(lg, late)
    BY JudgedAll DEF DetectUnreported, Timed
<1>2. IsFiniteSet(found)
    BY EventsFinite
<1>3. \A v \in EventsUpto(lg, Len(lg)) :
         /\ v.ref \in Reports(lg) /\ v.sub \in Verdict(lg, v.ref)
         /\ v = [sub |-> v.sub, ref |-> v.ref]
    BY DEF EventsUpto
<1>4. \A r, x, y : x \in Verdict(lg, r) /\ y \in Verdict(lg, r) => x = y
    BY DEF Verdict
<1>5. \A v \in Unreported(lg, late) :
         /\ v.ref \in Prescriptions(lg)
         /\ v = [sub |-> IF CrashedBefore(lg, v.ref) THEN "crash_before_report"
                                                    ELSE "stalled_operation",
                 ref |-> v.ref]
    BY DEF Unreported
<1>6. \A p \in Prescriptions(lg) : p \notin Reports(lg)
    BY DEF Prescriptions, Reports
<1> HIDE DEF found, late
<1>7. ASSUME NEW v \in found, NEW w \in found, v.ref = w.ref PROVE v = w
    <2>1. CASE v \in EventsUpto(lg, Len(lg)) /\ w \in EventsUpto(lg, Len(lg))
        <3>1. v.sub = w.sub
            BY <1>3, <1>4, <1>7, <2>1
        <3>2. /\ v = [sub |-> v.sub, ref |-> v.ref]
              /\ w = [sub |-> w.sub, ref |-> w.ref]
            BY <1>3, <2>1
        <3> QED
            BY <1>7, <3>1, <3>2
    <2>2. CASE v \in Unreported(lg, late) /\ w \in Unreported(lg, late)
        BY <1>5, <1>7, <2>2
    <2>3. CASE \/ v \in EventsUpto(lg, Len(lg)) /\ w \in Unreported(lg, late)
               \/ v \in Unreported(lg, late) /\ w \in EventsUpto(lg, Len(lg))
        BY <1>3, <1>5, <1>6, <1>7, <2>3
    <2> QED
        BY <1>1, <2>1, <2>2, <2>3
<1>8. Charged(lg) = {v.ref : v \in found}
    BY DEF Charged, found
<1>9. f \in Bijection(found, Charged(lg))
    BY <1>7, <1>8 DEF Bijection, Injection, IsInjective, Surjection
<1> HIDE DEF f
<1>10. Cardinality(found) = Cardinality(Charged(lg))
    BY <1>2, <1>9, FS_Bijection DEF ExistsBijection
<1> QED
    BY <1>10 DEF found

\* One new scope for each area but the first.
Areas(lg) == {ByArea(lg)[p] : p \in Prescriptions(lg)}

LEMMA NewScopeCount ==
    ASSUME NEW lg, Timed(lg), Prescriptions(lg) # {}
    PROVE  Cardinality(DetectNewScope(lg)) = Cardinality(Areas(lg)) - 1
<1> DEFINE D == Prescriptions(lg)
           key == ByArea(lg)
           new == DetectNewScope(lg)
           f == [p \in new |-> key[p]]
<1>1. D \in SUBSET Nat /\ IsFiniteSet(D)
    <2>1. D \in SUBSET (1..Len(lg)) /\ Len(lg) \in Nat
        BY DEF Prescriptions, Timed
    <2>2. IsFiniteSet(D)
        BY <2>1, RankOf
    <2> QED
        BY <2>1, <2>2
<1>2. PICK first \in D : \A q \in D : first <= q
    BY <1>1, LeastOf
<1>3. new = {p \in D : (\A q \in D : q < p => key[q] # key[p]) /\ \E q \in D : q < p}
    BY DEF DetectNewScope
<1>4. Areas(lg) = {key[p] : p \in D}
    BY DEF Areas
<1> HIDE DEF D, key, new
<1>6. f \in Bijection(new, Areas(lg) \ {key[first]})
    <2>1. ASSUME NEW p \in new PROVE key[p] \in Areas(lg) \ {key[first]}
        <3>1. p \in D /\ \A q \in D : q < p => key[q] # key[p]
            BY <1>3
        <3>2. PICK q \in D : q < p
            BY <1>3
        <3>3. first < p
            BY <1>1, <1>2, <3>1, <3>2
        <3> QED
            BY <1>2, <1>4, <3>1, <3>3
    <2>2. ASSUME NEW p \in new, NEW q \in new, key[p] = key[q] PROVE p = q
        <3>1. p \in Nat /\ q \in Nat /\ ~(p < q) /\ ~(q < p)
            BY <1>1, <1>3, <2>2
        <3> QED
            BY <3>1
    <2>3. ASSUME NEW x \in Areas(lg) \ {key[first]} PROVE \E p \in new : key[p] = x
        <3>1. PICK p0 \in D : key[p0] = x
            BY <1>4
        <3>2. PICK p \in {q \in D : key[q] = x} : \A q \in {s \in D : key[s] = x} : p <= q
            <4>1. {q \in D : key[q] = x} \in SUBSET Nat /\ {q \in D : key[q] = x} # {}
                BY <1>1, <3>1
            <4> QED
                BY <4>1, LeastOf
        <3>3. \A q \in D : q < p => key[q] # x
            BY <1>1, <3>2
        <3>4. first < p
            BY <1>1, <1>2, <3>2
        <3> QED
            BY <1>2, <1>3, <3>2, <3>3, <3>4
    <2> QED
        BY <2>1, <2>2, <2>3 DEF Bijection, Injection, IsInjective, Surjection
<1> HIDE DEF f
<1>7. IsFiniteSet(new)
    BY <1>1, <1>3, FS_Subset
<1>8. /\ IsFiniteSet(Areas(lg) \ {key[first]})
      /\ Cardinality(Areas(lg) \ {key[first]}) = Cardinality(new)
    BY <1>6, <1>7, FS_Bijection DEF ExistsBijection
<1>9. Areas(lg) = (Areas(lg) \ {key[first]}) \cup {key[first]}
    BY <1>2, <1>4
<1>10. Cardinality(new) = Cardinality(Areas(lg)) - 1
    <2>1. Cardinality(Areas(lg)) = Cardinality(Areas(lg) \ {key[first]}) + 1
        BY <1>8, <1>9, FS_AddElement
    <2>2. Cardinality(new) \in Nat
        BY <1>7, FS_CardinalityType
    <2> QED
        BY <1>8, <2>1, <2>2
<1> QED
    BY <1>10 DEF new

-----------------------------------------------------------------------------
(* The API's rows: the session in the order of timestamps and ids.          *)

\* Ids tell entries apart.
Distinct(lg, id) ==
    /\ \A k \in 1..Len(lg) : id[k] \in Nat
    /\ \A j, k \in 1..Len(lg) : id[j] = id[k] => j = k

OlderIn(lg, id) == {x \in (1..Len(lg)) \X (1..Len(lg)) : Older(lg, id, x[1], x[2])}

LEMMA OlderStrict ==
    ASSUME NEW lg, Timed(lg), NEW id, Distinct(lg, id)
    PROVE  /\ StrictOrder(OlderIn(lg, id), 1..Len(lg))
           /\ \A p, q \in 1..Len(lg) : <<p, q>> \in OlderIn(lg, id) <=> Older(lg, id, p, q)
<1> DEFINE n == Len(lg)
           less == OlderIn(lg, id)
<1>1. \A p, q \in 1..n : <<p, q>> \in less <=> Older(lg, id, p, q)
    BY DEF OlderIn
<1>2. \A p \in 1..n : lg[p].at \in Nat /\ id[p] \in Nat
    BY DEF Timed, Distinct
<1>3. \A p, q \in 1..n : id[p] = id[q] => p = q
    BY DEF Distinct
<1> HIDE DEF less, n
<1>4. \A p \in 1..n : ~Older(lg, id, p, p)
    BY <1>2 DEF Older
<1>5. \A p, q \in 1..n : p # q => Older(lg, id, p, q) \/ Older(lg, id, q, p)
    BY <1>2, <1>3 DEF Older
<1>6. \A p, q, r \in 1..n :
         Older(lg, id, p, q) /\ Older(lg, id, q, r) => Older(lg, id, p, r)
    BY <1>2 DEF Older
<1>7. StrictOrder(less, 1..n)
    BY <1>1, <1>4, <1>5, <1>6 DEF StrictOrder
<1> QED
    BY <1>1, <1>7 DEF less, n

\* Where an entry comes in that order.
PlaceOf(lg, id) ==
    LET order == ByTime(lg, id)
    IN  [p \in 1..Len(lg) |-> CHOOSE k \in 1..Len(order) : order[k] = p]

LEMMA PlacesAre ==
    ASSUME NEW lg, Timed(lg), NEW id, Distinct(lg, id)
    PROVE  LET order == ByTime(lg, id)
               m == PlaceOf(lg, id)
           IN  /\ Len(order) = Len(lg)
               /\ \A k \in 1..Len(lg) : order[k] \in 1..Len(lg) /\ m[order[k]] = k
               /\ \A p \in 1..Len(lg) : m[p] \in 1..Len(lg) /\ order[m[p]] = p
               /\ \A p, q \in 1..Len(lg) : Older(lg, id, p, q) <=> m[p] < m[q]
<1> DEFINE n == Len(lg)
           order == ByTime(lg, id)
           m == PlaceOf(lg, id)
           less == OlderIn(lg, id)
           R(p) == Cardinality({q \in 1..n : ~Older(lg, id, p, q)})
           byRank == [k \in 1..n |-> CHOOSE p \in 1..n : R(p) = k]
<1>1. n \in Nat /\ IsFiniteSet(1..n) /\ Cardinality(1..n) = n
    <2>1. n \in Nat
        BY DEF Timed
    <2> HIDE DEF n
    <2>2. /\ IsFiniteSet(1..n)
          /\ Cardinality(1..n) = IF 1 > n THEN 0 ELSE n - 1 + 1
        BY <2>1, FS_Interval
    <2> QED
        BY <2>1, <2>2
<1>2. /\ StrictOrder(less, 1..n)
      /\ \A p, q \in 1..n : <<p, q>> \in less <=> Older(lg, id, p, q)
    BY OlderStrict
<1>3. order = <<>> \o byRank
    BY DEF ByTime
<1>4. Sorted(less, 1..n, byRank)
    <2>1. \A p \in 1..n : Cardinality(Below(less, 1..n, p)) = R(p)
        <3>1. \A p \in 1..n : Below(less, 1..n, p) = {q \in 1..n : ~Older(lg, id, p, q)}
            BY <1>2 DEF Below
        <3> QED
            BY <3>1
    <2> HIDE DEF n, less, R
    <2>2. \A k \in 1..n : (\E p \in 1..n : R(p) = k) => byRank[k] \in 1..n /\ R(byRank[k]) = k
        OBVIOUS
    <2>3. byRank = [k \in 1..n |-> byRank[k]]
        OBVIOUS
    <2> HIDE DEF byRank
    <2>4. PicksRanks(less, 1..n, byRank)
        BY <1>1, <2>1, <2>2, <2>3 DEF PicksRanks
    <2> QED
        BY <1>1, <1>2, <2>4, SortedByRank
<1> HIDE DEF order, n, less, byRank
<1>5. /\ byRank \in [1..n -> 1..n]
      /\ \A j, k \in 1..n : j < k => <<byRank[j], byRank[k]>> \in less
      /\ \A p \in 1..n : \E k \in 1..n : byRank[k] = p
    BY <1>1, <1>4 DEF Sorted
<1>6. order = byRank /\ Len(order) = n
    BY <1>1, <1>3, <1>5
<1>7. /\ \A k \in 1..n : order[k] \in 1..n
      /\ \A j, k \in 1..n : j < k => Older(lg, id, order[j], order[k])
      /\ \A p \in 1..n : \E k \in 1..n : order[k] = p
    BY <1>2, <1>5, <1>6
<1>8. \A p \in 1..n : m[p] = CHOOSE k \in 1..n : order[k] = p
    BY <1>6 DEF PlaceOf, order, n
<1> HIDE DEF m
<1>9. \A p \in 1..n : m[p] \in 1..n /\ order[m[p]] = p
    <2> SUFFICES ASSUME NEW p \in 1..n PROVE m[p] \in 1..n /\ order[m[p]] = p
        OBVIOUS
    <2>1. \E k \in 1..n : order[k] = p
        BY <1>7
    <2>2. m[p] = CHOOSE k \in 1..n : order[k] = p
        BY <1>8
    <2> QED
        BY <2>1, <2>2
<1>10. /\ \A p \in 1..n : ~Older(lg, id, p, p)
       /\ \A p, q \in 1..n : Older(lg, id, p, q) => ~Older(lg, id, q, p)
    BY <1>2 DEF StrictOrder
<1>11. \A j, k \in 1..n : order[j] = order[k] => j = k
    <2> SUFFICES ASSUME NEW j \in 1..n, NEW k \in 1..n, order[j] = order[k], j # k PROVE FALSE
        OBVIOUS
    <2>1. j < k \/ k < j
        BY <1>1
    <2> QED
        BY <1>7, <1>10, <2>1
<1>12. ASSUME NEW k \in 1..n PROVE m[order[k]] = k
    <2>1. order[k] \in 1..n
        BY <1>7
    <2>2. m[order[k]] \in 1..n /\ order[m[order[k]]] = order[k]
        BY <1>9, <2>1
    <2> QED
        BY <1>11, <2>2
<1>13. ASSUME NEW p \in 1..n, NEW q \in 1..n PROVE Older(lg, id, p, q) <=> m[p] < m[q]
    <2>0. m[p] \in 1..n /\ m[q] \in 1..n /\ order[m[p]] = p /\ order[m[q]] = q
        BY <1>9
    <2>1. m[p] < m[q] => Older(lg, id, p, q)
        BY <1>7, <2>0
    <2>2. m[q] < m[p] => Older(lg, id, q, p)
        BY <1>7, <2>0
    <2>3. m[p] \in Nat /\ m[q] \in Nat /\ (m[p] = m[q] => p = q)
        BY <1>1, <2>0
    <2> QED
        BY <1>10, <2>1, <2>2, <2>3
<1> QED
    BY <1>6, <1>7, <1>9, <1>12, <1>13 DEF order, m, n

LEMMA RowsAre ==
    ASSUME NEW lg, NEW t, Session(lg, t), NEW id, Distinct(lg, id)
    PROVE  LET rows == EvidenceEntriesFromStoredRows(lg, id)
               m == PlaceOf(lg, id)
           IN  /\ rows \in Seq(Entry) /\ Len(rows) = Len(lg)
               /\ \A p \in 1..Len(lg) :
                     /\ rows[m[p]].kind = lg[p].kind /\ rows[m[p]].actor = lg[p].actor
                     /\ rows[m[p]].at = lg[p].at /\ rows[m[p]].artifact = lg[p].artifact
                     /\ rows[m[p]].intent = lg[p].intent /\ rows[m[p]].exit = lg[p].exit
                     /\ rows[m[p]].ref = IF lg[p].ref = 0 THEN 0 ELSE m[lg[p].ref]
<1> DEFINE n == Len(lg)
           order == ByTime(lg, id)
           m == PlaceOf(lg, id)
           rows == EvidenceEntriesFromStoredRows(lg, id)
           Ref(e) == IF e.ref = 0 THEN 0 ELSE m[e.ref]
           row == [k \in 1..n |-> [lg[order[k]] EXCEPT !.ref = Ref(lg[order[k]])]]
<1>1. Timed(lg) /\ n \in Nat /\ \A p \in 1..n : lg[p] \in Entry /\ lg[p].ref \in (1..n) \cup {0}
    <2>1. Timed(lg)
        BY SessionExits DEF Exits
    <2>2. Prescriptions(lg) \subseteq 1..n
        BY DEF Prescriptions
    <2> QED
        BY <2>1, <2>2 DEF Session, Timed
<1>2. /\ Len(order) = n
      /\ \A k \in 1..n : order[k] \in 1..n /\ m[order[k]] = k
      /\ \A p \in 1..n : m[p] \in 1..n /\ order[m[p]] = p
    BY <1>1, PlacesAre
<1>3. \A p \in 1..n : m[p] = CHOOSE k \in 1..n : order[k] = p
    BY <1>2 DEF PlaceOf
<1>4. rows = row
    <2>1. \A k \in 1..n :
             [lg[order[k]] EXCEPT !.ref = IF @ = 0 THEN 0 ELSE CHOOSE j \in 1..n : order[j] = @]
               = [lg[order[k]] EXCEPT !.ref = Ref(lg[order[k]])]
        <3> SUFFICES ASSUME NEW k \in 1..n
                     PROVE  [lg[order[k]] EXCEPT !.ref = IF @ = 0 THEN 0
                                                        ELSE CHOOSE j \in 1..n : order[j] = @]
                              = [lg[order[k]] EXCEPT !.ref = Ref(lg[order[k]])]
            OBVIOUS
        <3>1. lg[order[k]].ref \in (1..n) \cup {0}
            BY <1>1, <1>2
        <3>2. (IF lg[order[k]].ref = 0 THEN 0 ELSE CHOOSE j \in 1..n : order[j] = lg[order[k]].ref)
                 = Ref(lg[order[k]])
            BY <1>3, <3>1
        <3> HIDE DEF Ref, order, n
        <3> QED
            BY <3>2
    <2>2. rows = [k \in 1..n |->
             [lg[order[k]] EXCEPT !.ref = IF @ = 0 THEN 0 ELSE CHOOSE j \in 1..n : order[j] = @]]
        BY <1>2 DEF EvidenceEntriesFromStoredRows
    <2> HIDE DEF rows, order, n, Ref
    <2> QED
        BY <2>1, <2>2
<1> HIDE DEF rows, order, m, n
<1>5. ASSUME NEW k \in 1..n
      PROVE  /\ row[k] \in Entry
             /\ row[k].kind = lg[order[k]].kind /\ row[k].actor = lg[order[k]].actor
             /\ row[k].at = lg[order[k]].at /\ row[k].artifact = lg[order[k]].artifact
             /\ row[k].intent = lg[order[k]].intent /\ row[k].exit = lg[order[k]].exit
             /\ row[k].ref = Ref(lg[order[k]])
    <2>1. lg[order[k]] \in Entry /\ Ref(lg[order[k]]) \in Nat
        <3>1. order[k] \in 1..n /\ \A p \in 1..n : m[p] \in Nat
            BY <1>2
        <3>2. lg[order[k]] \in Entry /\ lg[order[k]].ref \in (1..n) \cup {0}
            BY <1>1, <3>1
        <3> QED
            BY <3>1, <3>2
    <2>2. row[k] = [lg[order[k]] EXCEPT !.ref = Ref(lg[order[k]])]
        OBVIOUS
    <2> HIDE DEF row, Ref
    <2> QED
        BY <2>1, <2>2 DEF Entry
<1>6. row \in [1..n -> Entry]
    BY <1>5
<1> HIDE DEF row
<1>7. rows \in Seq(Entry) /\ Len(rows) = n
    BY <1>1, <1>4, <1>6
<1>8. ASSUME NEW p \in 1..n
      PROVE  /\ rows[m[p]].kind = lg[p].kind /\ rows[m[p]].actor = lg[p].actor
             /\ rows[m[p]].at = lg[p].at /\ rows[m[p]].artifact = lg[p].artifact
             /\ rows[m[p]].intent = lg[p].intent /\ rows[m[p]].exit = lg[p].exit
             /\ rows[m[p]].ref = IF lg[p].ref = 0 THEN 0 ELSE m[lg[p].ref]
    BY <1>2, <1>4, <1>5
<1> QED
    BY <1>7, <1>8 DEF rows, m, n

\* They are the entries of the session, and a report's prescription is where it is.
LEMMA RowsMapped ==
    ASSUME NEW lg, NEW t, Session(lg, t), NEW id, Distinct(lg, id)
    PROVE  Mapped(lg, EvidenceEntriesFromStoredRows(lg, id), PlaceOf(lg, id), 1..Len(lg))
<1> DEFINE n == Len(lg)
           m == PlaceOf(lg, id)
           order == ByTime(lg, id)
           rows == EvidenceEntriesFromStoredRows(lg, id)
<1>1. Timed(lg) /\ n \in Nat
    BY SessionExits DEF Exits, Timed
<1>2. /\ \A k \in 1..n : order[k] \in 1..n /\ m[order[k]] = k
      /\ \A p \in 1..n : m[p] \in 1..n /\ order[m[p]] = p
    BY <1>1, PlacesAre
<1>3. /\ Len(rows) = n
      /\ \A p \in 1..n :
            /\ rows[m[p]].kind = lg[p].kind /\ rows[m[p]].actor = lg[p].actor
            /\ rows[m[p]].at = lg[p].at /\ rows[m[p]].artifact = lg[p].artifact
            /\ rows[m[p]].intent = lg[p].intent /\ rows[m[p]].exit = lg[p].exit
            /\ rows[m[p]].ref = IF lg[p].ref = 0 THEN 0 ELSE m[lg[p].ref]
    BY RowsAre
<1>4. Prescriptions(lg) \subseteq 1..n /\ Reports(lg) \subseteq 1..n
    BY DEF Prescriptions, Reports
<1> HIDE DEF n, m, order, rows
<1>5. \A k, l \in 1..n : m[k] = m[l] => k = l
    BY <1>2
<1>6. Prescriptions(rows) = Img(m, (1..n) \cap Prescriptions(lg))
    <2>1. \A p \in 1..n : m[p] \in Prescriptions(rows) <=> p \in Prescriptions(lg)
        BY <1>2, <1>3 DEF Prescriptions, n
    <2>2. \A k \in Prescriptions(rows) : k \in 1..n /\ k = m[order[k]] /\ order[k] \in 1..n
        BY <1>2, <1>3 DEF Prescriptions
    <2> QED
        BY <2>1, <2>2 DEF Img
<1>7. Reports(rows) = Img(m, (1..n) \cap Reports(lg))
    <2>1. \A p \in 1..n : m[p] \in Reports(rows) <=> p \in Reports(lg)
        BY <1>2, <1>3 DEF Reports, n
    <2>2. \A k \in Reports(rows) : k \in 1..n /\ k = m[order[k]] /\ order[k] \in 1..n
        BY <1>2, <1>3 DEF Reports
    <2> QED
        BY <2>1, <2>2 DEF Img
<1>8. \A r \in (1..n) \cap Reports(lg) :
          IF lg[r].ref \in (1..n) \cap Prescriptions(lg)
          THEN rows[m[r]].ref = m[lg[r].ref]
          ELSE rows[m[r]].ref \notin Prescriptions(rows)
    <2> SUFFICES ASSUME NEW r \in (1..n) \cap Reports(lg)
                 PROVE  IF lg[r].ref \in (1..n) \cap Prescriptions(lg)
                        THEN rows[m[r]].ref = m[lg[r].ref]
                        ELSE rows[m[r]].ref \notin Prescriptions(rows)
        OBVIOUS
    <2>1. lg[r].ref \in Prescriptions(lg) \cup {0}
        BY DEF Session, n
    <2>2. 0 \notin Prescriptions(lg) /\ 0 \notin Prescriptions(rows)
        BY DEF Prescriptions
    <2>3. rows[m[r]].ref = IF lg[r].ref = 0 THEN 0 ELSE m[lg[r].ref]
        BY <1>3
    <2> QED
        BY <1>4, <2>1, <2>2, <2>3
<1>9. \A p \in (1..n) \cap Prescriptions(lg) : ReportsOf(lg, p) \subseteq 1..n
    BY <1>4 DEF ReportsOf
<1>10. Mapped(lg, rows, m, 1..n)
    BY <1>3, <1>5, <1>6, <1>7, <1>8, <1>9 DEF Mapped, n
<1> QED
    BY <1>10 DEF rows, m, n

\* And alike, if reports of one prescription and prescriptions of one time are in
\* the order of the session.
LEMMA RowsAlike ==
    ASSUME NEW lg, NEW t, Session(lg, t), NEW id, Distinct(lg, id), AsAppended(lg, id)
    PROVE  Alike(lg, EvidenceEntriesFromStoredRows(lg, id), PlaceOf(lg, id), 1..Len(lg))
<1> DEFINE n == Len(lg)
           m == PlaceOf(lg, id)
           rows == EvidenceEntriesFromStoredRows(lg, id)
<1>1. Timed(lg)
    BY SessionExits DEF Exits
<1>2. /\ \A p \in 1..n : m[p] \in 1..n
      /\ \A p, q \in 1..n : Older(lg, id, p, q) <=> m[p] < m[q]
    BY <1>1, PlacesAre
<1>3. \A p \in 1..n : rows[m[p]].at = lg[p].at
    BY RowsAre
<1>4. /\ Prescriptions(lg) \subseteq 1..n
      /\ \A p : ReportsOf(lg, p) \subseteq 1..n
    BY DEF Prescriptions, ReportsOf, Reports
<1>5. Mapped(lg, rows, m, 1..n)
    BY RowsMapped
<1>6. /\ \A p \in 1..n : lg[p].at \in Nat /\ m[p] \in Nat
      /\ \A p, q \in 1..n : Older(lg, id, p, q) => ~Older(lg, id, q, p) /\ lg[p].at <= lg[q].at
    BY <1>1, <1>2 DEF Timed, Older
<1> HIDE DEF n, m, rows
<1>7. ASSUME NEW k \in (1..n) \cap Prescriptions(lg), NEW l \in (1..n) \cap Prescriptions(lg)
      PROVE  Earlier(rows, m[k], m[l]) <=> Earlier(lg, k, l)
    <2>1. Earlier(rows, m[k], m[l]) <=> Older(lg, id, k, l)
        <3>1. Earlier(rows, m[k], m[l])
                 <=> lg[k].at < lg[l].at \/ (lg[k].at = lg[l].at /\ Older(lg, id, k, l))
            BY <1>2, <1>3 DEF Earlier
        <3> QED
            BY <3>1 DEF Older
    <2>2. /\ Earlier(lg, k, l) => Older(lg, id, k, l)
          /\ Earlier(lg, l, k) => Older(lg, id, l, k)
        BY DEF AsAppended
    <2>3. k # l => Earlier(lg, k, l) \/ Earlier(lg, l, k)
        BY <1>1, EarlierOrders DEF n
    <2>4. Older(lg, id, k, l) => Earlier(lg, k, l)
        BY <1>6, <2>2, <2>3
    <2> QED
        BY <2>1, <2>2, <2>4
<1>8. ASSUME NEW p \in (1..n) \cap Prescriptions(lg),
             NEW q \in ReportsOf(lg, p), NEW r \in ReportsOf(lg, p)
      PROVE  q < r <=> m[q] < m[r]
    <2>1. q \in 1..n /\ r \in 1..n /\ q \in Nat /\ r \in Nat
        BY <1>4
    <2>2. /\ q < r => m[q] < m[r]
          /\ r < q => m[r] < m[q]
        BY <1>2, <2>1 DEF AsAppended
    <2> QED
        BY <1>6, <2>1, <2>2
<1>9. Alike(lg, rows, m, 1..n)
    BY <1>5, <1>7, <1>8 DEF Alike
<1> QED
    BY <1>9 DEF rows, m, n

\* What is not filtered is what there is.
LEMMA CardIs ==
    ASSUME NEW lg \in Seq(Entry), NEW t, NEW minOps
    PROVE  LET card == ComputeScorecard(lg, Everything, t, minOps)
           IN  /\ card.signals = AllSignals(lg, t)
               /\ card.score = Compute(AllSignals(lg, t), Operations(lg), FALSE, minOps)
<1> DEFINE f == Everything
           c == AllSignals(lg, t)
<1>1. f.actor = All /\ f.since = 0 /\ f.tool = All /\ f.scope = All
    BY DEF Everything
<1>2. \A k \in 1..Len(lg) : lg[k].at \in Nat
    <2>1. \A k \in 1..Len(lg) : lg[k] \in Entry
        OBVIOUS
    <2> QED
        BY <2>1 DEF Entry
<1> HIDE DEF f
<1>3. {k \in 1..Len(lg) : f.actor \in {All, lg[k].actor} /\ lg[k].at >= f.since} = 1..Len(lg)
    BY <1>1, <1>2
<1>4. FilterEntries(lg, f) = lg
    BY <1>3, AllSelected DEF FilterEntries
<1>5. {k \in 1..Len(lg) : /\ f.tool \in {All, Action(lg, k).tool}
                          /\ f.scope \in {All, Action(lg, k).scope}} = 1..Len(lg)
    BY <1>1
<1>6. FilteredSignalEntries(lg, f) = lg
    BY <1>4, <1>5, AllSelected DEF FilteredSignalEntries, FilterSignalEntriesByToolAndScope
<1>7. ComputeScorecard(lg, f, t, minOps) =
        [signals |-> c, score |-> Compute(c, Operations(lg), FALSE, minOps)]
    BY <1>6 DEF ComputeScorecard
<1> HIDE DEF c
<1>8. /\ ComputeScorecard(lg, f, t, minOps).signals = c
      /\ ComputeScorecard(lg, f, t, minOps).score = Compute(c, Operations(lg), FALSE, minOps)
    BY <1>7
<1> QED
    BY <1>8 DEF f, c

\* The API counts as many operations, drifts, large destructions and scopes.
LEMMA CountsKept ==
    ASSUME Session(log, now), NEW id, Distinct(log, id)
    PROVE  LET rows == EvidenceEntriesFromStoredRows(log, id)
           IN  /\ Operations(rows) = Operations(log)
               /\ \A s \in Unordered : AllSignals(rows, now)[s] = AllSignals(log, now)[s]
<1> DEFINE rows == EvidenceEntriesFromStoredRows(log, id)
           m == PlaceOf(log, id)
           K == 1..Len(log)
<1>1. Exits(log) /\ Timed(log)
    BY SessionExits DEF Exits
<1>2. Mapped(log, rows, m, K)
    BY RowsMapped
<1>3. Timed(rows)
    <2>1. rows \in Seq(Entry)
        BY RowsAre
    <2> HIDE DEF rows
    <2>2. Len(rows) \in Nat /\ \A k \in 1..Len(rows) : rows[k] \in Entry
        BY <2>1
    <2> QED
        BY <2>2 DEF Timed, Entry
<1>4. Prescriptions(log) \subseteq K /\ Reports(log) \subseteq K
    BY DEF Prescriptions, Reports
<1>5. Follows(log, K)
    BY <1>4 DEF Follows
<1>6. ASSUME NEW set \in SUBSET K PROVE Cardinality(Img(m, K \cap set)) = Cardinality(set)
    <2>1. IsFiniteSet(set)
        BY <1>1, RankOf
    <2>2. \A k, l \in set : m[k] = m[l] => k = l
        BY <1>2 DEF Mapped
    <2>3. K \cap set = set
        OBVIOUS
    <2> QED
        BY <2>1, <2>2, <2>3, ImgCount
<1> HIDE DEF rows, m, K
<1>7. Operations(rows) = Operations(log)
    <2>1. Prescriptions(rows) = Img(m, K \cap Prescriptions(log))
        BY <1>2 DEF Mapped
    <2> QED
        BY <1>4, <1>6, <2>1 DEF Operations
<1>8. Cardinality(DetectArtifactDrift(rows)) = Cardinality(DetectArtifactDrift(log))
    <2>1. DetectArtifactDrift(rows) = Img(m, K \cap DetectArtifactDrift(log))
        BY <1>2, <1>5, DriftAlike
    <2>2. DetectArtifactDrift(log) \subseteq K
        BY <1>4 DEF DetectArtifactDrift
    <2> QED
        BY <1>6, <2>1, <2>2
<1>9. Cardinality(DetectBlastRadius(rows)) = Cardinality(DetectBlastRadius(log))
    <2>1. DetectBlastRadius(rows) = Img(m, K \cap DetectBlastRadius(log))
        BY <1>2, BlastAlike
    <2>2. DetectBlastRadius(log) \subseteq K
        BY <1>4 DEF DetectBlastRadius
    <2> QED
        BY <1>6, <2>1, <2>2
<1>10. Cardinality(DetectNewScope(rows)) = Cardinality(DetectNewScope(log))
    <2>1. \A p \in Prescriptions(log) :
             m[p] \in Prescriptions(rows) /\ ByArea(rows)[m[p]] = ByArea(log)[p]
        BY <1>2, <1>4 DEF Mapped, Img, ByArea
    <2>2. \A k \in Prescriptions(rows) : \E p \in Prescriptions(log) : k = m[p]
        BY <1>2 DEF Mapped, Img
    <2>3. Areas(rows) = Areas(log)
        BY <2>1, <2>2 DEF Areas
    <2>4. CASE Prescriptions(log) = {}
        <3>1. Prescriptions(rows) = {}
            BY <2>2, <2>4
        <3> QED
            BY <2>4, <3>1 DEF DetectNewScope
    <2>5. CASE Prescriptions(log) # {}
        <3>1. Prescriptions(rows) # {}
            BY <2>1, <2>5
        <3> QED
            BY <1>1, <1>3, <2>3, <2>5, <3>1, NewScopeCount
    <2> QED
        BY <2>4, <2>5
<1>11. ASSUME NEW s \in Unordered PROVE AllSignals(rows, now)[s] = AllSignals(log, now)[s]
    BY <1>8, <1>9, <1>10 DEF AllSignals, Unordered
<1> QED
    BY <1>7, <1>11 DEF rows

\* And as much of what the order matters for, if that is the session's.
LEMMA CountsAgree ==
    ASSUME Session(log, now), NEW id, Distinct(log, id), AsAppended(log, id),
           NEW s \in Signal \ {"risk_escalation"}
    PROVE  AllSignals(EvidenceEntriesFromStoredRows(log, id), now)[s] = AllSignals(log, now)[s]
<1> DEFINE rows == EvidenceEntriesFromStoredRows(log, id)
           m == PlaceOf(log, id)
           K == 1..Len(log)
<1>1. Exits(log) /\ Timed(log)
    BY SessionExits DEF Exits
<1>2. Alike(log, rows, m, K)
    BY RowsAlike
<1>3. Timed(rows)
    <2>1. rows \in Seq(Entry)
        BY RowsAre
    <2> HIDE DEF rows
    <2>2. Len(rows) \in Nat /\ \A k \in 1..Len(rows) : rows[k] \in Entry
        BY <2>1
    <2> QED
        BY <2>2 DEF Timed, Entry
<1>4. Prescriptions(log) \subseteq K /\ Reports(log) \subseteq K
    BY DEF Prescriptions, Reports
<1>5. Whole(log, K)
    BY <1>4 DEF Whole
<1>6. ASSUME NEW set \in SUBSET K PROVE Cardinality(Img(m, K \cap set)) = Cardinality(set)
    <2>1. IsFiniteSet(set)
        BY <1>1, RankOf
    <2>2. \A k, l \in set : m[k] = m[l] => k = l
        BY <1>2 DEF Alike, Mapped
    <2>3. K \cap set = set
        OBVIOUS
    <2> QED
        BY <2>1, <2>2, <2>3, ImgCount
<1> HIDE DEF rows, m, K
<1>7. /\ DetectRetryLoops(log) \subseteq K /\ DetectRepairLoop(log) \subseteq K
      /\ Charged(log) \subseteq K
    <2>1. /\ DetectRetryLoops(log) \cup DetectRepairLoop(log) \subseteq Prescriptions(log)
          /\ Charged(log) \subseteq Here(log)
        BY <1>1, DetectedAre
    <2> QED
        BY <1>4, <2>1 DEF Here
<1>8. Cardinality(DetectRetryLoops(rows)) = Cardinality(DetectRetryLoops(log))
    <2>1. DetectRetryLoops(rows) = Img(m, K \cap DetectRetryLoops(log))
        BY <1>1, <1>2, <1>3, <1>5, LoopsAlike
    <2> QED
        BY <1>6, <1>7, <2>1
<1>9. Cardinality(DetectRepairLoop(rows)) = Cardinality(DetectRepairLoop(log))
    <2>1. DetectRepairLoop(rows) = Img(m, K \cap DetectRepairLoop(log))
        BY <1>1, <1>2, <1>3, <1>5, RepairLoopAlike
    <2> QED
        BY <1>6, <1>7, <2>1
<1>10. Cardinality(DetectThrashing(rows)) = Cardinality(DetectThrashing(log))
    <2>1. DetectThrashing(rows) = Img(m, DetectThrashing(log))
        BY <1>1, <1>2, <1>3, <1>4, ThrashingAlike
    <2>2. DetectThrashing(log) \subseteq K
        BY <1>1, <1>4, ThrashingRuns
    <2>3. K \cap DetectThrashing(log) = DetectThrashing(log)
        BY <2>2
    <2> QED
        BY <1>6, <2>1, <2>2, <2>3
<1>11. Cardinality(DetectProtocolViolations(rows, now)) =
         Cardinality(DetectProtocolViolations(log, now))
    <2> DEFINE stray == {r \in K \cap Reports(log) : log[r].ref \in Prescriptions(log) \ K}
    <2>1. Charged(rows) = Img(m, (K \cap Charged(log)) \cup stray)
        BY <1>1, <1>2, <1>3, ChargedAlike
    <2>2. stray = {}
        BY <1>4
    <2> HIDE DEF stray
    <2>3. Cardinality(Charged(rows)) = Cardinality(Charged(log))
        BY <1>6, <1>7, <2>1, <2>2
    <2> QED
        BY <1>1, <1>3, <2>3, ViolationCount
<1>12. \A u \in Unordered : AllSignals(rows, now)[u] = AllSignals(log, now)[u]
    BY CountsKept DEF rows
<1>13. s \in Unordered \cup {"protocol_violation", "retry_loop", "repair_loop", "thrashing"}
    BY DEF Signal, Weights, Unordered
<1>14. ASSUME s \in {"protocol_violation", "retry_loop", "repair_loop", "thrashing"}
       PROVE  AllSignals(rows, now)[s] = AllSignals(log, now)[s]
    <2>1. \A x : /\ AllSignals(x, now)["protocol_violation"] =
                      Cardinality(DetectProtocolViolations(x, now))
                 /\ AllSignals(x, now)["retry_loop"] = Cardinality(DetectRetryLoops(x))
                 /\ AllSignals(x, now)["repair_loop"] = Cardinality(DetectRepairLoop(x))
                 /\ AllSignals(x, now)["thrashing"] = Cardinality(DetectThrashing(x))
        BY DEF AllSignals
    <2> QED
        BY <1>8, <1>9, <1>10, <1>11, <1>14, <2>1
<1> QED
    BY <1>12, <1>13, <1>14 DEF rows

LEMMA ReplayHolds == Session(log, now) => ReplayAgrees
<1> SUFFICES ASSUME Session(log, now) PROVE ReplayAgrees
    OBVIOUS
<1> DEFINE local == ComputeScorecard(log, Everything, now, MinOperations)
           c == AllSignals(log, now)
           ops == Operations(log)
<1>1. log \in Seq(Entry)
    BY DEF Session
<1>2. local.signals = c /\ local.score = Compute(c, ops, FALSE, MinOperations)
    BY <1>1, CardIs
<1>3. local.score.sufficient => local.score = Assessed(log, now)
    <2> SUFFICES ASSUME local.score.sufficient PROVE local.score = Assessed(log, now)
        OBVIOUS
    <2> HIDE DEF c, ops, local
    <2>1. ~(ops < MinOperations)
        <3>1. CASE ops < MinOperations
            <4>1. ~Compute(c, ops, FALSE, MinOperations).sufficient
                BY <3>1 DEF Compute
            <4> QED
                BY <1>2, <4>1
        <3> QED
            BY <3>1
    <2>2. Snapshot(c, ops) = Compute(c, ops, FALSE, MinOperations)
        BY <2>1, Zenon DEF Snapshot
    <2>3. Assessed(log, now) = Snapshot(c, ops)
        BY AssessedIs DEF c, ops
    <2> QED
        BY <1>2, <2>2, <2>3
<1>4. ASSUME NEW id \in EntryIDs, Len(log) <= Len(id)
      PROVE  LET rows   == EvidenceEntriesFromStoredRows(log, id)
                 hosted == ComputeScorecard(rows, Everything, now, MinOperations)
             IN  /\ Operations(rows) = ops
                 /\ \A s \in Unordered : hosted.signals[s] = local.signals[s]
                 /\ AsAppended(log, id) => \A s \in Signal \ {"risk_escalation"} :
                                              hosted.signals[s] = local.signals[s]
    <2> DEFINE rows   == EvidenceEntriesFromStoredRows(log, id)
               hosted == ComputeScorecard(rows, Everything, now, MinOperations)
    <2>1. Distinct(log, id)
        <3>1. id \in Seq(Nat) /\ \A j, k \in 1..Len(id) : id[j] = id[k] => j = k
            BY AnalyticsAssumption, Zenon DEF AnalyticsAssumption
        <3>2. Len(log) \in Nat
            BY <1>1
        <3>3. \A k \in 1..Len(log) : k \in 1..Len(id) /\ id[k] \in Nat
            BY <1>4, <3>1, <3>2
        <3> QED
            BY <3>1, <3>3 DEF Distinct
    <2>2. rows \in Seq(Entry)
        BY <2>1, RowsAre
    <2>3. hosted.signals = AllSignals(rows, now)
        <3> HIDE DEF rows
        <3> QED
            BY <2>2, CardIs
    <2>4. Operations(rows) = ops /\ \A s \in Unordered : AllSignals(rows, now)[s] = c[s]
        BY <2>1, CountsKept
    <2>5. ASSUME AsAppended(log, id), NEW s \in Signal \ {"risk_escalation"}
          PROVE  AllSignals(rows, now)[s] = c[s]
        BY <2>1, <2>5, CountsAgree
    <2> HIDE DEF rows, hosted, local, c, ops
    <2>6. /\ Operations(rows) = ops
          /\ \A s \in Unordered : hosted.signals[s] = local.signals[s]
          /\ AsAppended(log, id) => \A s \in Signal \ {"risk_escalation"} :
                                       hosted.signals[s] = local.signals[s]
        BY <1>2, <2>3, <2>4, <2>5
    <2> QED
        BY <2>6 DEF rows, hosted
<1> HIDE DEF local
<1> QED
    BY <1>3, <1>4 DEF ReplayAgrees, local, ops

LEMMA TimeStep ==
    ASSUME Session(log, now), now \in 0..MaxTime, InTime(log), [Next]_vars
    PROVE  InTime(log')
<1>1. CASE log' = log
    BY <1>1
<1>2. CASE \E e \in Entry : log' = Append(log, e) /\ Stamped(log, e)
    BY <1>2, TimeGrows
<1> QED
    BY <1>1, <1>2, StepIs DEF vars

-----------------------------------------------------------------------------
(* Every report has the verdict it should, every overdue prescription is    *)
(* found once, and the score lies between 0 and 100 (computeSnapshot,       *)
(* DetectProtocolViolationEvents, ComputeWithProfileAndMinOperations).      *)
THEOREM AccountsCorrect == Spec => []AccountsExact
<1> DEFINE Inv == Session(log, now) /\ now \in 0..MaxTime
<1>1. Init => Inv
    BY StartsWell
<1>2. Inv /\ [Next]_vars => Inv'
    BY SessionStep
<1>3. Inv => AccountsExact
    <2> SUFFICES ASSUME Inv PROVE AccountsExact
        OBVIOUS
    <2>1. \A a \in {Assessed(log, now)} : a.sufficient => a.times \in 0..100 * Operations(log)
        BY SessionExits, AssessedBounds
    <2> QED
        BY <2>1, AccountsHold DEF AccountsExact, TypeOK
<1> QED
    BY <1>1, <1>2, <1>3, PTL DEF Spec

(* A retry loop, a thrashing or a repair that is counted is one             *)
(* (DetectRetryLoops, DetectThrashing, DetectRepairLoop), and every repair  *)
(* is counted.                                                              *)
THEOREM SequencesCorrect == Spec => []SequencesSound
<1> DEFINE Inv == Session(log, now) /\ now \in 0..MaxTime
<1>1. Init => Inv
    BY StartsWell
<1>2. Inv /\ [Next]_vars => Inv'
    BY SessionStep
<1>3. Inv => SequencesSound
    <2>1. Inv => Exits(log) /\ Timed(log)
        BY SessionExits DEF Exits
    <2> QED
        BY <2>1, LoopsHold, ThrashingHolds, RepairsHold DEF SequencesSound
<1> QED
    BY <1>1, <1>2, <1>3, PTL DEF Spec

(* What is recorded later changes no escalation and no new scope            *)
(* (DetectRiskEscalation, DetectNewScope).                                  *)
THEOREM VerdictsLast == Spec => VerdictsCausal
<1> DEFINE Inv == Session(log, now) /\ now \in 0..MaxTime
           Stay == \A p \in Prescriptions(log) :
                      /\ p \in DetectRiskEscalation(log) <=> p \in DetectRiskEscalation(log')
                      /\ p \in DetectNewScope(log) <=> p \in DetectNewScope(log')
<1>1. Init => Inv
    BY StartsWell
<1>2. Inv /\ [Next]_vars => Inv'
    BY SessionStep
<1>3. Inv /\ [Next]_vars => Stay
    BY VerdictsStep
<1>4. Inv /\ [Next]_vars => [Stay]_vars
    BY <1>3
<1> HIDE DEF Inv, Stay
<1>5. Spec => [][Stay]_vars
    BY <1>1, <1>2, <1>4, PTL DEF Spec
<1> QED
    BY <1>5 DEF VerdictsCausal, Stay

(* While nothing is recorded the score does not rise: time only adds        *)
(* prescriptions that are overdue (DetectUnreported).                       *)
THEOREM SilenceNeverPays == Spec => WaitingNeverHelps
<1> DEFINE Inv == Session(log, now) /\ now \in 0..MaxTime
           Fall == log' = log => Assessed(log, now').times <= Assessed(log, now).times
<1>1. Init => Inv
    BY StartsWell
<1>2. Inv /\ [Next]_vars => Inv'
    BY SessionStep
<1>3. Inv /\ [Next]_vars => Fall
    <2> SUFFICES ASSUME Inv, [Next]_vars, log' = log
                 PROVE  Assessed(log, now').times <= Assessed(log, now).times
        OBVIOUS
    <2>1. Exits(log)
        BY SessionExits
    <2>2. now \in Nat /\ now' \in Nat /\ now <= now'
        BY StepIs DEF vars
    <2> QED
        BY <2>1, <2>2, AssessedFalls
<1>4. Inv /\ [Next]_vars => [Fall]_vars
    BY <1>3
<1> HIDE DEF Inv, Fall
<1>5. Spec => [][Fall]_vars
    BY <1>1, <1>2, <1>4, PTL DEF Spec
<1> QED
    BY <1>5 DEF WaitingNeverHelps, Fall

(* The scorecard of a tool, a scope, a period or an actor judges what it has *)
(* as that of everything does, but for the reports whose prescription it    *)
(* has left out and the prescriptions whose report it has left out; the     *)
(* API's rows, in the order of timestamps and ids, count as the local       *)
(* entries, and attempts and violations do so unless what they follow comes *)
(* to stand in another order (FilteredSignalEntries, ComputeScorecard,      *)
(* EvidenceEntriesFromStoredRows).                                          *)
THEOREM ScorecardsAreFaithful == Spec => []ScorecardsFaithful
<1> DEFINE Inv == Session(log, now) /\ now \in 0..MaxTime /\ InTime(log)
<1>1. Init => Inv
    BY StartsWell, TimeStarts
<1>2. Inv /\ [Next]_vars => Inv'
    BY SessionStep, TimeStep
<1>3. Inv => ScorecardsFaithful
    <2> SUFFICES ASSUME Inv PROVE ScorecardsFaithful
        OBVIOUS
    <2>1. now \in Nat
        OBVIOUS
    <2> QED
        BY <2>1, OperationsHold, PeriodsHold, ActorsHold, ReplayHolds DEF ScorecardsFaithful
<1> QED
    BY <1>1, <1>2, <1>3, PTL DEF Spec
=============================================================================
