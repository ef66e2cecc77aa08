------------------------ MODULE SessionTrackerProofs ------------------------
(***************************************************************************)
(* Proofs about the session tracker, for any number of threads, sessions,   *)
(* requests and entries.                                                    *)
(*                                                                          *)
(* The inductive invariant relates the state of every session to the log:   *)
(* it holds each of the session's entries at most once, all that this       *)
(* process recorded except the one still to be observed, and all that an    *)
(* answer has shown; for a lone process it is a prefix of what a rebuild    *)
(* would make, and misses nothing but that entry.  A request that scans     *)
(* carries such a state to Install, and one that computes goes by the state *)
(* the session has.  All this is so as long as no two requests of the       *)
(* session overlap; whatever overlaps, every state has one session it       *)
(* belongs to, and holds entries of that session only.                      *)
(*                                                                          *)
(* Rebuilt and Reference are recursive functions over the log.  The first   *)
(* part shows that they exist and what they yield, by induction over sets   *)
(* of numbers, and moves Reference to logs other than the current one.      *)
(***************************************************************************)
EXTENDS SessionTracker, FiniteSetTheorems, NaturalsInduction, WellFoundedInduction, TLAPS

-----------------------------------------------------------------------------
(* Recursive functions over the log.                                       *)

\* Induction over the numbers, with the property as a set.
LEMMA SetInduction ==
    ASSUME NEW S, 0 \in S, \A n \in Nat : n \in S => n + 1 \in S
    PROVE  Nat \subseteq S
<1> SUFFICES ASSUME Nat \ S # {} PROVE FALSE
    OBVIOUS
<1>1. PICK x \in Nat \ S : \A y \in Nat \ S : ~ (<<y, x>> \in OpToRel(<, Nat))
    BY NatLessThanWellFounded, WFMin
<1>2. x # 0 /\ x - 1 \in Nat /\ x - 1 < x /\ (x - 1) + 1 = x
    OBVIOUS
<1>3. <<x - 1, x>> \in OpToRel(<, Nat)
    BY <1>2 DEF OpToRel
<1>4. x - 1 \in S
    BY <1>1, <1>2, <1>3
<1>5. (x - 1) + 1 \in S
    BY <1>2, <1>4
<1> QED
    BY <1>2, <1>5

\* A recursion over 1..n in a set X has a solution: f[0] is base, and f[i] is
\* what step i makes of f[i - 1].
LEMMA Iteration ==
    ASSUME NEW X, NEW base \in X, NEW n \in Nat, NEW step \in [1..n -> [X -> X]]
    PROVE  \E f \in [0..n -> X] : f[0] = base /\ \A i \in 1..n : f[i] = step[i][f[i-1]]
<1> DEFINE S == {m \in Nat : m <= n =>
                    \E f \in [0..m -> X] : /\ f[0] = base
                                           /\ \A i \in 1..m : f[i] = step[i][f[i-1]]}
<1>1. 0 \in S
    <2> DEFINE g == [i \in 0..0 |-> base]
    <2>1. g \in [0..0 -> X] /\ g[0] = base
        OBVIOUS
    <2> HIDE DEF g
    <2>2. \A i \in 1..0 : g[i] = step[i][g[i-1]]
        OBVIOUS
    <2> QED
        BY <2>1, <2>2
<1>2. ASSUME NEW m \in Nat, m \in S PROVE m + 1 \in S
    <2> SUFFICES ASSUME m + 1 <= n
                 PROVE  \E f \in [0..m+1 -> X] :
                           /\ f[0] = base
                           /\ \A i \in 1..m+1 : f[i] = step[i][f[i-1]]
        OBVIOUS
    <2>1. m <= n
        OBVIOUS
    <2>2. PICK f \in [0..m -> X] : /\ f[0] = base
                                   /\ \A i \in 1..m : f[i] = step[i][f[i-1]]
        BY <1>2, <2>1
    <2> DEFINE g == [i \in 0..m+1 |-> IF i = m + 1 THEN step[m+1][f[m]] ELSE f[i]]
    <2>3. m + 1 \in 1..n /\ f[m] \in X
        OBVIOUS
    <2>4. step[m+1][f[m]] \in X
        BY <2>3
    <2>5. \A i \in 0..m : g[i] = f[i] /\ i \in 0..m+1 /\ i # m + 1
        OBVIOUS
    <2>6. g[m+1] = step[m+1][f[m]]
        OBVIOUS
    <2>7. g \in [0..m+1 -> X]
        BY <2>4
    <2> HIDE DEF g
    <2>8. \A i \in 1..m : i - 1 \in 0..m /\ i \in 0..m
        OBVIOUS
    <2>9. \A i \in 1..m : g[i] = step[i][g[i-1]]
        BY <2>2, <2>5, <2>8
    <2>10. g[m+1] = step[m+1][g[(m+1)-1]]
        BY <2>5, <2>6
    <2>11. \A i \in 1..m+1 : g[i] = step[i][g[i-1]]
        BY <2>9, <2>10
    <2>12. g[0] = base
        BY <2>2, <2>5
    <2> QED
        BY <2>7, <2>11, <2>12
<1> HIDE DEF S
<1>3. n \in S
    BY <1>1, <1>2, SetInduction
<1> QED
    BY <1>3 DEF S

-----------------------------------------------------------------------------
Distinct(seq) == \A j, k \in 1..Len(seq) : seq[j] = seq[k] => j = k

LEMMA SetOfAppend ==
    ASSUME NEW T, NEW seq \in Seq(T), NEW e \in T
    PROVE  /\ ToSet(Append(seq, e)) = ToSet(seq) \cup {e}
           /\ Append(seq, e) \in Seq(T)
           /\ Distinct(seq) /\ e \notin ToSet(seq) => Distinct(Append(seq, e))
<1> DEFINE new == Append(seq, e)
           n == Len(seq)
<1>1. n \in Nat /\ Len(new) = n + 1 /\ new \in Seq(T) /\ new[n + 1] = e
      /\ \A i \in 1..n : new[i] = seq[i]
    OBVIOUS
<1>2. DOMAIN seq = 1..n /\ DOMAIN new = 1..(n + 1)
    BY <1>1
<1> HIDE DEF new
<1>3. \A i : i \in 1..(n + 1) <=> i \in 1..n \/ i = n + 1
    BY <1>1
<1>4. \A x : x \in ToSet(new) <=> x \in ToSet(seq) \/ x = e
    BY <1>1, <1>2, <1>3 DEF ToSet
<1>5. Distinct(seq) /\ e \notin ToSet(seq) => Distinct(new)
    <2> SUFFICES ASSUME Distinct(seq), e \notin ToSet(seq),
                        NEW j \in 1..(n + 1), NEW k \in 1..(n + 1), new[j] = new[k]
                 PROVE  j = k
        BY <1>1 DEF Distinct
    <2>1. \A i \in 1..n : new[i] # e
        BY <1>1, <1>2 DEF ToSet
    <2>2. j \in 1..n /\ k \in 1..n => j = k
        BY <1>1 DEF Distinct
    <2> QED
        BY <1>1, <1>3, <2>1, <2>2
<1> QED
    BY <1>1, <1>4, <1>5 DEF new

LEMMA OnceDistinct ==
    ASSUME NEW T, NEW seq \in Seq(T), Distinct(seq), NEW e \in ToSet(seq)
    PROVE  Once(seq, e)
<1>1. PICK k \in 1..Len(seq) : seq[k] = e
    BY DEF ToSet
<1>2. {j \in 1..Len(seq) : seq[j] = e} = {k}
    BY <1>1 DEF Distinct
<1>3. Cardinality({k}) = 1
    BY FS_Singleton
<1> QED
    BY <1>2, <1>3 DEF Once

-----------------------------------------------------------------------------
\* What a session's answers are made of, for any log.
Counts(lg, s, i) == lg[i].s = s /\ lg[i].kind # "failure"
Enumerates(lg, s, n, f) ==
    f = [i \in 0..n |->
            IF i = 0 THEN <<>>
            ELSE IF Counts(lg, s, i) THEN Append(f[i-1], i)
            ELSE f[i-1]]
RefOf(lg, s, n) == (CHOOSE f : Enumerates(lg, s, n, f))[n]

LEMMA EnumerationExists ==
    ASSUME NEW lg, NEW s, NEW n \in Nat
    PROVE  \E f \in [0..n -> Seq(Nat)] : Enumerates(lg, s, n, f)
<1> DEFINE step == [i \in 1..n |-> [x \in Seq(Nat) |->
                       IF Counts(lg, s, i) THEN Append(x, i) ELSE x]]
<1>1. step \in [1..n -> [Seq(Nat) -> Seq(Nat)]]
    OBVIOUS
<1>2. \A i \in 1..n, x \in Seq(Nat) :
         step[i][x] = IF Counts(lg, s, i) THEN Append(x, i) ELSE x
    OBVIOUS
<1>3. <<>> \in Seq(Nat)
    OBVIOUS
<1> DEFINE X == Seq(Nat)
           base == <<>>
<1> HIDE DEF step, X, base
<1>a. \E f \in [0..n -> X] : f[0] = base /\ \A i \in 1..n : f[i] = step[i][f[i-1]]
    <2>1. step \in [1..n -> [X -> X]] /\ base \in X
        BY <1>1, <1>3 DEF X, base
    <2> QED
        BY <2>1, Iteration
<1>4. PICK f \in [0..n -> Seq(Nat)] :
          f[0] = <<>> /\ \A i \in 1..n : f[i] = step[i][f[i-1]]
    BY <1>a DEF X, base
<1>5. \A i \in 0..n : i # 0 => i \in 1..n /\ i - 1 \in 0..n
    OBVIOUS
<1>6. \A i \in 0..n : i # 0 =>
         step[i][f[i-1]] = IF Counts(lg, s, i)
                           THEN Append(f[i-1], i) ELSE f[i-1]
    BY <1>2, <1>5
<1>7. Enumerates(lg, s, n, f)
    BY <1>4, <1>5, <1>6 DEF Enumerates
<1> QED
    BY <1>7

\* Logs that agree up to j have the same enumeration up to j.
LEMMA EnumerationsAgree ==
    ASSUME NEW l1, NEW l2, NEW s, NEW n \in Nat, NEW m \in Nat, NEW f, NEW g,
           Enumerates(l1, s, n, f), Enumerates(l2, s, m, g),
           NEW j \in Nat, j <= n, j <= m, \A i \in 1..j : l1[i] = l2[i]
    PROVE  f[j] = g[j]
<1> DEFINE S == {i \in Nat : i <= j => f[i] = g[i]}
<1>1. 0 \in S
    BY DEF Enumerates
<1>2. ASSUME NEW i \in Nat, i \in S PROVE i + 1 \in S
    <2> SUFFICES ASSUME i + 1 <= j PROVE f[i+1] = g[i+1]
        OBVIOUS
    <2>1. f[i] = g[i] /\ i + 1 \in 0..n /\ i + 1 \in 0..m /\ i + 1 # 0
          /\ (i + 1) - 1 = i /\ l1[i+1] = l2[i+1]
        BY <1>2
    <2>2. f[i+1] = IF Counts(l1, s, i+1)
                   THEN Append(f[(i+1)-1], i+1) ELSE f[(i+1)-1]
        BY <2>1 DEF Enumerates
    <2>3. g[i+1] = IF Counts(l2, s, i+1)
                   THEN Append(g[(i+1)-1], i+1) ELSE g[(i+1)-1]
        BY <2>1 DEF Enumerates
    <2>4. Counts(l1, s, i+1) <=> Counts(l2, s, i+1)
        BY <2>1 DEF Counts
    <2> QED
        BY <2>1, <2>2, <2>3, <2>4
<1> HIDE DEF S
<1>3. j \in S
    BY <1>1, <1>2, SetInduction
<1> QED
    BY <1>3 DEF S

LEMMA EnumerationsSame ==
    ASSUME NEW lg, NEW s, NEW n \in Nat, NEW m \in Nat, NEW f, NEW g,
           Enumerates(lg, s, n, f), Enumerates(lg, s, m, g), n <= m
    PROVE  f[n] = g[n]
<1>1. \A i \in 1..n : lg[i] = lg[i]
    OBVIOUS
<1>2. \A a, b : Enumerates(a, s, n, f) /\ Enumerates(b, s, m, g)
                 /\ (\A i \in 1..n : a[i] = b[i]) => f[n] = g[n]
    BY EnumerationsAgree
<1> QED
    BY <1>1, <1>2

LEMMA ReferenceOf == \A s, n : Reference(s, n) = RefOf(log, s, n)
BY DEF Reference, RefOf, Enumerates, Assessed, Member, Counts

LEMMA RefIs ==
    ASSUME NEW lg, NEW s, NEW n \in Nat
    PROVE  \E f \in [0..n -> Seq(Nat)] : Enumerates(lg, s, n, f) /\ RefOf(lg, s, n) = f[n]
<1> DEFINE h == CHOOSE f : Enumerates(lg, s, n, f)
<1>1. Enumerates(lg, s, n, h)
    BY EnumerationExists
<1>2. RefOf(lg, s, n) = h[n]
    BY DEF RefOf
<1> HIDE DEF h
<1>3. PICK f \in [0..n -> Seq(Nat)] : Enumerates(lg, s, n, f)
    BY EnumerationExists
<1>4. f[n] = h[n]
    BY <1>1, <1>3, EnumerationsSame
<1> QED
    BY <1>2, <1>3, <1>4

LEMMA RefZero == ASSUME NEW lg, NEW s PROVE RefOf(lg, s, 0) = <<>>
<1>1. PICK f : Enumerates(lg, s, 0, f) /\ RefOf(lg, s, 0) = f[0]
    BY RefIs
<1> QED
    BY <1>1 DEF Enumerates

LEMMA RefNext ==
    ASSUME NEW lg, NEW s, NEW n \in Nat
    PROVE  /\ RefOf(lg, s, n) \in Seq(Nat)
           /\ RefOf(lg, s, n + 1) = IF Counts(lg, s, n + 1) THEN Append(RefOf(lg, s, n), n + 1)
                                    ELSE RefOf(lg, s, n)
<1> DEFINE m == n + 1
<1>m. m \in Nat /\ n <= m /\ m \in 0..m /\ n \in 0..m /\ n \in 0..n /\ m # 0 /\ m - 1 = n
    OBVIOUS
<1> HIDE DEF m
<1>1. PICK f \in [0..n -> Seq(Nat)] : Enumerates(lg, s, n, f) /\ RefOf(lg, s, n) = f[n]
    BY RefIs
<1>2. PICK g \in [0..m -> Seq(Nat)] : Enumerates(lg, s, m, g) /\ RefOf(lg, s, m) = g[m]
    BY <1>m, RefIs
<1>3. f[n] = g[n]
    <2>1. Enumerates(lg, s, n, f) /\ Enumerates(lg, s, m, g) /\ n <= m /\ n \in Nat /\ m \in Nat
        BY <1>m, <1>1, <1>2
    <2>2. ASSUME NEW a, NEW b, Enumerates(lg, s, n, a), Enumerates(lg, s, m, b) PROVE a[n] = b[n]
        BY <2>1, <2>2, EnumerationsSame
    <2> QED
        BY <2>1, <2>2
<1>4. g[m] = IF Counts(lg, s, m)
             THEN Append(g[m-1], m) ELSE g[m-1]
    BY <1>m, <1>2 DEF Enumerates
<1>5. g[m] = IF Counts(lg, s, m) THEN Append(f[n], m) ELSE f[n]
    BY <1>m, <1>3, <1>4
<1>6. f[n] \in Seq(Nat)
    BY <1>m, <1>1
<1> QED
    BY <1>1, <1>2, <1>5, <1>6 DEF m

\* A log that grows keeps its references.
LEMMA RefGrown ==
    ASSUME NEW l1, NEW l2, NEW s, NEW n \in Nat, \A i \in 1..n : l1[i] = l2[i]
    PROVE  RefOf(l1, s, n) = RefOf(l2, s, n)
<1>1. PICK f : Enumerates(l1, s, n, f) /\ RefOf(l1, s, n) = f[n]
    BY RefIs
<1>2. PICK g : Enumerates(l2, s, n, g) /\ RefOf(l2, s, n) = g[n]
    BY RefIs
<1>3. f[n] = g[n]
    BY <1>1, <1>2, EnumerationsAgree
<1> QED
    BY <1>1, <1>2, <1>3

LEMMA RefSet ==
    ASSUME NEW lg, NEW s, NEW n \in Nat
    PROVE  /\ RefOf(lg, s, n) \in Seq(Nat)
           /\ ToSet(RefOf(lg, s, n)) = {i \in 1..n : Counts(lg, s, i)}
           /\ Distinct(RefOf(lg, s, n))
<1> DEFINE S == {m \in Nat : /\ ToSet(RefOf(lg, s, m)) = {i \in 1..m : Counts(lg, s, i)}
                             /\ Distinct(RefOf(lg, s, m))}
<1>1. 0 \in S
    BY RefZero DEF ToSet, Distinct
<1>2. ASSUME NEW m \in Nat, m \in S PROVE m + 1 \in S
    <2> DEFINE R == RefOf(lg, s, m)
    <2>1. R \in Seq(Nat) /\ ToSet(R) = {i \in 1..m : Counts(lg, s, i)} /\ Distinct(R)
        BY <1>2, RefNext
    <2> HIDE DEF R
    <2>2. m + 1 \notin ToSet(R) /\ m + 1 \in Nat
        BY <2>1
    <2>3. CASE Counts(lg, s, m + 1)
        <3>1. RefOf(lg, s, m + 1) = Append(R, m + 1)
            BY <2>3, RefNext DEF R
        <3>2. /\ ToSet(Append(R, m + 1)) = ToSet(R) \cup {m + 1}
              /\ Distinct(Append(R, m + 1))
            BY <2>1, <2>2, SetOfAppend
        <3>3. {i \in 1..m : Counts(lg, s, i)} \cup {m + 1} = {i \in 1..(m + 1) : Counts(lg, s, i)}
            BY <2>3
        <3>4. ToSet(RefOf(lg, s, m + 1)) = {i \in 1..(m + 1) : Counts(lg, s, i)}
            BY <2>1, <3>1, <3>2, <3>3
        <3>5. Distinct(RefOf(lg, s, m + 1))
            BY <3>1, <3>2
        <3> QED
            BY <2>2, <3>4, <3>5
    <2>4. CASE ~Counts(lg, s, m + 1)
        <3>1. RefOf(lg, s, m + 1) = R
            BY <2>4, RefNext DEF R
        <3>2. {i \in 1..m : Counts(lg, s, i)} = {i \in 1..(m + 1) : Counts(lg, s, i)}
            BY <2>4
        <3> QED
            BY <2>1, <3>1, <3>2
    <2> QED
        BY <2>3, <2>4
<1> HIDE DEF S
<1>3. n \in S
    BY <1>1, <1>2, SetInduction
<1> QED
    BY <1>3, RefNext DEF S

\* Entries of others change nothing.
LEMMA RefSame ==
    ASSUME NEW lg, NEW s, NEW n \in Nat, NEW m \in Nat, n <= m,
           \A i \in (n + 1)..m : ~Counts(lg, s, i)
    PROVE  RefOf(lg, s, m) = RefOf(lg, s, n)
<1> DEFINE S == {i \in Nat : n + i <= m => RefOf(lg, s, n + i) = RefOf(lg, s, n)}
<1>1. 0 \in S
    OBVIOUS
<1>2. ASSUME NEW i \in Nat, i \in S PROVE i + 1 \in S
    <2> SUFFICES ASSUME n + (i + 1) <= m
                 PROVE  RefOf(lg, s, n + (i + 1)) = RefOf(lg, s, n)
        OBVIOUS
    <2>1. RefOf(lg, s, n + i) = RefOf(lg, s, n) /\ n + i \in Nat
          /\ n + (i + 1) = (n + i) + 1 /\ (n + i) + 1 \in (n + 1)..m
        BY <1>2
    <2>2. RefOf(lg, s, (n + i) + 1) = RefOf(lg, s, n + i)
        BY <2>1, RefNext
    <2> QED
        BY <2>1, <2>2
<1> HIDE DEF S
<1>3. PICK d \in Nat : n + d = m
    <2>1. m - n \in Nat /\ n + (m - n) = m
        OBVIOUS
    <2> QED
        BY <2>1
<1>4. d \in S
    BY <1>1, <1>2, SetInduction
<1>5. n + d <= m
    BY <1>3
<1>6. RefOf(lg, s, n + d) = RefOf(lg, s, n)
    BY <1>4, <1>5 DEF S
<1> QED
    BY <1>3, <1>6

-----------------------------------------------------------------------------
(* The inductive invariant.                                                *)

\* A report among the entries has its prescription among them.
Linked(lg, seq) ==
    \A i \in ToSet(seq) :
        (lg[i].kind = "report" /\ lg[lg[i].ref].kind = "prescribe") => lg[i].ref \in ToSet(seq)

\* The entries a state of session s holds: each once, none that is still to be
\* observed; all that this process has answered with and all that it recorded;
\* and, when nobody else writes to the session, the entries up to a point, all
\* but those to come.
Mine(lg, s) == \A i \in 1..Len(lg) : lg[i].s = s => lg[i].own
Sound(lg, waits, kept, shown, s, seq) ==
    /\ seq \in Seq(Index) /\ Distinct(seq)
    /\ \A i \in ToSet(seq) : i \in 1..Len(lg) /\ Counts(lg, s, i) /\ i \notin waits
    /\ shown \subseteq ToSet(seq)
    /\ kept => \A i \in 1..Len(lg) :
                   Counts(lg, s, i) /\ lg[i].own /\ i \notin waits => i \in ToSet(seq)
    /\ kept /\ Mine(lg, s) =>
          \E n \in 0..Len(lg) :
              /\ seq = RefOf(lg, s, n)
              /\ \A i \in (n + 1)..Len(lg) : Counts(lg, s, i) => i \in waits

Answered(lg, kept, s, a) ==
    /\ a.since <= Len(lg)
    /\ \A i \in ToSet(a.got) : i \in 1..Len(lg) /\ Counts(lg, s, i)
    /\ Linked(lg, a.got)
    /\ kept => \A i \in 1..a.since : Counts(lg, s, i) /\ lg[i].own => Once(a.got, i)
    /\ kept /\ Mine(lg, s) =>
          \E n \in a.since..Len(lg) : a.got = RefOf(lg, s, n)

Waits(s) == {req[t].entry : t \in {u \in Threads : pc[u] = "observe" /\ req[u].s = s}}
SeenOf(s) == IF sessions[s] = 0 THEN <<>> ELSE objs[sessions[s]].seen
SoundFor(s, seq) == Sound(log, Waits(s), ~restarted, ToSet(answers[s].got), s, seq)

\* What a state's flags promise.
Honest(lg, st) == /\ ~st.dirty => st.results = st.seen
                  /\ ~st.invalid => Linked(lg, st.seen)

Steps == {"idle", "observe", "check", "scan", "install", "compute", "store"}
RequestData == [s: Sessions, entry: Nat, ptr: Nat, since: Nat, found: State]
AnswerData == [got: Seq(Index), since: Nat]
Types ==
    /\ log \in Seq(Entry) /\ Len(log) <= MaxLog
    /\ pc \in [Threads -> Steps]
    /\ req \in [Threads -> RequestData]
    /\ \A t \in Threads : /\ req[t].entry <= Len(log) /\ req[t].since <= Len(log)
                          /\ req[t].ptr <= Len(objs)
    /\ objs \in Seq(State)
    /\ sessions \in [Sessions -> 0..Len(objs)]
    /\ manifest = Unknown \/ manifest \in Nat \X Index
    /\ answers \in [Sessions -> AnswerData]
    /\ requests \in 0..MaxRequests
    /\ restarted \in BOOLEAN
    /\ overlapped \subseteq Sessions

\* lifecycle.Report: a report names an earlier entry of its session.
ReportsBack(lg) ==
    \A i \in 1..Len(lg) :
        lg[i].kind = "report" => lg[i].ref \in 1..(i - 1) /\ lg[lg[i].ref].s = lg[i].s

\* Whatever overlaps: what is kept for a session holds entries of it only, and
\* no state is kept for two sessions (owner[p] is the one of state p).
Of(lg, s, seq) == \A i \in ToSet(seq) : i \in 1..Len(lg) /\ Counts(lg, s, i)
StateOf(lg, s, st) == Of(lg, s, st.seen) /\ Of(lg, s, st.results)
Owned(owner) ==
    /\ owner \in [1..Len(objs) -> Sessions]
    /\ \A s \in Sessions : sessions[s] # 0 => owner[sessions[s]] = s
    /\ \A p \in 1..Len(objs) : StateOf(log, owner[p], objs[p])
    /\ \A t \in Threads :
          pc[t] \in {"compute", "store"} => req[t].ptr # 0 /\ owner[req[t].ptr] = req[t].s
AnswerOwn(s) == Of(log, s, answers[s].got)
Carries(t) ==
    /\ pc[t] = "observe" => /\ req[t].entry \in 1..Len(log)
                            /\ Counts(log, req[t].s, req[t].entry)
                            /\ log[req[t].entry].own
    /\ pc[t] \in {"install", "store"} => StateOf(log, req[t].s, req[t].found)

\* As long as no two requests of the session overlap.
SessionSound(s) == /\ SoundFor(s, SeenOf(s))
                   /\ sessions[s] # 0 => Honest(log, objs[sessions[s]])
AnswerSound(s) == Answered(log, ~restarted, s, answers[s])
RequestSound(t) ==
    /\ pc[t] = "install" => /\ SoundFor(req[t].s, req[t].found.seen)
                            /\ Honest(log, req[t].found)
                            /\ Linked(log, req[t].found.seen)
    /\ pc[t] \in {"compute", "store"} => /\ req[t].ptr = sessions[req[t].s]
                                         /\ req[t].ptr # 0
                                         /\ Linked(log, objs[req[t].ptr].seen)
    /\ pc[t] = "store" => req[t].found.results = objs[req[t].ptr].seen

\* Thread t is the only one, if any, that handles a request of session s.
Only(t, s) == \A u \in Threads : u # t /\ pc[u] # "idle" => req[u].s # s

IInv == /\ Types
        /\ ReportsBack(log)
        /\ \E owner : Owned(owner)
        /\ \A s \in Sessions : AnswerOwn(s)
        /\ \A t \in Threads : Carries(t)
        /\ \A t \in Threads : pc[t] # "idle" /\ req[t].s \notin overlapped =>
                               Only(t, req[t].s) /\ RequestSound(t)
        /\ \A s \in Sessions \ overlapped : SessionSound(s) /\ AnswerSound(s)

LEMMA ObserveTyped ==
    ASSUME NEW st \in State, NEW i \in Index
    PROVE  /\ observeEntry(st, i) \in State
           /\ observeEntry(st, i).results = st.results
           /\ Counts(log, log[i].s, i) => /\ observeEntry(st, i).seen = Append(st.seen, i)
                                          /\ observeEntry(st, i).dirty
           /\ ~ Counts(log, log[i].s, i) => observeEntry(st, i) = st
<1> DEFINE bad == st.invalid \/ (log[i].kind = "report" /\ log[i].ref \notin Prescriptions(st))
<1>1. bad \in BOOLEAN
    BY DEF State
<1>2. observeEntry(st, i) = IF log[i].kind = "failure" THEN st
                            ELSE [st EXCEPT !.seen = Append(@, i), !.dirty = TRUE, !.invalid = bad]
    BY DEF observeEntry
<1> HIDE DEF bad
<1>3. Append(st.seen, i) \in Seq(Index)
    BY DEF State
<1> QED
    BY <1>1, <1>2, <1>3 DEF State, Counts

LEMMA CleanTyped ==
    ASSUME NEW st \in State
    PROVE  Clean(st) \in State /\ Clean(st).seen = st.seen /\ Clean(st).invalid = st.invalid
           /\ ((~st.dirty => st.results = st.seen) =>
                    Clean(st).results = st.seen /\ ~Clean(st).dirty)
BY DEF Clean, State

\* A report and its prescription are both among the entries of the session.
LEMMA RefLinked ==
    ASSUME NEW lg \in Seq(Entry), ReportsBack(lg), NEW s, NEW n \in 0..Len(lg)
    PROVE  Linked(lg, RefOf(lg, s, n))
<1>1. ToSet(RefOf(lg, s, n)) = {i \in 1..n : Counts(lg, s, i)}
    BY RefSet
<1> SUFFICES ASSUME NEW i \in 1..n, Counts(lg, s, i), lg[i].kind = "report",
                    lg[lg[i].ref].kind = "prescribe"
             PROVE  lg[i].ref \in 1..n /\ Counts(lg, s, lg[i].ref)
    BY <1>1 DEF Linked
<1>2. i \in 1..Len(lg)
    OBVIOUS
<1>3. lg[i].ref \in 1..(i-1) /\ lg[lg[i].ref].s = lg[i].s
    BY <1>2 DEF ReportsBack
<1> QED
    BY <1>3 DEF Counts

Rebuilds(s, n, f) ==
    f = [i \in 0..n |->
            IF i = 0 THEN newSessionState
            ELSE IF Member(s, i) THEN observeEntry(f[i-1], i) ELSE f[i-1]]

LEMMA RebuildExists ==
    ASSUME NEW s, NEW n \in Nat, n <= MaxLog
    PROVE  \E f \in [0..n -> State] : Rebuilds(s, n, f)
<1> DEFINE step == [i \in 1..n |-> [x \in State |->
                       IF Member(s, i) THEN observeEntry(x, i) ELSE x]]
<1>1. \A i \in 1..n : i \in Index
    BY ConstantsAssumption DEF Index
<1>2. newSessionState \in State
    BY DEF newSessionState, State
<1>3. \A i \in 1..n : \A x \in State : observeEntry(x, i) \in State
    BY <1>1, ObserveTyped
<1>4. step \in [1..n -> [State -> State]]
    BY <1>3
<1>5. \A i \in 1..n : \A x \in State :
         step[i][x] = IF Member(s, i) THEN observeEntry(x, i) ELSE x
    OBVIOUS
<1> HIDE DEF step
<1>6. PICK f \in [0..n -> State] :
          f[0] = newSessionState /\ \A i \in 1..n : f[i] = step[i][f[i-1]]
    BY <1>2, <1>4, Iteration
<1>7. \A i \in 0..n : i # 0 => i \in 1..n /\ i - 1 \in 0..n
    OBVIOUS
<1>8. \A i \in 0..n : i # 0 =>
         step[i][f[i-1]] = IF Member(s, i) THEN observeEntry(f[i-1], i) ELSE f[i-1]
    BY <1>5, <1>7
<1>9. Rebuilds(s, n, f)
    BY <1>6, <1>7, <1>8 DEF Rebuilds
<1> QED
    BY <1>9

\* What rebuildSession makes of the log.
LEMMA RebuiltIs ==
    ASSUME log \in Seq(Entry), Len(log) <= MaxLog, NEW s
    PROVE  /\ Rebuilt(s) \in State
           /\ Rebuilt(s).seen = RefOf(log, s, Len(log))
           /\ Rebuilt(s).results = <<>>
           /\ ~Rebuilt(s).dirty => Rebuilt(s).results = Rebuilt(s).seen
<1> DEFINE n == Len(log)
<1>1. n \in Nat /\ n <= MaxLog /\ \A i \in 1..n : i \in Index
    BY ConstantsAssumption DEF Index
<1>2. newSessionState \in State
    BY DEF newSessionState, State
<1> DEFINE h == CHOOSE g : Rebuilds(s, n, g)
<1>11. Rebuilds(s, n, h)
    BY <1>1, RebuildExists
<1>12. Rebuilt(s) = h[n]
    BY DEF Rebuilt, Rebuilds
<1> HIDE DEF h, n
<1> DEFINE S == {i \in Nat : i <= n =>
                    /\ h[i] \in State /\ h[i].seen = RefOf(log, s, i) /\ h[i].results = <<>>
                    /\ ~h[i].dirty => h[i].results = h[i].seen}
<1>13. 0 \in S
    <2>1. h[0] = newSessionState
        BY <1>1, <1>11 DEF Rebuilds
    <2> QED
        BY <2>1, <1>2, RefZero DEF newSessionState
<1>14. ASSUME NEW i \in Nat, i \in S PROVE i + 1 \in S
    <2> SUFFICES ASSUME i + 1 <= n
                 PROVE  /\ h[i+1] \in State /\ h[i+1].seen = RefOf(log, s, i+1)
                        /\ h[i+1].results = <<>>
                        /\ ~h[i+1].dirty => h[i+1].results = h[i+1].seen
        OBVIOUS
    <2>1. /\ h[i] \in State /\ h[i].seen = RefOf(log, s, i) /\ h[i].results = <<>>
          /\ ~h[i].dirty => h[i].results = h[i].seen
        BY <1>1, <1>14
    <2>2. i + 1 \in 1..n /\ i + 1 \in 0..n /\ i + 1 # 0 /\ (i + 1) - 1 = i /\ i + 1 \in Index
        BY <1>1
    <2>3. h[i+1] = IF Member(s, i+1) THEN observeEntry(h[(i+1)-1], i+1) ELSE h[(i+1)-1]
        BY <1>11, <2>2 DEF Rebuilds
    <2>4. RefOf(log, s, i+1) = IF Counts(log, s, i + 1) THEN Append(RefOf(log, s, i), i + 1)
                               ELSE RefOf(log, s, i)
        BY RefNext
    <2> DEFINE st == h[i]
               j == i + 1
    <2>5. h[j] = IF Member(s, j) THEN observeEntry(st, j) ELSE st
        BY <2>2, <2>3
    <2>6. j \in Index /\ st \in State
        BY <2>1, <2>2
    <2>7. Member(s, j) => log[j].s = s
        BY DEF Member
    <2>8. Counts(log, s, j) => Member(s, j)
        BY DEF Member, Counts
    <2> HIDE DEF st, j
    <2>9. CASE Counts(log, s, j)
        <3>1. /\ h[j] = observeEntry(st, j) /\ h[j] \in State /\ h[j].seen = Append(st.seen, j)
              /\ h[j].dirty /\ h[j].results = st.results
            BY <2>5, <2>6, <2>7, <2>8, <2>9, ObserveTyped
        <3> QED
            BY <2>1, <2>4, <2>9, <3>1 DEF st, j
    <2>10. CASE ~Counts(log, s, j)
        <3>1. h[j] = st
            BY <2>5, <2>6, <2>7, <2>10, ObserveTyped
        <3> QED
            BY <2>1, <2>4, <2>10, <3>1 DEF st, j
    <2> QED
        BY <2>9, <2>10
<1> HIDE DEF S
<1>15. n \in S
    BY <1>1, <1>13, <1>14, SetInduction
<1> QED
    BY <1>1, <1>12, <1>15 DEF S, n

-----------------------------------------------------------------------------
(* Facts about the parts of the invariant, for any log.                    *)

\* The log only grows.
Grown(l1, l2) ==
    /\ l1 \in Seq(Entry) /\ l2 \in Seq(Entry) /\ Len(l1) <= Len(l2)
    /\ \A i \in 1..Len(l1) : l2[i] = l1[i]

LEMMA CountsGrown ==
    ASSUME NEW l1, NEW l2, Grown(l1, l2), NEW s, NEW i \in 1..Len(l1)
    PROVE  /\ Counts(l1, s, i) <=> Counts(l2, s, i)
           /\ l2[i] = l1[i] /\ i \in 1..Len(l2)
BY DEF Grown, Counts

LEMMA OfGrown ==
    ASSUME NEW l1, NEW l2, Grown(l1, l2), NEW s
    PROVE  /\ \A seq : Of(l1, s, seq) => Of(l2, s, seq)
           /\ \A st : StateOf(l1, s, st) => StateOf(l2, s, st)
<1>1. \A i \in 1..Len(l1) : (Counts(l1, s, i) <=> Counts(l2, s, i)) /\ i \in 1..Len(l2)
    BY CountsGrown
<1> QED
    BY <1>1 DEF Of, StateOf

LEMMA LinkedGrown ==
    ASSUME NEW l1, NEW l2, Grown(l1, l2), ReportsBack(l1), NEW seq,
           \A i \in ToSet(seq) : i \in 1..Len(l1), Linked(l1, seq)
    PROVE  Linked(l2, seq)
<1> SUFFICES ASSUME NEW i \in ToSet(seq), l2[i].kind = "report", l2[l2[i].ref].kind = "prescribe"
             PROVE  l2[i].ref \in ToSet(seq)
    BY DEF Linked
<1>1. i \in 1..Len(l1) /\ l2[i] = l1[i] /\ Len(l1) \in Nat
    BY DEF Grown
<1>2. l1[i].ref \in 1..(i-1)
    BY <1>1 DEF ReportsBack
<1>3. l1[i].ref \in 1..Len(l1)
    BY <1>1, <1>2
<1>4. l2[l1[i].ref] = l1[l1[i].ref]
    BY <1>3 DEF Grown
<1> QED
    BY <1>1, <1>4 DEF Linked

LEMMA RefGrownTo ==
    ASSUME NEW l1, NEW l2, Grown(l1, l2), NEW s, NEW n \in 0..Len(l1)
    PROVE  RefOf(l1, s, n) = RefOf(l2, s, n)
<1>1. n \in Nat /\ Len(l1) \in Nat /\ \A i \in 1..n : i \in 1..Len(l1)
    BY DEF Grown
<1>2. \A i \in 1..n : l1[i] = l2[i]
    BY <1>1 DEF Grown
<1> QED
    BY <1>1, <1>2, RefGrown

LEMMA SoundGrown ==
    ASSUME NEW l1, NEW l2, Grown(l1, l2), NEW w1, NEW w2, NEW kept \in BOOLEAN, NEW shown,
           NEW s, NEW seq, Sound(l1, w1, kept, shown, s, seq),
           \A i \in 1..Len(l1) : i \in w2 <=> i \in w1,
           \A i \in (Len(l1) + 1)..Len(l2) : Counts(l2, s, i) /\ l2[i].own => i \in w2
    PROVE  Sound(l2, w2, kept, shown, s, seq)
<1>0. Len(l1) \in Nat /\ Len(l2) \in Nat /\ Len(l1) <= Len(l2)
    BY DEF Grown
<1>1. seq \in Seq(Index) /\ Distinct(seq)
    BY DEF Sound
<1>2. ASSUME NEW i \in ToSet(seq)
      PROVE  i \in 1..Len(l2) /\ Counts(l2, s, i) /\ i \notin w2
    <2>1. i \in 1..Len(l1) /\ Counts(l1, s, i) /\ i \notin w1
        BY DEF Sound
    <2> QED
        BY <2>1, CountsGrown
<1>3. ASSUME kept, NEW i \in 1..Len(l2), Counts(l2, s, i), l2[i].own, i \notin w2
      PROVE  i \in ToSet(seq)
    <2>1. i \in 1..Len(l1)
        BY <1>0, <1>3
    <2>2. Counts(l1, s, i) /\ l1[i].own /\ i \notin w1
        BY <1>3, <2>1, CountsGrown
    <2> QED
        BY <1>3, <2>1, <2>2 DEF Sound
<1>4. shown \subseteq ToSet(seq)
    BY DEF Sound
<1>5. ASSUME kept, Mine(l2, s)
      PROVE  \E n \in 0..Len(l2) : /\ seq = RefOf(l2, s, n)
                                   /\ \A i \in (n + 1)..Len(l2) : Counts(l2, s, i) => i \in w2
    <2>1. Mine(l1, s)
        BY <1>0, <1>5 DEF Grown, Mine
    <2>2. PICK n \in 0..Len(l1) : /\ seq = RefOf(l1, s, n)
                                  /\ \A i \in (n + 1)..Len(l1) : Counts(l1, s, i) => i \in w1
        BY <1>5, <2>1 DEF Sound
    <2>3. n \in 0..Len(l2) /\ seq = RefOf(l2, s, n)
        BY <1>0, <2>2, RefGrownTo
    <2>4. ASSUME NEW i \in (n + 1)..Len(l2), Counts(l2, s, i) PROVE i \in w2
        <3>1. CASE i <= Len(l1)
            <4>1. i \in 1..Len(l1) /\ i \in (n + 1)..Len(l1)
                BY <1>0, <3>1
            <4>2. Counts(l1, s, i)
                BY <2>4, <4>1, CountsGrown
            <4> QED
                BY <2>2, <4>1, <4>2
        <3>2. CASE ~(i <= Len(l1))
            <4>1. i \in (Len(l1) + 1)..Len(l2) /\ i \in 1..Len(l2)
                BY <1>0, <3>2
            <4>2. l2[i].own
                BY <1>5, <2>4, <4>1 DEF Mine, Counts
            <4> QED
                BY <2>4, <4>1, <4>2
        <3> QED
            BY <3>1, <3>2
    <2> QED
        BY <2>3, <2>4
<1> QED
    BY <1>1, <1>2, <1>3, <1>4, <1>5 DEF Sound

LEMMA AnsweredGrown ==
    ASSUME NEW l1, NEW l2, Grown(l1, l2), ReportsBack(l1), NEW kept \in BOOLEAN, NEW s, NEW a,
           a.since \in Nat, Answered(l1, kept, s, a)
    PROVE  Answered(l2, kept, s, a)
<1>0. Len(l1) \in Nat /\ Len(l2) \in Nat /\ Len(l1) <= Len(l2) /\ a.since <= Len(l1)
    BY DEF Grown, Answered
<1>1. \A i \in ToSet(a.got) : i \in 1..Len(l1) /\ Counts(l1, s, i)
    BY DEF Answered
<1>2. \A i \in ToSet(a.got) : i \in 1..Len(l2) /\ Counts(l2, s, i)
    BY <1>1, CountsGrown
<1>3. Linked(l2, a.got)
    BY <1>1, LinkedGrown DEF Answered
<1>4. ASSUME kept, NEW i \in 1..a.since, Counts(l2, s, i), l2[i].own PROVE Once(a.got, i)
    <2>1. i \in 1..Len(l1)
        BY <1>0
    <2> QED
        BY <1>4, <2>1, CountsGrown DEF Answered
<1>5. ASSUME kept, Mine(l2, s)
      PROVE  \E n \in a.since..Len(l2) : a.got = RefOf(l2, s, n)
    <2>1. Mine(l1, s)
        BY <1>0, <1>5 DEF Grown, Mine
    <2>2. PICK n \in a.since..Len(l1) : a.got = RefOf(l1, s, n)
        BY <1>5, <2>1 DEF Answered
    <2>3. n \in 0..Len(l1) /\ n \in a.since..Len(l2)
        BY <1>0
    <2> QED
        BY <2>2, <2>3, RefGrownTo
<1> QED
    BY <1>0, <1>2, <1>3, <1>4, <1>5 DEF Answered

\* The one entry of the session that waits is observed.
LEMMA SoundObserved ==
    ASSUME NEW lg \in Seq(Entry), NEW w, NEW kept \in BOOLEAN, NEW shown, NEW s, NEW seq,
           NEW e \in 1..Len(lg), Len(lg) <= MaxLog, w = {e}, Counts(lg, s, e),
           Sound(lg, w, kept, shown, s, seq)
    PROVE  Sound(lg, {}, kept, shown, s, Append(seq, e))
<1>0. Len(lg) \in Nat /\ e \in Index /\ seq \in Seq(Index) /\ Distinct(seq)
    <2>1. Len(lg) \in Nat /\ MaxLog \in Nat
        BY ConstantsAssumption
    <2>2. e \in Index
        BY <2>1 DEF Index
    <2>3. seq \in Seq(Index) /\ Distinct(seq)
        BY DEF Sound
    <2> QED
        BY <2>1, <2>2, <2>3
<1>1. e \notin ToSet(seq)
    BY DEF Sound
<1>2. /\ ToSet(Append(seq, e)) = ToSet(seq) \cup {e}
      /\ Append(seq, e) \in Seq(Index)
      /\ Distinct(Append(seq, e))
    BY <1>0, <1>1, SetOfAppend
<1>3. \A i \in ToSet(Append(seq, e)) : i \in 1..Len(lg) /\ Counts(lg, s, i) /\ i \notin {}
    BY <1>2 DEF Sound
<1>4. shown \subseteq ToSet(Append(seq, e))
    BY <1>2 DEF Sound
<1>5. ASSUME kept, NEW i \in 1..Len(lg), Counts(lg, s, i), lg[i].own
      PROVE  i \in ToSet(Append(seq, e))
    BY <1>2, <1>5 DEF Sound
<1>6. ASSUME kept, Mine(lg, s)
      PROVE  \E n \in 0..Len(lg) : /\ Append(seq, e) = RefOf(lg, s, n)
                                   /\ \A i \in (n + 1)..Len(lg) : Counts(lg, s, i) => i \in {}
    <2>1. PICK n \in 0..Len(lg) : /\ seq = RefOf(lg, s, n)
                                  /\ \A i \in (n + 1)..Len(lg) : Counts(lg, s, i) => i \in w
        BY <1>6 DEF Sound
    <2>2. ToSet(seq) = {i \in 1..n : Counts(lg, s, i)}
        BY <1>0, <2>1, RefSet
    <2>3. e - 1 \in Nat /\ n <= e - 1 /\ (e - 1) + 1 = e /\ n \in Nat
        BY <1>0, <1>1, <2>2
    <2>4. \A i \in (n + 1)..(e - 1) : ~Counts(lg, s, i)
        BY <1>0, <2>1, <2>3
    <2>5. RefOf(lg, s, e - 1) = seq
        BY <2>1, <2>3, <2>4, RefSame
    <2>6. RefOf(lg, s, (e - 1) + 1) = IF Counts(lg, s, (e - 1) + 1)
                                      THEN Append(RefOf(lg, s, e - 1), (e - 1) + 1)
                                      ELSE RefOf(lg, s, e - 1)
        BY <2>3, RefNext
    <2>7. RefOf(lg, s, e) = Append(seq, e)
        BY <2>3, <2>5, <2>6
    <2>8. \A i \in (e + 1)..Len(lg) : ~Counts(lg, s, i)
        BY <1>0, <2>1, <2>3
    <2> QED
        BY <2>7, <2>8
<1> QED
    BY <1>2, <1>3, <1>4, <1>5, <1>6 DEF Sound

\* A scan of the log gives a sound state.
LEMMA SoundScanned ==
    ASSUME NEW lg \in Seq(Entry), Len(lg) <= MaxLog, NEW kept \in BOOLEAN, NEW shown, NEW s,
           RefOf(lg, s, Len(lg)) \in Seq(Index),
           \A i \in shown : i \in 1..Len(lg) /\ Counts(lg, s, i)
    PROVE  Sound(lg, {}, kept, shown, s, RefOf(lg, s, Len(lg)))
<1>0. Len(lg) \in Nat /\ Len(lg) \in 0..Len(lg) /\ \A i \in (Len(lg) + 1)..Len(lg) : FALSE
    OBVIOUS
<1>1. /\ ToSet(RefOf(lg, s, Len(lg))) = {i \in 1..Len(lg) : Counts(lg, s, i)}
      /\ Distinct(RefOf(lg, s, Len(lg)))
    BY <1>0, RefSet
<1> QED
    BY <1>0, <1>1 DEF Sound

\* A sound state makes a good answer, and goes on to cover what it answered.
LEMMA SoundAnswer ==
    ASSUME NEW lg \in Seq(Entry), NEW kept \in BOOLEAN, NEW shown, NEW s, NEW seq,
           Sound(lg, {}, kept, shown, s, seq), Linked(lg, seq),
           NEW a, a.got = seq, a.since \in Nat, a.since <= Len(lg)
    PROVE  /\ Answered(lg, kept, s, a)
           /\ Sound(lg, {}, kept, ToSet(seq), s, seq)
<1>0. Len(lg) \in Nat
    OBVIOUS
<1>1. \A i \in ToSet(seq) : i \in 1..Len(lg) /\ Counts(lg, s, i)
    BY DEF Sound
<1>2. ASSUME kept, NEW i \in 1..a.since, Counts(lg, s, i), lg[i].own PROVE Once(seq, i)
    <2>1. i \in ToSet(seq)
        BY <1>0, <1>2 DEF Sound
    <2>2. seq \in Seq(Index) /\ Distinct(seq)
        BY DEF Sound
    <2> QED
        BY <2>1, <2>2, OnceDistinct
<1>3. ASSUME kept, Mine(lg, s)
      PROVE  \E n \in a.since..Len(lg) : seq = RefOf(lg, s, n)
    <2>1. PICK n \in 0..Len(lg) : /\ seq = RefOf(lg, s, n)
                                  /\ \A i \in (n + 1)..Len(lg) : ~Counts(lg, s, i)
        BY <1>3 DEF Sound
    <2>2. RefOf(lg, s, Len(lg)) = RefOf(lg, s, n)
        BY <1>0, <2>1, RefSame
    <2>3. Len(lg) \in a.since..Len(lg)
        BY <1>0
    <2> QED
        BY <2>1, <2>2, <2>3
<1>4. Answered(lg, kept, s, a)
    BY <1>1, <1>2, <1>3 DEF Answered
<1>5. Sound(lg, {}, kept, ToSet(seq), s, seq)
    BY DEF Sound
<1> QED
    BY <1>4, <1>5

-----------------------------------------------------------------------------
(* Types.                                                                  *)

LEMMA Constants == MaxLog \in Nat /\ MaxRequests \in Nat /\ NoReq \in RequestData
                   /\ newSessionState \in State
<1>1. (CHOOSE s \in Sessions : TRUE) \in Sessions
    BY ConstantsAssumption
<1>2. newSessionState \in State
    BY DEF newSessionState, State
<1> QED
    BY <1>1, <1>2, ConstantsAssumption DEF NoReq, RequestData

LEMMA InitTypes == Init => Types
<1> SUFFICES ASSUME Init PROVE Types
    OBVIOUS
<1>1. NoReq.entry = 0 /\ NoReq.since = 0 /\ NoReq.ptr = 0
    BY DEF NoReq
<1>3. answers \in [Sessions -> AnswerData]
    BY DEF Init, AnswerData, NoAnswer
<1>4. log \in Seq(Entry) /\ Len(log) <= MaxLog /\ objs \in Seq(State) /\ Len(objs) = 0
    BY Constants DEF Init
<1>5. req \in [Threads -> RequestData] /\ \A t \in Threads : req[t] = NoReq
    BY Constants DEF Init
<1>6. \A t \in Threads : /\ req[t].entry <= Len(log) /\ req[t].since <= Len(log)
                         /\ req[t].ptr <= Len(objs)
    BY <1>1, <1>5 DEF Init
<1>7. sessions \in [Sessions -> 0..Len(objs)]
    BY <1>4 DEF Init
<1>8. pc \in [Threads -> Steps]
    BY DEF Init, Steps
<1>9. requests \in 0..MaxRequests
    BY Constants DEF Init
<1>10. manifest = Unknown
    BY DEF Init
<1>11. restarted \in BOOLEAN /\ overlapped \subseteq Sessions
    BY DEF Init
<1> QED
    BY <1>3, <1>4, <1>5, <1>6, <1>7, <1>8, <1>9, <1>10, <1>11 DEF Types

LEMMA CurrentTyped == Types => Current = Unknown \/ Current \in Nat \X Index
<1> SUFFICES ASSUME Types, log # <<>> PROVE <<Len(log), Len(log)>> \in Nat \X Index
    BY DEF Current
<1>1. Len(log) \in Nat /\ Len(log) # 0 /\ Len(log) <= MaxLog /\ MaxLog \in Nat
    BY Constants DEF Types
<1> QED
    BY <1>1 DEF Index

LEMMA EntriesTyped ==
    Types => \A s \in Sessions, own \in BOOLEAN : \A e \in Entries(s, own) :
                /\ e \in Entry /\ e.s = s /\ e.own = own /\ e.kind # "failure"
                /\ e.kind = "report" => e.ref \in 1..Len(log) /\ log[e.ref].s = s
<1> SUFFICES ASSUME Types, NEW s \in Sessions, NEW own \in BOOLEAN, NEW e \in Entries(s, own)
             PROVE  /\ e \in Entry /\ e.s = s /\ e.own = own /\ e.kind # "failure"
                    /\ e.kind = "report" => e.ref \in 1..Len(log) /\ log[e.ref].s = s
    OBVIOUS
<1>1. CASE e = [s |-> s, kind |-> "prescribe", ref |-> 0, own |-> own]
    BY <1>1 DEF Entry
<1>2. ASSUME NEW i \in {j \in 1..Len(log) : log[j].s = s},
             e = [s |-> s, kind |-> "report", ref |-> i, own |-> own]
      PROVE  e \in Entry /\ e.s = s /\ e.own = own /\ e.kind = "report" /\ e.ref = i
             /\ i \in 1..Len(log) /\ log[i].s = s
    <2>1. /\ i \in 1..Len(log) /\ Len(log) \in Nat /\ Len(log) <= MaxLog /\ MaxLog \in Nat
          /\ log[i].s = s
        BY Constants DEF Types
    <2>2. i \in Index
        BY <2>1 DEF Index
    <2> QED
        BY <1>2, <2>1, <2>2 DEF Entry
<1> QED
    BY <1>1, <1>2 DEF Entries

\* An appended entry.
LEMMA LogAppended ==
    ASSUME Types, Len(log) < MaxLog, NEW e \in Entry, log' = Append(log, e)
    PROVE  /\ log' \in Seq(Entry) /\ Len(log') = Len(log) + 1 /\ Len(log') <= MaxLog
           /\ Len(log) \in Nat
           /\ log'[Len(log) + 1] = e
           /\ \A i \in 1..Len(log) : log'[i] = log[i]
           /\ Len(log) + 1 \in Index
           /\ Grown(log, log')
<1>1. log \in Seq(Entry) /\ MaxLog \in Nat /\ Len(log) \in Nat
    BY Constants DEF Types
<1>2. log' \in Seq(Entry) /\ Len(log') = Len(log) + 1 /\ log'[Len(log) + 1] = e
      /\ \A i \in 1..Len(log) : log'[i] = log[i]
    BY <1>1
<1>3. Len(log) + 1 \in Index
    BY <1>1 DEF Index
<1> QED
    BY <1>1, <1>2, <1>3 DEF Grown

LEMMA ObjsAppended ==
    ASSUME objs \in Seq(State), NEW st \in State, objs' = Append(objs, st)
    PROVE  /\ objs' \in Seq(State) /\ Len(objs') = Len(objs) + 1 /\ Len(objs) \in Nat
           /\ objs'[Len(objs) + 1] = st
           /\ \A p \in 1..Len(objs) : objs'[p] = objs[p]
OBVIOUS

LEMMA ObjsChanged ==
    ASSUME objs \in Seq(State), NEW p \in 1..Len(objs), NEW st \in State,
           objs' = [objs EXCEPT ![p] = st]
    PROVE  /\ objs' \in Seq(State) /\ Len(objs') = Len(objs) /\ Len(objs) \in Nat
           /\ objs'[p] = st
           /\ \A q \in 1..Len(objs) : q # p => objs'[q] = objs[q]
OBVIOUS

\* What a request changes of itself.
LEMMA RequestTyped ==
    ASSUME req \in [Threads -> RequestData], NEW t \in Threads, NEW r \in RequestData,
           req' = [req EXCEPT ![t] = r]
    PROVE  /\ req' \in [Threads -> RequestData] /\ req'[t] = r
           /\ \A u \in Threads : u # t => req'[u] = req[u]
OBVIOUS

-----------------------------------------------------------------------------
(* What a request leaves alone.                                            *)

\* Only the thread that handles a session has an entry of it to observe.
LEMMA WaitsOf ==
    ASSUME NEW t \in Threads, NEW s, Only(t, s)
    PROVE  Waits(s) = IF pc[t] = "observe" /\ req[t].s = s THEN {req[t].entry} ELSE {}
<1>1. \A u \in Threads : pc[u] = "observe" /\ req[u].s = s => u = t
    BY DEF Only
<1> QED
    BY <1>1 DEF Waits

LEMMA WaitsFrame ==
    ASSUME NEW t \in Threads, NEW s, NEW r, r # s,
           pc[t] # "idle" => req[t].s = s, pc'[t] # "idle" => req'[t].s = s,
           \A u \in Threads : u # t => pc'[u] = pc[u] /\ req'[u] = req[u]
    PROVE  Waits(r)' = Waits(r)
<1>1. \A u \in Threads : pc[u] = "observe" /\ req[u].s = r <=> pc'[u] = "observe" /\ req'[u].s = r
    OBVIOUS
<1>2. \A u \in Threads : pc[u] = "observe" /\ req[u].s = r => req'[u].entry = req[u].entry
    OBVIOUS
<1> QED
    BY <1>1, <1>2 DEF Waits

\* No entry of session r that the process owns is new.
NoneOwn(r) == \A i \in (Len(log) + 1)..Len(log') : Counts(log', r, i) => ~log'[i].own
Untouched(r) ==
    /\ Grown(log, log') /\ NoneOwn(r) /\ restarted' = restarted /\ Waits(r)' = Waits(r)
    /\ sessions'[r] = sessions[r] /\ answers'[r] = answers[r]
    /\ sessions[r] # 0 => objs'[sessions[r]] = objs[sessions[r]]

LEMMA SoundFrame ==
    ASSUME Types, NEW r, Untouched(r), NEW seq, SoundFor(r, seq)
    PROVE  Sound(log', Waits(r)', ~restarted', ToSet(answers'[r].got), r, seq)
<1> DEFINE kept == ~restarted
           shown == ToSet(answers[r].got)
           w == Waits(r)
<1>1. Grown(log, log') /\ kept \in BOOLEAN /\ Sound(log, w, kept, shown, r, seq)
    BY DEF Types, Untouched, SoundFor
<1>2. \A i \in 1..Len(log) : i \in w <=> i \in w
    OBVIOUS
<1>4. \A i \in (Len(log) + 1)..Len(log') : Counts(log', r, i) /\ log'[i].own => i \in w
    BY DEF Untouched, NoneOwn
<1>5. (~restarted') = kept /\ ToSet(answers'[r].got) = shown /\ Waits(r)' = w
    BY DEF Untouched
<1> HIDE DEF kept, shown, w
<1>6. Sound(log', w, kept, shown, r, seq)
    BY <1>1, <1>2, <1>4, SoundGrown
<1> QED
    BY <1>5, <1>6

LEMMA SessionFrame ==
    ASSUME IInv, NEW r \in Sessions \ overlapped, Untouched(r)
    PROVE  SessionSound(r)' /\ AnswerSound(r)'
<1>1. Types /\ ReportsBack(log) /\ SessionSound(r) /\ AnswerSound(r)
    BY DEF IInv
<1>2. Grown(log, log') /\ restarted \in BOOLEAN /\ restarted' = restarted
    BY <1>1 DEF Untouched, Types
<1>3. SeenOf(r)' = SeenOf(r)
    BY DEF SeenOf, Untouched
<1>4. Sound(log', Waits(r)', ~restarted', ToSet(answers'[r].got), r, SeenOf(r))
    BY <1>1, SoundFrame DEF SessionSound
<1>5. SoundFor(r, SeenOf(r))'
    BY <1>3, <1>4 DEF SoundFor
<1>6. ASSUME sessions'[r] # 0 PROVE Honest(log', objs'[sessions'[r]])
    <2> DEFINE st == objs[sessions[r]]
    <2>1. sessions[r] # 0 /\ objs'[sessions'[r]] = st
        BY <1>6 DEF Untouched
    <2>2. Honest(log, st) /\ st.seen = SeenOf(r)
        BY <1>1, <2>1 DEF SessionSound, SeenOf
    <2>3. \A i \in ToSet(st.seen) : i \in 1..Len(log)
        BY <1>1, <2>2 DEF SessionSound, SoundFor, Sound
    <2> HIDE DEF st
    <2>4. Honest(log', st)
        BY <1>1, <1>2, <2>2, <2>3, LinkedGrown DEF Honest
    <2> QED
        BY <2>1, <2>4
<1>7. answers[r].since \in Nat /\ answers'[r] = answers[r]
    BY <1>1 DEF Types, Untouched, AnswerData
<1>8. Answered(log', ~restarted, r, answers[r])
    <2> DEFINE a == answers[r]
               kept == ~restarted
    <2>1. a.since \in Nat /\ Answered(log, kept, r, a) /\ kept \in BOOLEAN
        BY <1>1, <1>2, <1>7 DEF AnswerSound
    <2> HIDE DEF a, kept
    <2>2. Answered(log', kept, r, a)
        BY <1>1, <1>2, <2>1, AnsweredGrown
    <2> QED
        BY <2>2 DEF a, kept
<1>9. AnswerSound(r)'
    BY <1>2, <1>7, <1>8 DEF AnswerSound
<1> QED
    BY <1>5, <1>6, <1>9 DEF SessionSound

LEMMA RequestFrame ==
    ASSUME IInv, NEW u \in Threads, pc'[u] = pc[u], req'[u] = req[u], Grown(log, log'),
           pc[u] # "idle", req[u].s \notin overlapped, Untouched(req[u].s)
    PROVE  RequestSound(u)'
<1> DEFINE r == req[u].s
<1>1. Types /\ ReportsBack(log) /\ RequestSound(u) /\ r \in Sessions
    BY DEF IInv, Types, RequestData
<1>2. ASSUME pc'[u] = "install"
      PROVE  /\ Sound(log', Waits(r)', ~restarted', ToSet(answers'[r].got), r, req'[u].found.seen)
             /\ Honest(log', req'[u].found)
             /\ Linked(log', req'[u].found.seen)
    <2> DEFINE st == req[u].found
    <2>1. SoundFor(r, st.seen) /\ Honest(log, st) /\ Linked(log, st.seen) /\ Untouched(r)
        BY <1>1, <1>2 DEF RequestSound
    <2>2. \A i \in ToSet(st.seen) : i \in 1..Len(log)
        BY <2>1 DEF SoundFor, Sound
    <2>3. Sound(log', Waits(r)', ~restarted', ToSet(answers'[r].got), r, st.seen)
        BY <1>1, <2>1, SoundFrame
    <2>4. Linked(log', st.seen)
        BY <1>1, <2>1, <2>2, LinkedGrown
    <2>5. Honest(log', st)
        BY <2>1, <2>4 DEF Honest
    <2> QED
        BY <2>3, <2>4, <2>5
<1>3. ASSUME pc'[u] \in {"compute", "store"}
      PROVE  /\ req'[u].ptr = sessions'[req'[u].s] /\ req'[u].ptr # 0
             /\ objs'[req'[u].ptr] = objs[req[u].ptr]
             /\ Linked(log', objs'[req'[u].ptr].seen)
    <2>1. /\ req[u].ptr = sessions[r] /\ req[u].ptr # 0
          /\ Linked(log, objs[req[u].ptr].seen) /\ Untouched(r)
        BY <1>1, <1>3 DEF RequestSound
    <2>2. sessions'[r] = sessions[r] /\ objs'[req[u].ptr] = objs[req[u].ptr]
        BY <2>1 DEF Untouched
    <2>3. objs[req[u].ptr].seen = SeenOf(r)
        BY <2>1 DEF SeenOf
    <2>4. \A i \in ToSet(objs[req[u].ptr].seen) : i \in 1..Len(log)
        BY <1>1, <2>3 DEF IInv, SessionSound, SoundFor, Sound
    <2> DEFINE seq == objs[req[u].ptr].seen
    <2>5. Linked(log, seq) /\ \A i \in ToSet(seq) : i \in 1..Len(log)
        BY <2>1, <2>4
    <2> HIDE DEF seq
    <2>6. Linked(log', seq)
        BY <1>1, <2>5, LinkedGrown
    <2> QED
        BY <2>1, <2>2, <2>6 DEF seq
<1>4. pc'[u] = "store" => req'[u].found.results = objs'[req'[u].ptr].seen
    BY <1>1, <1>3 DEF RequestSound
<1> QED
    BY <1>2, <1>3, <1>4 DEF RequestSound, SoundFor

LEMMA CarriesFrame ==
    ASSUME IInv, NEW u \in Threads, pc'[u] = pc[u], req'[u] = req[u], Grown(log, log')
    PROVE  Carries(u)'
<1>1. Carries(u)
    BY DEF IInv
<1>2. ASSUME pc'[u] = "observe"
      PROVE  /\ req'[u].entry \in 1..Len(log') /\ Counts(log', req'[u].s, req'[u].entry)
             /\ log'[req'[u].entry].own
    <2> DEFINE r == req[u].s
               e == req[u].entry
    <2>1. e \in 1..Len(log) /\ Counts(log, r, e) /\ log[e].own
        BY <1>1, <1>2 DEF Carries
    <2> HIDE DEF r, e
    <2>2. Counts(log', r, e) /\ log'[e] = log[e] /\ e \in 1..Len(log')
        BY <2>1, CountsGrown
    <2> QED
        BY <2>1, <2>2 DEF r, e
<1>3. ASSUME pc'[u] \in {"install", "store"} PROVE StateOf(log', req'[u].s, req'[u].found)
    <2>1. StateOf(log, req[u].s, req[u].found)
        BY <1>1, <1>3 DEF Carries
    <2> QED
        BY <2>1, OfGrown
<1> QED
    BY <1>2, <1>3 DEF Carries

\* States are added for a session, and changed, by the requests of that session.
LEMMA OwnedStep ==
    ASSUME Types, NEW owner, Owned(owner), NEW s \in Sessions, Grown(log, log'),
           Len(objs') \in Nat, Len(objs) <= Len(objs'),
           \A p \in 1..Len(objs) :
              objs'[p] = objs[p] \/ (owner[p] = s /\ StateOf(log', s, objs'[p])),
           \A p \in (Len(objs) + 1)..Len(objs') : StateOf(log', s, objs'[p]),
           \A r \in Sessions : r # s => sessions'[r] = sessions[r],
           sessions'[s] = sessions[s] \/ (/\ sessions'[s] \in 1..Len(objs')
                                          /\ sessions'[s] <= Len(objs) => owner[sessions'[s]] = s),
           \A u \in Threads : pc'[u] \in {"compute", "store"} =>
              \/ pc[u] \in {"compute", "store"} /\ req'[u].s = req[u].s /\ req'[u].ptr = req[u].ptr
              \/ /\ req'[u].s = s /\ req'[u].ptr \in 1..Len(objs')
                 /\ req'[u].ptr <= Len(objs) => owner[req'[u].ptr] = s
    PROVE  \E o : Owned(o)'
<1> DEFINE n == Len(objs)
           m == Len(objs')
           new == [p \in 1..m |-> IF p <= n THEN owner[p] ELSE s]
<1>1. n \in Nat /\ m \in Nat /\ n <= m
    BY DEF Types
<1>2. owner \in [1..n -> Sessions]
    BY DEF Owned
<1>3. PICK o : /\ o \in [1..m -> Sessions]
               /\ \A p \in 1..n : o[p] = owner[p] /\ p \in 1..m
               /\ \A p \in 1..m : ~(p <= n) => o[p] = s /\ p \in (n + 1)..m
               /\ \A p \in 1..m : p <= n => p \in 1..n
    <2> HIDE DEF n, m
    <2>1. /\ new \in [1..m -> Sessions]
          /\ \A p \in 1..n : new[p] = owner[p] /\ p \in 1..m
          /\ \A p \in 1..m : ~(p <= n) => new[p] = s /\ p \in (n + 1)..m
          /\ \A p \in 1..m : p <= n => p \in 1..n
        BY <1>1, <1>2
    <2> QED
        BY <2>1
<1>4. \A p \in 1..n : StateOf(log', owner[p], objs[p])
    <2>1. \A p \in 1..n : StateOf(log, owner[p], objs[p])
        BY DEF Owned
    <2> QED
        BY <2>1, OfGrown
<1> HIDE DEF new, n, m
<1>5. ASSUME NEW p \in 1..m PROVE StateOf(log', o[p], objs'[p])
    <2>1. CASE p <= n
        BY <1>3, <1>4, <2>1 DEF n
    <2>2. CASE ~(p <= n)
        BY <1>3, <2>2 DEF n, m
    <2> QED
        BY <2>1, <2>2
<1>6. ASSUME NEW r \in Sessions, sessions'[r] # 0 PROVE o[sessions'[r]] = r
    <2>1. CASE sessions'[r] = sessions[r]
        <3>1. sessions[r] \in 1..n /\ owner[sessions[r]] = r
            BY <1>1, <1>6, <2>1 DEF Types, Owned, n
        <3> QED
            BY <1>3, <2>1, <3>1
    <2>2. CASE r = s /\ sessions'[r] # sessions[r]
        BY <1>3, <2>2 DEF n, m
    <2> QED
        BY <2>1, <2>2
<1>7. ASSUME NEW u \in Threads, pc'[u] \in {"compute", "store"}
      PROVE  req'[u].ptr # 0 /\ o[req'[u].ptr] = req'[u].s
    <2>1. CASE pc[u] \in {"compute", "store"} /\ req'[u].s = req[u].s /\ req'[u].ptr = req[u].ptr
        <3>1. /\ req[u].ptr \in Nat /\ req[u].ptr <= n /\ req[u].ptr # 0
              /\ owner[req[u].ptr] = req[u].s
            BY <2>1 DEF Types, RequestData, Owned, n
        <3>2. req[u].ptr \in 1..n
            BY <1>1, <3>1
        <3> QED
            BY <1>3, <2>1, <3>1, <3>2
    <2>2. CASE /\ req'[u].s = s /\ req'[u].ptr \in 1..m
               /\ req'[u].ptr <= n => owner[req'[u].ptr] = s
        BY <1>1, <1>3, <2>2
    <2>3. \/ pc[u] \in {"compute", "store"} /\ req'[u].s = req[u].s /\ req'[u].ptr = req[u].ptr
          \/ /\ req'[u].s = s /\ req'[u].ptr \in 1..m
             /\ req'[u].ptr <= n => owner[req'[u].ptr] = s
        BY <1>7 DEF n, m
    <2> QED
        BY <2>1, <2>2, <2>3
<1>8. Owned(o)'
    BY <1>3, <1>5, <1>6, <1>7 DEF Owned, m
<1> QED
    BY <1>8

LEMMA OwnedSame ==
    ASSUME IInv, Grown(log, log'), UNCHANGED <<objs, sessions>>,
           \A u \in Threads : pc'[u] \in {"compute", "store"} =>
              \/ pc[u] \in {"compute", "store"} /\ req'[u].s = req[u].s /\ req'[u].ptr = req[u].ptr
              \/ /\ req'[u].s \in Sessions /\ req'[u].ptr # 0
                 /\ req'[u].ptr = sessions[req'[u].s]
    PROVE  \E o : Owned(o)'
<1>1. Types /\ Len(objs) \in Nat
    BY DEF IInv, Types
<1>2. PICK owner : Owned(owner)
    BY DEF IInv
<1>3. \A p \in 1..Len(objs) : StateOf(log', owner[p], objs[p])
    <2>1. \A p \in 1..Len(objs) : StateOf(log, owner[p], objs[p])
        BY <1>2 DEF Owned
    <2> QED
        BY <2>1, OfGrown
<1>4. ASSUME NEW u \in Threads, pc'[u] \in {"compute", "store"}
      PROVE  req'[u].ptr # 0 /\ owner[req'[u].ptr] = req'[u].s
    <2>1. CASE pc[u] \in {"compute", "store"} /\ req'[u].s = req[u].s /\ req'[u].ptr = req[u].ptr
        BY <1>2, <2>1 DEF Owned
    <2>2. CASE req'[u].s \in Sessions /\ req'[u].ptr # 0 /\ req'[u].ptr = sessions[req'[u].s]
        BY <1>2, <2>2 DEF Owned
    <2> QED
        BY <1>4, <2>1, <2>2
<1>5. Owned(owner)'
    BY <1>2, <1>3, <1>4 DEF Owned
<1> QED
    BY <1>5

\* A step of thread t for session s is judged by what it does to the two.
Acts(t, s) ==
    /\ s \in Sessions
    /\ pc[t] # "idle" => req[t].s = s
    /\ pc'[t] # "idle" => req'[t].s = s
    /\ \A u \in Threads : u # t => pc'[u] = pc[u] /\ req'[u] = req[u]
    /\ Grown(log, log')
    /\ restarted' = restarted
    /\ overlapped \subseteq overlapped' /\ overlapped' \subseteq overlapped \cup {s}
    /\ s \notin overlapped' => Only(t, s)
    /\ \A r \in Sessions : r # s => /\ NoneOwn(r)
                                    /\ sessions'[r] = sessions[r] /\ answers'[r] = answers[r]
                                    /\ sessions[r] # 0 => objs'[sessions[r]] = objs[sessions[r]]

LEMMA Step ==
    ASSUME IInv, NEW t \in Threads, NEW s \in Sessions, Acts(t, s),
           Types', ReportsBack(log'), \E owner : Owned(owner)', AnswerOwn(s)', Carries(t)',
           s \notin overlapped' => SessionSound(s)' /\ AnswerSound(s)' /\ RequestSound(t)'
    PROVE  IInv'
<1>0. /\ overlapped \subseteq overlapped' /\ Grown(log, log')
      /\ \A u \in Threads : u # t => pc'[u] = pc[u] /\ req'[u] = req[u]
    BY DEF Acts
<1>1. ASSUME NEW r \in Sessions, r # s PROVE Untouched(r)
    <2>1. Waits(r)' = Waits(r)
      <3>1. /\ pc[t] # "idle" => req[t].s = s
            /\ pc'[t] # "idle" => req'[t].s = s
            /\ \A u \in Threads : u # t => pc'[u] = pc[u] /\ req'[u] = req[u]
        BY DEF Acts
      <3> QED
        BY <1>1, <3>1, WaitsFrame
    <2> QED
        BY <1>1, <2>1 DEF Acts, Untouched
<1>2. ASSUME NEW r \in Sessions \ overlapped' PROVE SessionSound(r)' /\ AnswerSound(r)'
    BY <1>0, <1>1, SessionFrame
<1>3. ASSUME NEW r \in Sessions PROVE AnswerOwn(r)'
    <2>1. CASE r = s
        BY <2>1
    <2>2. CASE r # s
        <3>1. Of(log, r, answers[r].got) /\ answers'[r] = answers[r]
            BY <2>2 DEF IInv, AnswerOwn, Acts
        <3> QED
            BY <1>0, <3>1, OfGrown DEF AnswerOwn
    <2> QED
        BY <2>1, <2>2
<1>4. ASSUME NEW u \in Threads PROVE Carries(u)'
    BY <1>0, CarriesFrame
<1>5. ASSUME NEW u \in Threads, pc'[u] # "idle", req'[u].s \notin overlapped'
      PROVE  Only(u, req[u].s)' /\ RequestSound(u)'
    <2>1. CASE u = t
        <3>1. req'[u].s = s /\ Only(t, s)
            BY <1>5, <2>1 DEF Acts
        <3>2. \A v \in Threads : v # u /\ pc'[v] # "idle" => req'[v].s # req'[u].s
            BY <1>0, <2>1, <3>1 DEF Only
        <3>3. RequestSound(u)'
            BY <1>5, <2>1, <3>1
        <3> QED
            BY <3>2, <3>3 DEF Only
    <2>2. CASE u # t
        <3>1. pc'[u] = pc[u] /\ req'[u] = req[u] /\ req[u].s \notin overlapped
            BY <1>0, <1>5, <2>2
        <3>2. Only(u, req[u].s) /\ req[u].s \in Sessions
            BY <1>5, <3>1 DEF IInv, Types, RequestData
        <3>3. req[u].s # s
            BY <1>5, <2>2, <3>1 DEF Acts, Only
        <3>4. RequestSound(u)'
            BY <1>0, <1>1, <1>5, <3>1, <3>2, <3>3, RequestFrame
        <3>5. ASSUME NEW v \in Threads, v # u, pc'[v] # "idle" PROVE req'[v].s # req'[u].s
            <4>1. CASE v = t
                BY <3>1, <3>3, <3>5, <4>1 DEF Acts
            <4>2. CASE v # t
                BY <1>0, <3>1, <3>2, <3>5, <4>2 DEF Only
            <4> QED
                BY <4>1, <4>2
        <3> QED
            BY <3>4, <3>5 DEF Only
    <2> QED
        BY <2>1, <2>2
<1>6. \A u \in Threads : pc'[u] # "idle" /\ req'[u].s \notin overlapped' =>
                            Only(u, req[u].s)' /\ RequestSound(u)'
    BY <1>5
<1>7. /\ \A r \in Sessions : AnswerOwn(r)'
      /\ \A u \in Threads : Carries(u)'
      /\ \A r \in Sessions \ overlapped' : SessionSound(r)' /\ AnswerSound(r)'
    BY <1>2, <1>3, <1>4
<1> QED
    BY <1>6, <1>7 DEF IInv

LEMMA GrownSame == ASSUME Types, log' = log PROVE Grown(log, log') /\ \A r : NoneOwn(r)
<1>1. Len(log) \in Nat
    BY DEF Types
<1> QED
    BY <1>1 DEF Types, Grown, NoneOwn

\* Where there is no entry to observe: the other steps of a request.
LEMMA NoWait ==
    ASSUME NEW t \in Threads, NEW s, Only(t, s), pc[t] = "observe" => req[t].s # s
    PROVE  Waits(s) = {}
BY WaitsOf

LEMMA WaitsAfter ==
    ASSUME NEW t \in Threads, NEW s \in Sessions, Acts(t, s), s \notin overlapped'
    PROVE  Waits(s)' = IF pc'[t] = "observe" THEN {req'[t].entry} ELSE {}
<1>1. ASSUME NEW u \in Threads, u # t PROVE ~(pc'[u] = "observe" /\ req'[u].s = s)
    BY <1>1 DEF Acts, Only
<1>2. pc'[t] = "observe" => req'[t].s = s
    BY DEF Acts
<1> QED
    BY <1>1, <1>2 DEF Waits

\* A step that changes only the request and the manifest.
LEMMA LocalStep ==
    ASSUME IInv, NEW t \in Threads, NEW s \in Sessions, NEW step \in Steps,
           NEW r \in RequestData,
           pc' = [pc EXCEPT ![t] = step], req' = [req EXCEPT ![t] = r],
           pc[t] # "observe", step # "observe", pc[t] # "idle" => req[t].s = s,
           step # "idle" => r.s = s,
           r.entry <= Len(log), r.ptr <= Len(objs), r.since <= Len(log),
           step \in {"install", "store"} => StateOf(log, s, r.found),
           step \in {"compute", "store"} => pc[t] \in {"compute", "store"} /\ r.ptr = req[t].ptr,
           overlapped \subseteq overlapped', overlapped' \subseteq overlapped \cup {s},
           s \notin overlapped' =>
              /\ Only(t, s)
              /\ step = "install" => /\ SoundFor(s, r.found.seen) /\ Honest(log, r.found)
                                     /\ Linked(log, r.found.seen)
              /\ step \in {"compute", "store"} => /\ r.ptr = sessions[s] /\ r.ptr # 0
                                                  /\ Linked(log, objs[r.ptr].seen)
              /\ step = "store" => r.found.results = objs[r.ptr].seen,
           manifest' = manifest \/ manifest' = Current, requests' \in 0..MaxRequests,
           UNCHANGED <<log, objs, sessions, answers, restarted>>
    PROVE  IInv'
<1>0. Types /\ ReportsBack(log)
    BY DEF IInv
<1>1. /\ pc' \in [Threads -> Steps] /\ pc'[t] = step
      /\ \A u \in Threads : u # t => pc'[u] = pc[u]
    BY <1>0 DEF Types, Steps
<1>2. /\ req' \in [Threads -> RequestData] /\ req'[t] = r
      /\ \A u \in Threads : u # t => req'[u] = req[u]
    BY <1>0, RequestTyped DEF Types
<1>3. \A u \in Threads : /\ req'[u].entry <= Len(log) /\ req'[u].since <= Len(log)
                         /\ req'[u].ptr <= Len(objs)
    BY <1>0, <1>2 DEF Types
<1>4. manifest' = Unknown \/ manifest' \in Nat \X Index
    BY <1>0, CurrentTyped DEF Types
<1>5. Types'
    <2>1. overlapped' \subseteq Sessions
        BY <1>0 DEF Types
    <2> QED
        BY <1>0, <1>1, <1>2, <1>3, <1>4, <2>1 DEF Types, Steps, Unknown
<1>6. Grown(log, log') /\ \A q : NoneOwn(q)
    BY <1>0, GrownSame
<1>7. Acts(t, s)
    BY <1>1, <1>2, <1>6 DEF Acts
<1>8. ASSUME s \notin overlapped'
      PROVE  SessionSound(s)' /\ AnswerSound(s)' /\ RequestSound(t)'
    <2>1. Waits(s) = {} /\ Waits(s)' = {}
        BY <1>1, <1>7, <1>8, NoWait, WaitsAfter
    <2>2. Untouched(s)
        BY <1>6, <2>1 DEF Untouched
    <2>3. SessionSound(s)' /\ AnswerSound(s)'
        BY <1>0, <1>8, <2>2, SessionFrame
    <2>4. ASSUME step = "install"
          PROVE  Sound(log', Waits(s)', ~restarted', ToSet(answers'[s].got), s, r.found.seen)
        BY <1>8, <2>1, <2>4 DEF SoundFor
    <2>5. RequestSound(t)'
        BY <1>1, <1>2, <1>8, <2>4 DEF RequestSound, SoundFor
    <2> QED
        BY <2>3, <2>5
<1>9. ReportsBack(log')
    BY <1>0
<1>10. \E owner : Owned(owner)'
    <2>1. \A u \in Threads : pc'[u] \in {"compute", "store"} =>
             pc[u] \in {"compute", "store"} /\ req'[u].s = req[u].s /\ req'[u].ptr = req[u].ptr
        BY <1>1, <1>2
    <2> QED
        BY <1>6, <2>1, OwnedSame
<1>11. AnswerOwn(s)' /\ Carries(t)'
    <2>1. AnswerOwn(s)'
        BY DEF IInv, AnswerOwn
    <2> QED
        BY <1>1, <1>2, <2>1 DEF Carries
<1> QED
    BY <1>5, <1>7, <1>8, <1>9, <1>10, <1>11, Step

\* The request at a step belongs to its thread.
LEMMA RequestAt ==
    ASSUME IInv, NEW t \in Threads, pc[t] # "idle"
    PROVE  /\ req[t].s \in Sessions
           /\ req[t] \in RequestData /\ req[t].since <= Len(log)
           /\ req[t].entry <= Len(log) /\ req[t].ptr <= Len(objs)
           /\ requests \in 0..MaxRequests /\ overlapped \subseteq overlapped \cup {req[t].s}
           /\ req[t].s \notin overlapped => Only(t, req[t].s) /\ RequestSound(t)
BY DEF IInv, Types, RequestData

LEMMA RecordLostStep ==
    ASSUME IInv, NEW t \in Threads, RecordLost(t) PROVE IInv'
<1>1. PICK s \in Sessions : Enter(s) /\ req' = [req EXCEPT ![t] = [NoReq EXCEPT !.s = s]]
    BY DEF RecordLost
<1> DEFINE r == [NoReq EXCEPT !.s = s]
<1>2. /\ r \in RequestData /\ r.s = s /\ r.entry = 0 /\ r.ptr = 0 /\ r.since = 0
    BY Constants DEF RequestData, NoReq
<1>3. pc[t] = "idle" /\ pc' = [pc EXCEPT ![t] = "check"] /\ requests' \in 0..MaxRequests
      /\ UNCHANGED <<log, objs, sessions, manifest, answers, restarted>>
    <2>1. requests \in 0..MaxRequests /\ MaxRequests \in Nat
        BY Constants DEF IInv, Types
    <2> QED
        BY <2>1 DEF RecordLost, Begin, Goto, tracker
<1>4. r.entry <= Len(log) /\ r.ptr <= Len(objs) /\ r.since <= Len(log)
    BY <1>2 DEF IInv, Types
<1>5. /\ overlapped \subseteq overlapped' /\ overlapped' \subseteq overlapped \cup {s}
      /\ s \notin overlapped' => Only(t, s)
    BY <1>1 DEF Enter, Only
<1> HIDE DEF r
<1> QED
    BY <1>1, <1>2, <1>3, <1>4, <1>5, LocalStep DEF r, Steps

LEMMA ScanStep ==
    ASSUME IInv, NEW t \in Threads, Scan(t) PROVE IInv'
<1> DEFINE s == req[t].s
           st == Rebuilt(s)
           r == [req[t] EXCEPT !.found = st]
<1>1. pc[t] = "scan" /\ pc' = [pc EXCEPT ![t] = "install"] /\ req' = [req EXCEPT ![t] = r]
      /\ UNCHANGED <<log, objs, sessions, manifest, answers, restarted, requests, overlapped>>
    BY DEF Scan, Goto, tracker, history
<1>2. /\ s \in Sessions /\ req[t] \in RequestData /\ req[t].since <= Len(log)
      /\ req[t].entry <= Len(log) /\ req[t].ptr <= Len(objs) /\ requests \in 0..MaxRequests
      /\ s \notin overlapped => Only(t, s)
    BY <1>1, RequestAt
<1>3. log \in Seq(Entry) /\ Len(log) <= MaxLog /\ ReportsBack(log) /\ Len(log) \in Nat
      /\ restarted \in BOOLEAN
    BY DEF IInv, Types
<1>4. /\ st \in State /\ st.seen = RefOf(log, s, Len(log)) /\ st.results = <<>>
      /\ (~st.dirty => st.results = st.seen)
    BY <1>3, RebuiltIs
<1>5. Linked(log, st.seen)
    BY <1>3, <1>4, RefLinked
<1>6. ASSUME s \notin overlapped PROVE SoundFor(s, st.seen)
    <2>1. \A i \in ToSet(answers[s].got) : i \in 1..Len(log) /\ Counts(log, s, i)
        BY <1>2, <1>6 DEF IInv, AnswerSound, Answered
    <2>2. Waits(s) = {}
        BY <1>1, <1>2, <1>6, NoWait
    <2>3. RefOf(log, s, Len(log)) \in Seq(Index)
        BY <1>4 DEF State
    <2> DEFINE kept == ~restarted
               shown == ToSet(answers[s].got)
    <2>4. kept \in BOOLEAN /\ \A i \in shown : i \in 1..Len(log) /\ Counts(log, s, i)
        BY <1>3, <2>1
    <2> HIDE DEF s, kept, shown
    <2>5. Sound(log, {}, kept, shown, s, RefOf(log, s, Len(log)))
        BY <1>3, <2>3, <2>4, SoundScanned
    <2> QED
        BY <1>4, <2>2, <2>5 DEF SoundFor, kept, shown
<1>7. StateOf(log, s, st)
    <2>1. ToSet(st.seen) = {i \in 1..Len(log) : Counts(log, s, i)}
        BY <1>3, <1>4, RefSet
    <2>2. ToSet(st.results) = {}
        BY <1>4 DEF ToSet
    <2> QED
        BY <2>1, <2>2 DEF StateOf, Of
<1> HIDE DEF st
<1>8. r \in RequestData /\ r.s = s /\ r.found = st /\ r.since = req[t].since
      /\ r.entry = req[t].entry /\ r.ptr = req[t].ptr
    BY <1>2, <1>4 DEF RequestData
<1> HIDE DEF s, r
<1>9. Honest(log, r.found) /\ Linked(log, r.found.seen) /\ StateOf(log, s, r.found)
      /\ (s \notin overlapped => SoundFor(s, r.found.seen))
    BY <1>4, <1>5, <1>6, <1>7, <1>8 DEF Honest
<1> QED
    BY <1>1, <1>2, <1>8, <1>9, LocalStep DEF Steps, s

\* The results of a state are those it has, or its entries.
LEMMA CleanOf ==
    ASSUME NEW s, NEW st \in State, StateOf(log, s, st)
    PROVE  StateOf(log, s, Clean(st))
BY DEF Clean, State, StateOf

LEMMA ComputeStep ==
    ASSUME IInv, NEW t \in Threads, Compute(t) PROVE IInv'
<1> DEFINE s == req[t].s
           p == req[t].ptr
           st == Clean(objs[p])
           r == [req[t] EXCEPT !.found = st]
<1>1. pc[t] = "compute" /\ pc' = [pc EXCEPT ![t] = "store"] /\ req' = [req EXCEPT ![t] = r]
      /\ UNCHANGED <<log, objs, sessions, manifest, answers, restarted, requests, overlapped>>
    BY DEF Compute, Goto, tracker, history
<1>2. /\ s \in Sessions /\ req[t] \in RequestData /\ req[t].since <= Len(log)
      /\ req[t].entry <= Len(log) /\ p <= Len(objs) /\ requests \in 0..MaxRequests
      /\ s \notin overlapped => Only(t, s)
    BY <1>1, RequestAt
<1>3. PICK owner : Owned(owner)
    BY DEF IInv
<1>4. p \in 1..Len(objs) /\ objs[p] \in State /\ StateOf(log, s, objs[p])
    <2>1. p # 0 /\ owner[p] = s /\ p \in Nat /\ Len(objs) \in Nat
        BY <1>1, <1>2, <1>3 DEF Owned, RequestData, IInv, Types
    <2>2. p \in 1..Len(objs)
        BY <1>2, <2>1
    <2> QED
        BY <1>3, <2>1, <2>2 DEF Owned, IInv, Types
<1>5. s \notin overlapped => p = sessions[s] /\ p # 0 /\ Linked(log, objs[p].seen)
    BY <1>1 DEF IInv, RequestSound
<1>6. s \notin overlapped => Honest(log, objs[p])
    BY <1>2, <1>5 DEF IInv, SessionSound
<1>7. st \in State /\ StateOf(log, s, st) /\ (s \notin overlapped => st.results = objs[p].seen)
    BY <1>4, <1>6, CleanTyped, CleanOf DEF Honest
<1> HIDE DEF st
<1>8. r \in RequestData /\ r.s = s /\ r.found = st /\ r.since = req[t].since
      /\ r.entry = req[t].entry /\ r.ptr = p
    BY <1>2, <1>7 DEF RequestData
<1> HIDE DEF s, r
<1> QED
    BY <1>1, <1>2, <1>5, <1>7, <1>8, LocalStep DEF Steps, s

LEMMA FailStep ==
    ASSUME IInv, NEW t \in Threads, Fail(t) PROVE IInv'
<1> DEFINE s == req[t].s
<1>1. /\ pc[t] \in {"check", "scan"} /\ pc' = [pc EXCEPT ![t] = "idle"]
      /\ req' = [req EXCEPT ![t] = NoReq]
      /\ UNCHANGED <<log, objs, sessions, manifest, answers, restarted, requests, overlapped>>
    BY DEF Fail, Return, Goto, tracker, history
<1>2. s \in Sessions /\ requests \in 0..MaxRequests /\ (s \notin overlapped => Only(t, s))
    BY <1>1, RequestAt
<1>3. /\ NoReq \in RequestData /\ NoReq.entry <= Len(log) /\ NoReq.ptr <= Len(objs)
      /\ NoReq.since <= Len(log)
    <2>1. NoReq.entry = 0 /\ NoReq.ptr = 0 /\ NoReq.since = 0
        BY DEF NoReq
    <2> QED
        BY <2>1, Constants DEF IInv, Types
<1> HIDE DEF s
<1> QED
    BY <1>1, <1>2, <1>3, LocalStep DEF Steps, s

LEMMA ReportsBackAppended ==
    ASSUME Types, ReportsBack(log), Len(log) < MaxLog, NEW e \in Entry, log' = Append(log, e),
           e.kind = "report" => e.ref \in 1..Len(log) /\ log[e.ref].s = e.s
    PROVE  ReportsBack(log')
<1>1. /\ Len(log') = Len(log) + 1 /\ Len(log) \in Nat /\ log'[Len(log) + 1] = e
      /\ \A i \in 1..Len(log) : log'[i] = log[i]
    BY LogAppended
<1> SUFFICES ASSUME NEW i \in 1..Len(log'), log'[i].kind = "report"
             PROVE  log'[i].ref \in 1..(i-1) /\ log'[log'[i].ref].s = log'[i].s
    BY DEF ReportsBack
<1>2. CASE i \in 1..Len(log)
    <2>1. log'[i] = log[i] /\ log[i].ref \in 1..(i-1) /\ log[log[i].ref].s = log[i].s
        BY <1>1, <1>2 DEF ReportsBack
    <2>2. log[i].ref \in 1..Len(log)
        BY <1>1, <1>2, <2>1
    <2> QED
        BY <1>1, <2>1, <2>2
<1>3. CASE i = Len(log) + 1
    <2>1. log'[i] = e /\ e.ref \in 1..Len(log) /\ log[e.ref].s = e.s /\ log'[e.ref] = log[e.ref]
        BY <1>1, <1>3
    <2> QED
        BY <1>1, <1>3, <2>1
<1> QED
    BY <1>1, <1>2, <1>3

\* When nothing but the log changes for the requests and the sessions.
LEMMA QuietStep ==
    ASSUME IInv, Types', ReportsBack(log'), Grown(log, log'), \A r : NoneOwn(r),
           UNCHANGED <<pc, req, objs, sessions, answers, restarted, overlapped>>
    PROVE  IInv'
<1>1. \A r : Waits(r)' = Waits(r)
    BY DEF Waits
<1>2. \A r \in Sessions : Untouched(r)
    BY <1>1 DEF Untouched
<1>3. \A r \in Sessions \ overlapped' : SessionSound(r)' /\ AnswerSound(r)'
    BY <1>2, SessionFrame
<1>4. ASSUME NEW u \in Threads, pc'[u] # "idle", req'[u].s \notin overlapped'
      PROVE  Only(u, req[u].s)' /\ RequestSound(u)'
    <2>1. req[u].s \in Sessions /\ Only(u, req[u].s)
        BY <1>4 DEF IInv, Types, RequestData
    <2>2. RequestSound(u)'
        BY <1>2, <1>4, <2>1, RequestFrame
    <2> QED
        BY <2>1, <2>2 DEF Only
<1>5. \A u \in Threads : Carries(u)'
    BY CarriesFrame
<1>6. \E owner : Owned(owner)'
    BY OwnedSame
<1>7. ASSUME NEW r \in Sessions PROVE AnswerOwn(r)'
    <2>1. Of(log, r, answers[r].got)
        BY DEF IInv, AnswerOwn
    <2> QED
        BY <2>1, OfGrown DEF AnswerOwn
<1> QED
    BY <1>3, <1>4, <1>5, <1>6, <1>7 DEF IInv

\* An entry that no answer of this process has to contain.
LEMMA LogStep ==
    ASSUME IInv, Len(log) < MaxLog, NEW e \in Entry, log' = Append(log, e),
           e.kind = "failure" \/ ~e.own,
           e.kind = "report" => e.ref \in 1..Len(log) /\ log[e.ref].s = e.s,
           requests' \in 0..MaxRequests,
           UNCHANGED <<pc, req, objs, sessions, manifest, answers, restarted, overlapped>>
    PROVE  IInv'
<1>0. Types /\ ReportsBack(log)
    BY DEF IInv
<1>1. /\ log' \in Seq(Entry) /\ Len(log') = Len(log) + 1 /\ Len(log') <= MaxLog
      /\ Len(log) \in Nat /\ log'[Len(log) + 1] = e /\ Grown(log, log')
    BY <1>0, LogAppended
<1>2. \A t \in Threads : /\ req'[t].entry <= Len(log') /\ req'[t].since <= Len(log')
                         /\ req'[t].ptr <= Len(objs')
    BY <1>0, <1>1 DEF Types, RequestData
<1>3. Types'
    BY <1>0, <1>1, <1>2 DEF Types, Unknown
<1>4. \A r : NoneOwn(r)
    BY <1>1 DEF NoneOwn, Counts
<1>5. ReportsBack(log')
    BY <1>0, ReportsBackAppended
<1> QED
    BY <1>1, <1>3, <1>4, <1>5, QuietStep

LEMMA RecordFailureStep ==
    ASSUME IInv, NEW t \in Threads, RecordFailure(t) PROVE IInv'
<1>1. PICK s \in Sessions :
          log' = Append(log, [s |-> s, kind |-> "failure", ref |-> 0, own |-> TRUE])
    BY DEF RecordFailure
<1> DEFINE e == [s |-> s, kind |-> "failure", ref |-> 0, own |-> TRUE]
<1>2. e \in Entry /\ e.kind = "failure"
    BY DEF Entry
<1>3. Len(log) < MaxLog /\ requests' \in 0..MaxRequests
      /\ UNCHANGED <<pc, req, objs, sessions, manifest, answers, restarted, overlapped>>
    <2>1. requests \in 0..MaxRequests /\ MaxRequests \in Nat
        BY Constants DEF IInv, Types
    <2> QED
        BY <2>1 DEF RecordFailure, Begin, tracker
<1> HIDE DEF e
<1> QED
    BY <1>1, <1>2, <1>3, LogStep DEF e

LEMMA ExternalWriteStep ==
    ASSUME IInv, ExternalWrite PROVE IInv'
<1>1. PICK s \in Sessions : \E e \in Entries(s, FALSE) : log' = Append(log, e)
    BY DEF ExternalWrite
<1>2. PICK e \in Entries(s, FALSE) : log' = Append(log, e)
    BY <1>1
<1>3. /\ e \in Entry /\ e.s = s /\ ~e.own /\ e.kind # "failure"
      /\ e.kind = "report" => e.ref \in 1..Len(log) /\ log[e.ref].s = s
    BY EntriesTyped DEF IInv
<1>4. Len(log) < MaxLog /\ requests' \in 0..MaxRequests
      /\ UNCHANGED <<pc, req, objs, sessions, manifest, answers, restarted, overlapped>>
    BY DEF ExternalWrite, tracker, history, IInv, Types
<1> QED
    BY <1>2, <1>3, <1>4, LogStep

\* A request persists an entry, and goes on to observe it.
LEMMA RecordStep ==
    ASSUME IInv, NEW t \in Threads, Record(t) PROVE IInv'
<1>0. Types /\ ReportsBack(log)
    BY DEF IInv
<1>a. PICK s \in Sessions : \E e \in Entries(s, TRUE) :
          /\ Enter(s)
          /\ log' = Append(log, e)
          /\ req' = [req EXCEPT ![t] = [NoReq EXCEPT !.s = s, !.entry = Len(log) + 1]]
    BY DEF Record
<1>1. PICK e \in Entries(s, TRUE) :
          /\ Enter(s)
          /\ log' = Append(log, e)
          /\ req' = [req EXCEPT ![t] = [NoReq EXCEPT !.s = s, !.entry = Len(log) + 1]]
    BY <1>a
<1>2. /\ e \in Entry /\ e.s = s /\ e.own /\ e.kind # "failure"
      /\ e.kind = "report" => e.ref \in 1..Len(log) /\ log[e.ref].s = s
    BY <1>0, EntriesTyped
<1>3. pc[t] = "idle" /\ pc' = [pc EXCEPT ![t] = "observe"] /\ requests' \in 0..MaxRequests
      /\ Len(log) < MaxLog /\ UNCHANGED <<objs, sessions, manifest, answers, restarted>>
    <2>1. requests \in 0..MaxRequests /\ MaxRequests \in Nat
        BY Constants DEF IInv, Types
    <2> QED
        BY <2>1 DEF Record, Begin, Goto, tracker
<1>b. /\ overlapped \subseteq overlapped' /\ overlapped' \subseteq overlapped \cup {s}
      /\ s \notin overlapped' => Only(t, s)
    BY <1>1, <1>3 DEF Enter, Only
<1> DEFINE n == Len(log)
           r == [NoReq EXCEPT !.s = s, !.entry = n + 1]
<1>4. /\ log' \in Seq(Entry) /\ Len(log') = n + 1 /\ Len(log') <= MaxLog
      /\ n \in Nat /\ log'[n + 1] = e /\ Grown(log, log')
    BY <1>0, <1>1, <1>2, <1>3, LogAppended
<1>5. r \in RequestData /\ r.s = s /\ r.entry = n + 1 /\ r.ptr = 0 /\ r.since = 0
    <2>1. n + 1 \in Nat /\ NoReq \in RequestData /\ NoReq.ptr = 0 /\ NoReq.since = 0
        BY <1>4, Constants DEF NoReq
    <2> HIDE DEF n
    <2> QED
        BY <2>1 DEF RequestData
<1> HIDE DEF r, n
<1>6. /\ pc' \in [Threads -> Steps] /\ pc'[t] = "observe"
      /\ \A u \in Threads : u # t => pc'[u] = pc[u]
    BY <1>0, <1>3 DEF Types, Steps
<1>7. /\ req' \in [Threads -> RequestData] /\ req'[t] = r
      /\ \A u \in Threads : u # t => req'[u] = req[u]
    <2>1. req' = [req EXCEPT ![t] = r]
        BY <1>1 DEF r, n
    <2> QED
        BY <1>0, <1>5, <2>1, RequestTyped DEF Types
<1>8. \A u \in Threads : /\ req'[u].entry <= Len(log') /\ req'[u].since <= Len(log')
                         /\ req'[u].ptr <= Len(objs')
    <2> SUFFICES ASSUME NEW u \in Threads
                 PROVE  /\ req'[u].entry <= Len(log') /\ req'[u].since <= Len(log')
                        /\ req'[u].ptr <= Len(objs')
        OBVIOUS
    <2>1. req[u].entry <= n /\ req[u].since <= n /\ req[u].ptr <= Len(objs)
          /\ req[u] \in RequestData /\ Len(objs) \in Nat
        BY <1>0 DEF Types, n
    <2>2. req[u].entry \in Nat /\ req[u].since \in Nat /\ req[u].ptr \in Nat
        BY <2>1 DEF RequestData
    <2> QED
        BY <1>3, <1>4, <1>5, <1>7, <2>1, <2>2
<1>9. Types'
    <2>1. overlapped' \subseteq Sessions
        BY <1>0, <1>b DEF Types
    <2> QED
        BY <1>0, <1>3, <1>4, <1>6, <1>7, <1>8, <2>1 DEF Types, Steps, Unknown
<1>10. ReportsBack(log')
    BY <1>0, <1>1, <1>2, <1>3, ReportsBackAppended
<1>11. \A q \in Sessions : q # s => NoneOwn(q)
    BY <1>2, <1>4 DEF NoneOwn, Counts, n
<1>12. Acts(t, s)
    BY <1>b, <1>3, <1>4, <1>5, <1>6, <1>7, <1>11 DEF Acts
<1>13. s \notin overlapped' => Waits(s) = {} /\ Waits(s)' = {n + 1}
    BY <1>b, <1>3, <1>5, <1>6, <1>7, <1>12, NoWait, WaitsAfter
<1>14. ASSUME s \notin overlapped' PROVE SessionSound(s)'
    <2> DEFINE kept == ~restarted
               shown == ToSet(answers[s].got)
               seq == SeenOf(s)
    <2>0. s \notin overlapped /\ SessionSound(s)
        BY <1>14, <1>b DEF IInv
    <2>1. Sound(log, {}, kept, shown, s, seq) /\ kept \in BOOLEAN
        BY <1>0, <1>13, <1>14, <2>0 DEF SessionSound, SoundFor, Types
    <2>2. SeenOf(s)' = seq /\ (~restarted') = kept /\ ToSet(answers'[s].got) = shown
        BY <1>3 DEF SeenOf
    <2>3. \A i \in 1..n : i \in {n + 1} <=> i \in {}
        BY <1>4
    <2>4. \A i \in (n + 1)..Len(log') : Counts(log', s, i) /\ log'[i].own => i \in {n + 1}
        BY <1>4
    <2>5. \A i \in ToSet(seq) : i \in 1..Len(log)
        BY <2>1 DEF Sound
    <2> HIDE DEF kept, shown, seq
    <2>6. Sound(log', {n + 1}, kept, shown, s, seq)
        <3> DEFINE w == {n + 1}
        <3>1. /\ \A i \in 1..Len(log) : i \in w <=> i \in {}
              /\ \A i \in (Len(log) + 1)..Len(log') : Counts(log', s, i) /\ log'[i].own => i \in w
            BY <2>3, <2>4 DEF n
        <3> HIDE DEF w
        <3>2. Sound(log', w, kept, shown, s, seq)
            BY <1>4, <2>1, <3>1, SoundGrown
        <3> QED
            BY <3>2 DEF w
    <2>7. SoundFor(s, SeenOf(s))'
        BY <1>13, <1>14, <2>2, <2>6 DEF SoundFor
    <2>8. ASSUME sessions'[s] # 0 PROVE Honest(log', objs'[sessions'[s]])
        <3> DEFINE st == objs[sessions[s]]
        <3>1. Honest(log, st) /\ seq = st.seen /\ objs'[sessions'[s]] = st
            BY <1>3, <2>0, <2>8 DEF SessionSound, SeenOf, seq
        <3> HIDE DEF st
        <3>2. \A i \in ToSet(st.seen) : i \in 1..Len(log)
            BY <2>5, <3>1
        <3>3. Honest(log', st)
            BY <1>0, <1>4, <3>1, <3>2, LinkedGrown DEF Honest
        <3> QED
            BY <3>1, <3>3
    <2> QED
        BY <2>7, <2>8 DEF SessionSound
<1>15. ASSUME s \notin overlapped' PROVE AnswerSound(s)'
    <2> DEFINE kept == ~restarted
               a == answers[s]
    <2>1. Answered(log, kept, s, a) /\ kept \in BOOLEAN /\ a.since \in Nat
        BY <1>0, <1>b, <1>15 DEF IInv, AnswerSound, Types, AnswerData
    <2> HIDE DEF kept, a
    <2>2. Answered(log', kept, s, a)
        BY <1>0, <1>4, <2>1, AnsweredGrown
    <2>3. answers'[s] = a /\ (~restarted') = kept
        BY <1>3 DEF a, kept
    <2> QED
        BY <2>2, <2>3 DEF AnswerSound
<1>16. RequestSound(t)' /\ Carries(t)'
    <2>1. n + 1 \in 1..Len(log') /\ Counts(log', s, n + 1) /\ log'[n + 1].own
        BY <1>2, <1>4 DEF Counts
    <2> QED
        BY <1>5, <1>6, <1>7, <2>1 DEF RequestSound, Carries
<1>17. \E owner : Owned(owner)'
    <2>1. \A u \in Threads : pc'[u] \in {"compute", "store"} =>
             pc[u] \in {"compute", "store"} /\ req'[u].s = req[u].s /\ req'[u].ptr = req[u].ptr
        BY <1>6, <1>7
    <2> QED
        BY <1>3, <1>4, <2>1, OwnedSame
<1>18. AnswerOwn(s)'
    <2>1. Of(log, s, answers[s].got)
        BY DEF IInv, AnswerOwn
    <2> QED
        BY <1>3, <1>4, <2>1, OfGrown DEF AnswerOwn
<1> QED
    BY <1>9, <1>10, <1>12, <1>14, <1>15, <1>16, <1>17, <1>18, Step

\* A step of thread t that gives session s the state st at pointer p and the answer a.
Moved(owner, t, s, step, r, p, q, st, a) ==
    /\ pc' = [pc EXCEPT ![t] = step] /\ req' = [req EXCEPT ![t] = r]
    /\ pc[t] # "idle" /\ req[t].s = s /\ (step # "idle" => r.s = s)
    /\ r.entry <= Len(log) /\ r.since <= Len(log) /\ r.ptr <= Len(objs')
    /\ step \in {"idle", "check", "compute"} /\ (step = "compute" => r.ptr = p)
    /\ p = Len(objs) + 1 \/ (p \in 1..Len(objs) /\ owner[p] = s)
    /\ q = p \/ q = sessions[s]
    /\ objs' \in Seq(State) /\ Len(objs) <= Len(objs') /\ p <= Len(objs') /\ objs'[p] = st
    /\ \A x \in 1..Len(objs') : x # p => x <= Len(objs) /\ objs'[x] = objs[x]
    /\ sessions' = [sessions EXCEPT ![s] = q] /\ answers' = [answers EXCEPT ![s] = a]
    /\ manifest' = Unknown \/ manifest' \in Nat \X Index
    /\ StateOf(log, s, st) /\ Of(log, s, a.got)
    /\ s \notin overlapped =>
          /\ q = p /\ Answered(log, ~restarted, s, a) /\ Honest(log, st)
          /\ Sound(log, {}, ~restarted, ToSet(a.got), s, st.seen)
          /\ step = "compute" => Linked(log, st.seen)
    /\ UNCHANGED <<log, requests, restarted, overlapped>>

LEMMA TrackerStep ==
    ASSUME IInv, NEW owner, Owned(owner), NEW t \in Threads, NEW s \in Sessions,
           NEW step \in Steps, NEW r \in RequestData, NEW p \in Nat, NEW q \in Nat,
           NEW st \in State, NEW a \in AnswerData,
           Moved(owner, t, s, step, r, p, q, st, a)
    PROVE  IInv'
<1>m. /\ pc' = [pc EXCEPT ![t] = step] /\ req' = [req EXCEPT ![t] = r]
      /\ pc[t] # "idle" /\ req[t].s = s /\ (step # "idle" => r.s = s)
      /\ r.entry <= Len(log) /\ r.since <= Len(log) /\ r.ptr <= Len(objs')
      /\ step \in {"idle", "check", "compute"} /\ (step = "compute" => r.ptr = p)
      /\ p = Len(objs) + 1 \/ (p \in 1..Len(objs) /\ owner[p] = s)
      /\ q = p \/ q = sessions[s]
      /\ objs' \in Seq(State) /\ Len(objs) <= Len(objs') /\ p <= Len(objs') /\ objs'[p] = st
      /\ \A x \in 1..Len(objs') : x # p => x <= Len(objs) /\ objs'[x] = objs[x]
      /\ sessions' = [sessions EXCEPT ![s] = q] /\ answers' = [answers EXCEPT ![s] = a]
      /\ manifest' = Unknown \/ manifest' \in Nat \X Index
      /\ StateOf(log, s, st) /\ Of(log, s, a.got)
      /\ s \notin overlapped =>
            /\ q = p /\ Answered(log, ~restarted, s, a) /\ Honest(log, st)
            /\ Sound(log, {}, ~restarted, ToSet(a.got), s, st.seen)
            /\ step = "compute" => Linked(log, st.seen)
      /\ UNCHANGED <<log, requests, restarted, overlapped>>
    BY DEF Moved
<1> USE <1>m
<1>0. Types
    BY DEF IInv
<1>1. /\ pc' \in [Threads -> Steps] /\ pc'[t] = step
      /\ \A u \in Threads : u # t => pc'[u] = pc[u]
    BY <1>0 DEF Types, Steps
<1>2. /\ req' \in [Threads -> RequestData] /\ req'[t] = r
      /\ \A u \in Threads : u # t => req'[u] = req[u]
    BY <1>0, RequestTyped DEF Types
<1>3. Len(objs) \in Nat /\ Len(objs') \in Nat
    BY <1>0 DEF Types
<1>4. \A u \in Threads : /\ req'[u].entry <= Len(log) /\ req'[u].since <= Len(log)
                         /\ req'[u].ptr <= Len(objs')
    <2> SUFFICES ASSUME NEW u \in Threads, u # t
                 PROVE  /\ req'[u].entry <= Len(log) /\ req'[u].since <= Len(log)
                        /\ req'[u].ptr <= Len(objs')
        BY <1>2
    <2>1. req[u].entry <= Len(log) /\ req[u].since <= Len(log) /\ req[u].ptr <= Len(objs)
          /\ req[u].ptr \in Nat
        BY <1>0 DEF Types, RequestData
    <2> QED
        BY <1>2, <1>3, <2>1
<1>5. /\ sessions' \in [Sessions -> 0..Len(objs')] /\ sessions'[s] = q
      /\ \A y \in Sessions : y # s => sessions'[y] = sessions[y]
    <2>1. sessions \in [Sessions -> 0..Len(objs)]
        BY <1>0 DEF Types
    <2>2. sessions \in [Sessions -> 0..Len(objs')] /\ q \in 0..Len(objs')
        BY <1>3, <2>1
    <2> QED
        BY <2>2
<1>6. /\ answers' \in [Sessions -> AnswerData] /\ answers'[s] = a
      /\ \A y \in Sessions : y # s => answers'[y] = answers[y]
    BY <1>0 DEF Types, AnswerData
<1>7. Types'
    BY <1>0, <1>1, <1>2, <1>4, <1>5, <1>6 DEF Types, Steps, Unknown, AnswerData
<1>8. Grown(log, log') /\ \A y : NoneOwn(y)
    BY <1>0, GrownSame
<1>9. ASSUME NEW y \in Sessions, y # s, sessions[y] # 0
      PROVE  objs'[sessions[y]] = objs[sessions[y]]
    <2>1. sessions[y] \in 1..Len(objs) /\ sessions[y] \in 1..Len(objs')
        BY <1>0, <1>3, <1>9 DEF Types
    <2>2. owner[sessions[y]] = y
        BY <1>9 DEF Owned
    <2>3. sessions[y] # p
        BY <1>3, <1>9, <2>1, <2>2
    <2> QED
        BY <2>1, <2>3
<1>10. Acts(t, s)
    <2>1. s \notin overlapped => Only(t, s)
        BY RequestAt
    <2> QED
        BY <1>1, <1>2, <1>5, <1>6, <1>8, <1>9, <2>1 DEF Acts
<1>11. \E o : Owned(o)'
    <2>1. \A x \in 1..Len(objs) : objs'[x] = objs[x] \/ (owner[x] = s /\ StateOf(log', s, objs'[x]))
        BY <1>3
    <2>2. \A x \in (Len(objs) + 1)..Len(objs') : StateOf(log', s, objs'[x])
        <3> SUFFICES ASSUME NEW x \in (Len(objs) + 1)..Len(objs') PROVE StateOf(log', s, objs'[x])
            OBVIOUS
        <3>1. x \in 1..Len(objs') /\ ~(x <= Len(objs))
            BY <1>3
        <3> QED
            BY <3>1
    <2>3. p \in 1..Len(objs') /\ (p <= Len(objs) => owner[p] = s)
        BY <1>3
    <2>4. sessions'[s] = sessions[s] \/ (/\ sessions'[s] \in 1..Len(objs')
                                         /\ sessions'[s] <= Len(objs) => owner[sessions'[s]] = s)
        BY <1>5, <2>3
    <2>5. \A u \in Threads : pc'[u] \in {"compute", "store"} =>
             \/ pc[u] \in {"compute", "store"} /\ req'[u].s = req[u].s /\ req'[u].ptr = req[u].ptr
             \/ /\ req'[u].s = s /\ req'[u].ptr \in 1..Len(objs')
                /\ req'[u].ptr <= Len(objs) => owner[req'[u].ptr] = s
        BY <1>1, <1>2, <2>3
    <2> QED
        BY <1>0, <1>3, <1>5, <1>8, <2>1, <2>2, <2>4, <2>5, OwnedStep
<1>12. AnswerOwn(s)' /\ Carries(t)'
    BY <1>1, <1>6 DEF AnswerOwn, Carries
<1>13. ASSUME s \notin overlapped' PROVE SessionSound(s)' /\ AnswerSound(s)' /\ RequestSound(t)'
    <2>1. Waits(s)' = {}
        BY <1>1, <1>10, <1>13, WaitsAfter
    <2>2. p # 0 /\ sessions'[s] = p /\ SeenOf(s)' = st.seen
        BY <1>3, <1>5, <1>13 DEF SeenOf
    <2>3. SoundFor(s, SeenOf(s))'
        BY <1>6, <1>13, <2>1, <2>2 DEF SoundFor
    <2>4. SessionSound(s)'
        BY <1>13, <2>2, <2>3 DEF SessionSound
    <2>5. AnswerSound(s)'
        BY <1>6, <1>13 DEF AnswerSound
    <2>6. RequestSound(t)'
        BY <1>1, <1>2, <1>13, <2>2 DEF RequestSound
    <2> QED
        BY <2>4, <2>5, <2>6
<1>14. ReportsBack(log')
    BY DEF IInv
<1> QED
    BY <1>7, <1>10, <1>11, <1>12, <1>13, <1>14, Step

LEMMA NoReqBounds == Types => /\ NoReq \in RequestData /\ NoReq.entry <= Len(log)
                              /\ NoReq.ptr = 0 /\ NoReq.since <= Len(log)
<1> SUFFICES ASSUME Types
             PROVE  /\ NoReq \in RequestData /\ NoReq.entry <= Len(log)
                    /\ NoReq.ptr = 0 /\ NoReq.since <= Len(log)
    OBVIOUS
<1>1. NoReq.entry = 0 /\ NoReq.ptr = 0 /\ NoReq.since = 0
    BY DEF NoReq
<1> QED
    BY <1>1, Constants DEF Types

\* The state a session points to is its own.
LEMMA PointsOwn ==
    ASSUME IInv, NEW owner, Owned(owner), NEW s \in Sessions, sessions[s] # 0
    PROVE  /\ sessions[s] \in 1..Len(objs) /\ sessions[s] \in Nat /\ owner[sessions[s]] = s
           /\ objs[sessions[s]] \in State /\ StateOf(log, s, objs[sessions[s]])
<1>1. sessions[s] \in 0..Len(objs) /\ Len(objs) \in Nat /\ objs \in Seq(State)
    BY DEF IInv, Types
<1>2. sessions[s] \in 1..Len(objs)
    BY <1>1
<1> QED
    BY <1>1, <1>2 DEF Owned

\* The answer is what the session's state holds.
LEMMA CheckStep ==
    ASSUME IInv, NEW t \in Threads, Check(t) PROVE IInv'
<1> DEFINE s == req[t].s
           p == sessions[s]
<1>0. Types
    BY DEF IInv
<1>1. /\ pc[t] = "check" /\ manifest' = Current
      /\ UNCHANGED <<log, sessions, requests, restarted, overlapped>>
    BY DEF Check, history
<1>2. /\ s \in Sessions /\ req[t] \in RequestData /\ req[t].since <= Len(log)
      /\ req[t].entry <= Len(log) /\ req[t].ptr <= Len(objs) /\ requests \in 0..MaxRequests
      /\ s \notin overlapped => Only(t, s)
    BY <1>1, RequestAt
<1>3. Len(log) \in Nat /\ Len(objs) \in Nat /\ restarted \in BOOLEAN /\ log \in Seq(Entry)
    BY <1>0 DEF Types
<1>4. ASSUME p # 0, ~objs[p].invalid,
             objs' = [objs EXCEPT ![p] = Clean(@)],
             Answer(t, Clean(objs[p]).results, Len(log)), Return(t)
      PROVE  IInv'
    <2>0. PICK owner : Owned(owner)
        BY DEF IInv
    <2>1. /\ p \in 1..Len(objs) /\ p \in Nat /\ objs[p] \in State /\ objs \in Seq(State)
          /\ owner[p] = s /\ StateOf(log, s, objs[p])
        BY <1>0, <1>2, <1>4, <2>0, PointsOwn DEF Types
    <2>2. s \notin overlapped => SoundFor(s, objs[p].seen) /\ Honest(log, objs[p])
        BY <1>2, <1>4 DEF IInv, SessionSound, SeenOf
    <2> DEFINE st == Clean(objs[p])
               seq == objs[p].seen
    <2>3. /\ st \in State /\ st.seen = seq /\ ~st.invalid /\ StateOf(log, s, st)
          /\ s \notin overlapped => st.results = seq /\ Linked(log, seq)
        BY <1>4, <2>1, <2>2, CleanTyped, CleanOf DEF Honest
    <2> DEFINE a == [got |-> st.results, since |-> Len(log)]
    <2>4. a \in AnswerData /\ a.got = st.results /\ a.since = Len(log)
        BY <1>3, <2>3 DEF AnswerData, State
    <2>5. answers' = [answers EXCEPT ![s] = a]
        BY <1>4 DEF Answer
    <2>6. objs' = [objs EXCEPT ![p] = st]
        BY <1>4
    <2>7. pc' = [pc EXCEPT ![t] = "idle"] /\ req' = [req EXCEPT ![t] = NoReq]
        BY <1>4 DEF Return, Goto
    <2> DEFINE kept == ~restarted
               shown == ToSet(answers[s].got)
    <2>8. s \notin overlapped => Sound(log, {}, kept, shown, s, seq)
        <3>1. s \notin overlapped => Waits(s) = {}
            BY <1>1, <1>2, NoWait
        <3> QED
            BY <2>2, <3>1 DEF SoundFor
    <2>9. kept \in BOOLEAN
        BY <1>3
    <2> HIDE DEF s, p, st, seq, a, kept, shown
    <2>10. s \notin overlapped => /\ Answered(log, kept, s, a)
                                  /\ Sound(log, {}, kept, ToSet(seq), s, seq)
        BY <1>3, <2>3, <2>4, <2>8, <2>9, SoundAnswer
    <2>11. s \notin overlapped => Honest(log, st)
        BY <2>3 DEF Honest
    <2>12. /\ objs' \in Seq(State) /\ Len(objs') = Len(objs) /\ objs'[p] = st
           /\ \A x \in 1..Len(objs) : x # p => objs'[x] = objs[x]
        BY <2>1, <2>3, <2>6, ObjsChanged
    <2>13. /\ Len(objs) <= Len(objs') /\ p <= Len(objs')
           /\ \A x \in 1..Len(objs') : x # p => x <= Len(objs) /\ objs'[x] = objs[x]
        BY <1>3, <2>1, <2>12
    <2>14. sessions' = [sessions EXCEPT ![s] = p]
        BY <1>0, <1>1, <1>2 DEF Types, p
    <2>15. manifest' = Unknown \/ manifest' \in Nat \X Index
        BY <1>0, <1>1, CurrentTyped
    <2>16. /\ NoReq \in RequestData /\ NoReq.entry <= Len(log) /\ NoReq.ptr <= Len(objs')
           /\ NoReq.since <= Len(log)
        BY <1>0, <1>3, <2>12, NoReqBounds
    <2>17. pc[t] # "idle" /\ req[t].s = s /\ "idle" \in Steps
        BY <1>1 DEF s, Steps
    <2>18. StateOf(log, s, st) /\ Of(log, s, a.got)
        BY <2>3, <2>4 DEF StateOf
    <2>19. s \notin overlapped => /\ Answered(log, ~restarted, s, a)
                                  /\ Sound(log, {}, ~restarted, ToSet(a.got), s, st.seen)
        BY <2>3, <2>4, <2>10 DEF kept
    <2>20. Moved(owner, t, s, "idle", NoReq, p, p, st, a)
        BY <1>1, <1>2, <2>1, <2>3, <2>5, <2>7, <2>11, <2>12, <2>13, <2>14, <2>15,
           <2>16, <2>17, <2>18, <2>19 DEF Moved
    <2> QED
        BY <1>2, <2>0, <2>1, <2>3, <2>4, <2>16, <2>17, <2>20, TrackerStep
<1>5. ASSUME req' = [req EXCEPT ![t].since = Len(log)], Goto(t, "scan"), UNCHANGED <<objs, answers>>
      PROVE  IInv'
    <2> DEFINE r == [req[t] EXCEPT !.since = Len(log)]
    <2>1. /\ r \in RequestData /\ r.s = s /\ r.since <= Len(log) /\ r.entry <= Len(log)
          /\ r.ptr <= Len(objs)
        BY <1>2, <1>3 DEF RequestData
    <2>2. req' = [req EXCEPT ![t] = r] /\ pc' = [pc EXCEPT ![t] = "scan"]
        BY <1>5 DEF Goto
    <2> HIDE DEF r, s
    <2> QED
        BY <1>1, <1>2, <1>5, <2>1, <2>2, LocalStep DEF Steps, s
<1> QED
    BY <1>4, <1>5 DEF Check, Usable

LEMMA AnswerOf ==
    ASSUME IInv, NEW s \in Sessions
    PROVE  /\ answers[s] \in AnswerData /\ Of(log, s, answers[s].got)
           /\ answers = [answers EXCEPT ![s] = answers[s]]
           /\ s \notin overlapped => /\ Answered(log, ~restarted, s, answers[s])
                                     /\ SoundFor(s, SeenOf(s))
BY DEF IInv, Types, AnswerSound, AnswerData, SessionSound, AnswerOwn

\* observeEntry marks a state invalid when a report lacks its prescription.
LEMMA ObserveHonest ==
    ASSUME log \in Seq(Entry), NEW st \in State, NEW i \in Index, log[i].kind # "failure",
           Honest(log, st)
    PROVE  Honest(log, observeEntry(st, i))
<1> DEFINE new == observeEntry(st, i)
<1>1. Counts(log, log[i].s, i)
    BY DEF Counts
<1>2. new.seen = Append(st.seen, i) /\ new.dirty
    BY <1>1, ObserveTyped
<1>3. ToSet(new.seen) = ToSet(st.seen) \cup {i}
    BY <1>2, SetOfAppend DEF State
<1>4. ASSUME ~new.invalid PROVE Linked(log, new.seen)
    <2>1. ~st.invalid /\ (log[i].kind = "report" => log[i].ref \in Prescriptions(st))
        BY <1>4 DEF observeEntry, State
    <2>2. Linked(log, st.seen)
        BY <2>1 DEF Honest
    <2>3. log[i].kind = "report" => log[i].ref \in ToSet(st.seen)
        BY <2>1 DEF Prescriptions
    <2> HIDE DEF new
    <2> QED
        BY <1>3, <2>2, <2>3 DEF Linked
<1> HIDE DEF new
<1> QED
    BY <1>2, <1>4 DEF Honest, new

LEMMA ObserveStep ==
    ASSUME IInv, NEW t \in Threads, Observe(t) PROVE IInv'
<1> DEFINE s == req[t].s
           i == req[t].entry
           fresh == sessions[s] = 0
           p == IF fresh THEN Len(objs) + 1 ELSE sessions[s]
           old == IF fresh THEN newSessionState ELSE objs[sessions[s]]
           st == observeEntry(old, i)
           a == answers[s]
<1>0. Types
    BY DEF IInv
<1>1. /\ pc[t] = "observe" /\ Observed(t)
      /\ UNCHANGED <<log, answers, requests, restarted, overlapped>>
      /\ sessions' = IF fresh THEN [sessions EXCEPT ![s] = Len(objs) + 1] ELSE sessions
      /\ objs' = IF fresh THEN Append(objs, observeEntry(newSessionState, i))
                 ELSE [objs EXCEPT ![sessions[s]] = observeEntry(@, i)]
      /\ IF manifest # Unknown
         THEN manifest' = <<manifest[1] + 1, i>>
         ELSE manifest' \in {Current} \cup (IF Busy THEN {Unknown} ELSE {})
    BY DEF Observe, history
<1>2. /\ s \in Sessions /\ req[t] \in RequestData /\ req[t].since <= Len(log)
      /\ req[t].entry <= Len(log) /\ req[t].ptr <= Len(objs) /\ requests \in 0..MaxRequests
      /\ s \notin overlapped => Only(t, s)
    BY <1>1, RequestAt
<1>3. /\ Len(log) \in Nat /\ Len(objs) \in Nat /\ restarted \in BOOLEAN /\ log \in Seq(Entry)
      /\ Len(log) <= MaxLog /\ objs \in Seq(State) /\ MaxLog \in Nat
    BY <1>0, Constants DEF Types
<1>4. i \in 1..Len(log) /\ Counts(log, s, i)
    BY <1>1 DEF IInv, Carries
<1>5. i \in Index
    BY <1>3, <1>4 DEF Index
<1>o. PICK owner : Owned(owner)
    BY DEF IInv
<1>6. ~fresh => sessions[s] \in 1..Len(objs) /\ owner[sessions[s]] = s
    BY <1>2, <1>o, PointsOwn
<1>7. /\ old \in State /\ old.seen = SeenOf(s) /\ StateOf(log, s, old)
      /\ s \notin overlapped => Honest(log, old)
    <2>1. CASE fresh
        <3>1. old = newSessionState /\ SeenOf(s) = <<>>
            BY <2>1 DEF SeenOf
        <3>2. Honest(log, newSessionState) /\ StateOf(log, s, newSessionState)
            BY DEF newSessionState, Honest, Linked, ToSet, StateOf, Of
        <3> QED
            BY <3>1, <3>2, Constants DEF newSessionState
    <2>2. CASE ~fresh
        <3>1. old = objs[sessions[s]] /\ SeenOf(s) = old.seen
            BY <2>2 DEF SeenOf
        <3>2. old \in State /\ StateOf(log, s, old)
            BY <1>2, <1>o, <2>2, PointsOwn
        <3> QED
            BY <1>2, <2>2, <3>1, <3>2 DEF IInv, SessionSound
    <2> QED
        BY <2>1, <2>2
<1>8. manifest' = Unknown \/ manifest' \in Nat \X Index
    <2>1. manifest = Unknown \/ manifest \in Nat \X Index
        BY <1>0 DEF Types
    <2>2. CASE manifest # Unknown
        <3>1. manifest[1] + 1 \in Nat
            BY <2>1, <2>2
        <3> QED
            BY <1>1, <1>5, <2>2, <3>1
    <2>3. CASE manifest = Unknown
        BY <1>0, <1>1, <2>3, CurrentTyped
    <2> QED
        BY <2>2, <2>3
<1>9. /\ a \in AnswerData /\ Of(log, s, a.got) /\ answers' = [answers EXCEPT ![s] = a]
      /\ s \notin overlapped => Answered(log, ~restarted, s, a) /\ SoundFor(s, SeenOf(s))
    BY <1>1, <1>2, AnswerOf
<1>10. s \notin overlapped => Waits(s) = {i}
    BY <1>1, <1>2, WaitsOf
<1>11. /\ st \in State /\ st.seen = Append(old.seen, i) /\ st.results = old.results
       /\ s \notin overlapped => Honest(log, st)
    <2> HIDE DEF old
    <2>1. log[i].s = s /\ log[i].kind # "failure"
        BY <1>4 DEF Counts
    <2> HIDE DEF s, i
    <2> QED
        BY <1>3, <1>4, <1>5, <1>7, <2>1, ObserveTyped, ObserveHonest
<1>a. StateOf(log, s, st)
    <2> HIDE DEF old, st
    <2>1. ToSet(st.seen) = ToSet(old.seen) \cup {i}
        BY <1>5, <1>7, <1>11, SetOfAppend DEF State
    <2> HIDE DEF s, i
    <2> QED
        BY <1>4, <1>7, <1>11, <2>1 DEF StateOf, Of
<1>12. s \notin overlapped => Sound(log, {}, ~restarted, ToSet(a.got), s, st.seen)
    <2> DEFINE kept == ~restarted
               shown == ToSet(a.got)
               seq == old.seen
               w == {i}
    <2>1. s \notin overlapped => Sound(log, w, kept, shown, s, seq)
        BY <1>3, <1>7, <1>9, <1>10 DEF SoundFor
    <2>2. w = {i} /\ kept \in BOOLEAN
        BY <1>3
    <2> HIDE DEF s, i, w, old, st, seq, kept, shown
    <2>3. s \notin overlapped => Sound(log, {}, kept, shown, s, Append(seq, i))
        BY <1>3, <1>4, <2>1, <2>2, SoundObserved
    <2> QED
        BY <1>11, <2>3 DEF kept, shown, seq
<1>13. /\ objs' \in Seq(State) /\ Len(objs) <= Len(objs') /\ p <= Len(objs') /\ objs'[p] = st
       /\ \A x \in 1..Len(objs') : x # p => x <= Len(objs) /\ objs'[x] = objs[x]
    <2>1. CASE fresh
        <3>1. objs' = Append(objs, st) /\ p = Len(objs) + 1 /\ st \in State
            BY <1>1, <1>11, <2>1
        <3> HIDE DEF st, p
        <3>2. /\ objs' \in Seq(State) /\ Len(objs') = Len(objs) + 1 /\ objs'[Len(objs) + 1] = st
              /\ \A q \in 1..Len(objs) : objs'[q] = objs[q]
            BY <1>3, <3>1, ObjsAppended
        <3> QED
            BY <1>3, <3>1, <3>2
    <2>2. CASE ~fresh
        <3>1. objs' = [objs EXCEPT ![p] = st] /\ p \in 1..Len(objs) /\ st \in State
            BY <1>1, <1>6, <1>11, <2>2
        <3> HIDE DEF st, p
        <3>2. /\ objs' \in Seq(State) /\ Len(objs') = Len(objs) /\ objs'[p] = st
              /\ \A q \in 1..Len(objs) : q # p => objs'[q] = objs[q]
            BY <1>3, <3>1, ObjsChanged
        <3> QED
            BY <1>3, <3>1, <3>2
    <2> QED
        BY <2>1, <2>2
<1>14. /\ p \in Nat /\ (p = Len(objs) + 1 \/ (p \in 1..Len(objs) /\ owner[p] = s))
       /\ sessions' = [sessions EXCEPT ![s] = p]
    <2>1. sessions \in [Sessions -> 0..Len(objs)]
        BY <1>0 DEF Types
    <2>2. CASE fresh
        BY <1>1, <1>3, <2>2
    <2>3. CASE ~fresh
        <3>1. p = sessions[s] /\ sessions' = sessions
            BY <1>1, <2>3
        <3>2. sessions = [sessions EXCEPT ![s] = sessions[s]]
            BY <2>1
        <3> QED
            BY <1>3, <1>6, <2>3, <3>1, <3>2
    <2> QED
        BY <2>2, <2>3
<1> HIDE DEF st, a, p, old
<1>15. ASSUME NEW step \in Steps, NEW r \in RequestData, step \in {"idle", "check"},
              pc' = [pc EXCEPT ![t] = step], req' = [req EXCEPT ![t] = r],
              step = "check" => r.s = s,
              r.entry <= Len(log), r.since <= Len(log), r.ptr <= Len(objs')
       PROVE  IInv'
    <2>1. pc[t] # "idle" /\ req[t].s = s /\ (step # "idle" => r.s = s)
          /\ step \in {"idle", "check", "compute"} /\ step # "compute"
        BY <1>1, <1>15
    <2> HIDE DEF s, i
    <2>2. Moved(owner, t, s, step, r, p, p, st, a)
        BY <1>1, <1>2, <1>8, <1>9, <1>a, <1>11, <1>12, <1>13, <1>14, <1>15, <2>1 DEF Moved
    <2> QED
        BY <1>2, <1>o, <1>9, <1>11, <1>14, <1>15, <2>2, TrackerStep
<1>16. CASE log[i].kind = "report"
    <2>1. pc' = [pc EXCEPT ![t] = "check"] /\ req' = [req EXCEPT ![t] = req[t]]
        BY <1>0, <1>1, <1>16 DEF Observed, Goto, Types
    <2>2. req[t].ptr <= Len(objs') /\ req[t].ptr \in Nat
        BY <1>2, <1>3, <1>13 DEF RequestData
    <2> QED
        BY <1>2, <1>15, <2>1, <2>2 DEF Steps
<1>17. CASE log[i].kind # "report"
    <2>1. pc' = [pc EXCEPT ![t] = "idle"] /\ req' = [req EXCEPT ![t] = NoReq]
        BY <1>1, <1>17 DEF Observed, Return, Goto
    <2>2. /\ NoReq \in RequestData /\ NoReq.entry <= Len(log) /\ NoReq.ptr <= Len(objs')
          /\ NoReq.since <= Len(log)
        BY <1>0, <1>3, <1>13, NoReqBounds
    <2> QED
        BY <1>15, <2>1, <2>2 DEF Steps
<1> QED
    BY <1>16, <1>17

LEMMA InstallStep ==
    ASSUME IInv, NEW t \in Threads, Install(t) PROVE IInv'
<1> DEFINE s == req[t].s
           st == req[t].found
           p == Len(objs) + 1
           a == answers[s]
<1>0. Types
    BY DEF IInv
<1>1. /\ pc[t] = "install" /\ UNCHANGED <<log, answers, requests, restarted, overlapped>>
      /\ objs' = Append(objs, st) /\ sessions' = [sessions EXCEPT ![s] = p]
    BY DEF Install, history
<1>2. /\ s \in Sessions /\ req[t] \in RequestData /\ req[t].since <= Len(log)
      /\ req[t].entry <= Len(log) /\ req[t].ptr <= Len(objs) /\ requests \in 0..MaxRequests
      /\ s \notin overlapped => Only(t, s)
    BY <1>1, RequestAt
<1>3. Len(log) \in Nat /\ Len(objs) \in Nat /\ restarted \in BOOLEAN /\ objs \in Seq(State)
    BY <1>0 DEF Types
<1>o. PICK owner : Owned(owner)
    BY DEF IInv
<1>4. /\ st \in State /\ StateOf(log, s, st)
      /\ s \notin overlapped => SoundFor(s, st.seen) /\ Honest(log, st) /\ Linked(log, st.seen)
    BY <1>1, <1>2 DEF IInv, RequestSound, RequestData, Carries
<1>5. /\ a \in AnswerData /\ Of(log, s, a.got) /\ answers' = [answers EXCEPT ![s] = a]
      /\ s \notin overlapped => Answered(log, ~restarted, s, a)
    BY <1>1, <1>2, AnswerOf
<1>6. s \notin overlapped => Waits(s) = {}
    BY <1>1, <1>2, NoWait
<1>7. s \notin overlapped => Sound(log, {}, ~restarted, ToSet(a.got), s, st.seen)
    BY <1>4, <1>6 DEF SoundFor
<1>8. /\ objs' \in Seq(State) /\ Len(objs') = p /\ p \in Nat /\ objs'[p] = st
      /\ \A q \in 1..Len(objs) : objs'[q] = objs[q]
    <2> HIDE DEF st
    <2> QED
        BY <1>1, <1>3, <1>4, ObjsAppended
<1>9. /\ p = Len(objs) + 1 /\ Len(objs) <= Len(objs') /\ p <= Len(objs')
      /\ \A x \in 1..Len(objs') : x # p => x <= Len(objs) /\ objs'[x] = objs[x]
    BY <1>3, <1>8
<1> HIDE DEF st, a, p
<1>10. ASSUME NEW step \in Steps, NEW r \in RequestData, step \in {"idle", "compute"},
              pc' = [pc EXCEPT ![t] = step], req' = [req EXCEPT ![t] = r],
              step = "compute" => r.s = s /\ r.ptr = p,
              r.entry <= Len(log), r.since <= Len(log), r.ptr <= Len(objs'),
              manifest' = Unknown \/ manifest' \in Nat \X Index
       PROVE  IInv'
    <2>1. pc[t] # "idle" /\ req[t].s = s /\ (step # "idle" => r.s = s)
          /\ step \in {"idle", "check", "compute"}
        BY <1>1, <1>10
    <2> HIDE DEF s
    <2>2. Moved(owner, t, s, step, r, p, p, st, a)
        BY <1>1, <1>2, <1>4, <1>5, <1>7, <1>8, <1>9, <1>10, <2>1 DEF Moved
    <2> QED
        BY <1>2, <1>o, <1>4, <1>5, <1>8, <1>10, <2>2, TrackerStep
<1>11. ASSUME manifest' = Current,
              req' = [req EXCEPT ![t].ptr = Len(objs) + 1, ![t].found = newSessionState],
              Goto(t, "compute")
       PROVE  IInv'
    <2> DEFINE r == [req[t] EXCEPT !.ptr = p, !.found = newSessionState]
    <2>1. /\ r \in RequestData /\ r.s = s /\ r.ptr = p /\ r.since = req[t].since
          /\ r.entry = req[t].entry
        BY <1>2, <1>8, Constants DEF RequestData
    <2>2. req' = [req EXCEPT ![t] = r] /\ pc' = [pc EXCEPT ![t] = "compute"]
        BY <1>11 DEF Goto, p
    <2>3. manifest' = Unknown \/ manifest' \in Nat \X Index
        BY <1>0, <1>11, CurrentTyped
    <2> HIDE DEF r
    <2> QED
        BY <1>2, <1>9, <1>10, <2>1, <2>2, <2>3 DEF Steps
<1>12. ASSUME Return(t), manifest' = manifest PROVE IInv'
    <2>1. pc' = [pc EXCEPT ![t] = "idle"] /\ req' = [req EXCEPT ![t] = NoReq]
        BY <1>12 DEF Return, Goto
    <2>2. NoReq \in RequestData /\ NoReq.entry <= Len(log) /\ NoReq.ptr <= Len(objs')
          /\ NoReq.since <= Len(log)
        BY <1>0, <1>8, NoReqBounds
    <2>3. manifest' = Unknown \/ manifest' \in Nat \X Index
        BY <1>0, <1>12 DEF Types
    <2> QED
        BY <1>10, <2>1, <2>2, <2>3 DEF Steps
<1> QED
    BY <1>11, <1>12 DEF Install

LEMMA StoreStep ==
    ASSUME IInv, NEW t \in Threads, Store(t) PROVE IInv'
<1> DEFINE s == req[t].s
           p == req[t].ptr
           q == sessions[s]
           got == req[t].found.results
           st == [objs[p] EXCEPT !.results = got, !.dirty = FALSE]
           a == [got |-> got, since |-> req[t].since]
<1>0. Types
    BY DEF IInv
<1>1. /\ pc[t] = "store" /\ UNCHANGED <<log, sessions, manifest, requests, restarted, overlapped>>
      /\ objs' = [objs EXCEPT ![p].results = got, ![p].dirty = FALSE]
      /\ Answer(t, got, req[t].since) /\ Return(t)
    BY DEF Store, history
<1>2. /\ s \in Sessions /\ req[t] \in RequestData /\ req[t].since <= Len(log)
      /\ req[t].entry <= Len(log) /\ p <= Len(objs) /\ requests \in 0..MaxRequests
      /\ s \notin overlapped => Only(t, s)
    BY <1>1, RequestAt
<1>3. Len(log) \in Nat /\ Len(objs) \in Nat /\ restarted \in BOOLEAN /\ log \in Seq(Entry)
      /\ objs \in Seq(State)
    BY <1>0 DEF Types
<1>o. PICK owner : Owned(owner)
    BY DEF IInv
<1>4. s \notin overlapped => p = q /\ Linked(log, objs[p].seen) /\ got = objs[p].seen
    BY <1>1 DEF IInv, RequestSound
<1>5. /\ p \in 1..Len(objs) /\ p \in Nat /\ objs[p] \in State /\ owner[p] = s
      /\ StateOf(log, s, objs[p])
    <2>1. p # 0 /\ owner[p] = s /\ p \in Nat
        BY <1>1, <1>2, <1>o DEF Owned, RequestData
    <2>2. p \in 1..Len(objs)
        BY <1>2, <1>3, <2>1
    <2> QED
        BY <1>3, <1>o, <2>1, <2>2 DEF Owned
<1>6. got \in Seq(Index) /\ Of(log, s, got)
    BY <1>1, <1>2 DEF RequestData, State, IInv, Carries, StateOf
<1>7. st \in State /\ st.seen = objs[p].seen /\ st.results = got /\ ~st.dirty /\ StateOf(log, s, st)
    BY <1>5, <1>6 DEF State, StateOf
<1>8. s \notin overlapped => SoundFor(s, objs[p].seen)
    BY <1>2, <1>4, <1>5 DEF IInv, SessionSound, SeenOf
<1>9. s \notin overlapped => Waits(s) = {}
    BY <1>1, <1>2, NoWait
<1>10. a \in AnswerData /\ a.got = got /\ a.since = req[t].since /\ a.since \in Nat
    BY <1>2, <1>6 DEF AnswerData, RequestData
<1>11. answers' = [answers EXCEPT ![s] = a] /\ objs' = [objs EXCEPT ![p] = st]
    BY <1>1, <1>3, <1>5 DEF Answer
<1>12. pc' = [pc EXCEPT ![t] = "idle"] /\ req' = [req EXCEPT ![t] = NoReq]
    BY <1>1 DEF Return, Goto
<1> DEFINE kept == ~restarted
           shown == ToSet(answers[s].got)
           seq == objs[p].seen
<1>13. kept \in BOOLEAN /\ (s \notin overlapped => Sound(log, {}, kept, shown, s, seq))
    BY <1>3, <1>8, <1>9 DEF SoundFor
<1>14. q \in Nat /\ sessions' = [sessions EXCEPT ![s] = q]
    BY <1>0, <1>1, <1>2 DEF Types
<1>15. /\ st.seen = seq /\ (s \notin overlapped => p = q /\ Linked(log, seq) /\ a.got = seq)
    BY <1>4, <1>7, <1>10
<1> HIDE DEF s, p, q, got, st, seq, a, kept, shown
<1>16. s \notin overlapped => Answered(log, kept, s, a) /\ Sound(log, {}, kept, ToSet(seq), s, seq)
    BY <1>2, <1>3, <1>10, <1>13, <1>15, SoundAnswer
<1>17. s \notin overlapped => Honest(log, st)
    BY <1>7, <1>10, <1>15 DEF Honest
<1>18. /\ objs' \in Seq(State) /\ Len(objs') = Len(objs) /\ objs'[p] = st
       /\ \A x \in 1..Len(objs) : x # p => objs'[x] = objs[x]
    BY <1>3, <1>5, <1>7, <1>11, ObjsChanged
<1>19. /\ Len(objs) <= Len(objs') /\ p <= Len(objs')
       /\ \A x \in 1..Len(objs') : x # p => x <= Len(objs) /\ objs'[x] = objs[x]
    BY <1>3, <1>5, <1>18
<1>20. manifest' = Unknown \/ manifest' \in Nat \X Index
    BY <1>0, <1>1 DEF Types
<1>21. /\ NoReq \in RequestData /\ NoReq.entry <= Len(log) /\ NoReq.ptr <= Len(objs')
       /\ NoReq.since <= Len(log)
    BY <1>0, <1>3, <1>18, NoReqBounds
<1>22. pc[t] # "idle" /\ req[t].s = s /\ "idle" \in Steps
    BY <1>1 DEF s, Steps
<1>23. s \notin overlapped => /\ Answered(log, ~restarted, s, a)
                              /\ Sound(log, {}, ~restarted, ToSet(a.got), s, st.seen)
    BY <1>15, <1>16 DEF kept
<1>24. Of(log, s, a.got)
    BY <1>6, <1>10
<1>25. q = p \/ q = sessions[s]
    BY DEF q, s
<1>26. Moved(owner, t, s, "idle", NoReq, p, q, st, a)
    BY <1>1, <1>5, <1>7, <1>11, <1>12, <1>14, <1>15, <1>17, <1>18, <1>19,
       <1>20, <1>21, <1>22, <1>23, <1>24, <1>25 DEF Moved
<1> QED
    BY <1>2, <1>o, <1>5, <1>7, <1>10, <1>14, <1>21, <1>22, <1>26, TrackerStep

\* A process that knows nothing yet.
LEMMA SoundNothing ==
    ASSUME NEW lg \in Seq(Entry), NEW kept \in BOOLEAN, NEW s, ~kept \/ Len(lg) = 0
    PROVE  /\ Sound(lg, {}, kept, {}, s, <<>>)
           /\ Answered(lg, kept, s, NoAnswer)
<1>1. <<>> \in Seq(Index) /\ Distinct(<<>>) /\ ToSet(<<>>) = {}
    BY DEF Distinct, ToSet
<1>2. 0 \in 0..Len(lg) /\ RefOf(lg, s, 0) = <<>> /\ 0 <= Len(lg) /\ \A i \in 1..0 : FALSE
    BY RefZero
<1>3. Len(lg) = 0 => (\A i \in (0 + 1)..Len(lg) : FALSE) /\ \A i \in 1..Len(lg) : FALSE
    OBVIOUS
<1>4. Sound(lg, {}, kept, {}, s, <<>>)
    BY <1>1, <1>2, <1>3 DEF Sound
<1> DEFINE a == NoAnswer
<1>5. a.got = <<>> /\ a.since = 0
    BY DEF NoAnswer
<1> HIDE DEF a
<1>6. Answered(lg, kept, s, a)
    BY <1>1, <1>2, <1>3, <1>5 DEF Answered, Linked
<1> QED
    BY <1>4, <1>6 DEF a

\* A process that has just begun, on whatever log.
Fresh ==
    /\ \A t \in Threads : pc[t] = "idle" /\ req[t] = NoReq
    /\ objs = <<>> /\ overlapped = {}
    /\ \A s \in Sessions : sessions[s] = 0 /\ answers[s] = NoAnswer
    /\ restarted \/ log = <<>>

LEMMA FreshSound == Types /\ ReportsBack(log) /\ Fresh => IInv
<1> SUFFICES ASSUME Types, ReportsBack(log), Fresh PROVE IInv
    OBVIOUS
<1>1. log \in Seq(Entry) /\ restarted \in BOOLEAN /\ (restarted \/ Len(log) = 0)
    BY DEF Types, Fresh
<1>2. \A s : Waits(s) = {}
    BY DEF Fresh, Waits
<1>3. ASSUME NEW s \in Sessions PROVE SessionSound(s) /\ AnswerSound(s) /\ AnswerOwn(s)
    <2> DEFINE kept == ~restarted
    <2>1. kept \in BOOLEAN /\ (~kept \/ Len(log) = 0)
        BY <1>1
    <2>2. sessions[s] = 0 /\ answers[s] = NoAnswer /\ NoAnswer.got = <<>> /\ ToSet(<<>>) = {}
        BY DEF Fresh, NoAnswer, ToSet
    <2> HIDE DEF kept
    <2>3. Sound(log, {}, kept, {}, s, <<>>) /\ Answered(log, kept, s, NoAnswer)
        BY <1>1, <2>1, SoundNothing
    <2>4. SessionSound(s)
        BY <1>2, <2>2, <2>3 DEF SessionSound, SoundFor, SeenOf, kept
    <2>5. AnswerSound(s) /\ AnswerOwn(s)
        BY <2>2, <2>3 DEF AnswerSound, AnswerOwn, Of, kept
    <2> QED
        BY <2>4, <2>5
<1>4. \A t \in Threads : Carries(t)
    BY DEF Fresh, Carries
<1>5. \E owner : Owned(owner)
    <2>1. PICK owner \in [1..0 -> Sessions] : TRUE
        <3>1. [x \in 1..0 |-> CHOOSE s \in Sessions : TRUE] \in [1..0 -> Sessions]
            OBVIOUS
        <3> QED
            BY <3>1
    <2>2. Len(objs) = 0 /\ \A x \in 1..0 : FALSE
        BY DEF Fresh
    <2>3. Owned(owner)
        BY <2>1, <2>2 DEF Owned, Fresh
    <2> QED
        BY <2>3
<1> QED
    BY <1>3, <1>4, <1>5 DEF IInv, Fresh

LEMMA InitStep == Init => IInv
<1> SUFFICES ASSUME Init PROVE IInv
    OBVIOUS
<1>1. Types
    BY InitTypes
<1>2. log = <<>> /\ Len(log) = 0
    BY DEF Init
<1>3. ReportsBack(log)
    BY <1>2 DEF ReportsBack
<1>4. Fresh
    BY DEF Init, Fresh
<1> QED
    BY <1>1, <1>3, <1>4, FreshSound

LEMMA RestartStep == IInv /\ Restart => IInv'
<1> SUFFICES ASSUME IInv, Restart PROVE IInv'
    OBVIOUS
<1>0. Types /\ ReportsBack(log)
    BY DEF IInv
<1>1. /\ pc' = [t \in Threads |-> "idle"] /\ req' = [t \in Threads |-> NoReq] /\ objs' = <<>>
      /\ sessions' = [s \in Sessions |-> 0] /\ manifest' = Unknown
      /\ answers' = [s \in Sessions |-> NoAnswer] /\ overlapped' = {} /\ restarted' = TRUE
      /\ UNCHANGED <<log, requests>>
    BY DEF Restart
<1>2. NoReq \in RequestData /\ NoReq.entry <= Len(log) /\ NoReq.ptr = 0 /\ NoReq.since <= Len(log)
    BY <1>0, NoReqBounds
<1>3. objs' \in Seq(State) /\ Len(objs') = 0
    BY <1>1
<1>4. sessions' \in [Sessions -> 0..Len(objs')]
    BY <1>1, <1>3
<1>5. req' \in [Threads -> RequestData]
      /\ \A t \in Threads : /\ req'[t].entry <= Len(log') /\ req'[t].since <= Len(log')
                            /\ req'[t].ptr <= Len(objs')
    BY <1>1, <1>2, <1>3
<1>6. answers' \in [Sessions -> AnswerData]
    <2>1. NoAnswer \in AnswerData
        BY DEF NoAnswer, AnswerData
    <2> QED
        BY <1>1, <2>1
<1>7. pc' \in [Threads -> Steps]
    BY <1>1 DEF Steps
<1>8. Types'
    BY <1>0, <1>1, <1>3, <1>4, <1>5, <1>6, <1>7 DEF Types
<1>9. Fresh'
    BY <1>1 DEF Fresh
<1>10. ReportsBack(log)'
    BY <1>0, <1>1
<1>11. (Types /\ ReportsBack(log) /\ Fresh => IInv)'
    BY FreshSound, PTL
<1> QED
    BY <1>8, <1>9, <1>10, <1>11

LEMMA StutterStep == IInv /\ UNCHANGED vars => IInv'
<1> SUFFICES ASSUME IInv, UNCHANGED vars PROVE IInv'
    OBVIOUS
<1>1. UNCHANGED <<log, pc, req, objs, sessions, manifest, answers, requests, restarted, overlapped>>
    BY DEF vars
<1>2. Types /\ Types' /\ ReportsBack(log')
    BY <1>1 DEF IInv, Types, Unknown
<1>3. Grown(log, log') /\ \A r : NoneOwn(r)
    BY <1>1, <1>2, GrownSame
<1> QED
    BY <1>1, <1>2, <1>3, QuietStep

LEMMA TrackerInductive == Spec => []IInv
<1>1. ASSUME IInv, [Next]_vars PROVE IInv'
    <2>1. ASSUME NEW t \in Threads, Request(t) PROVE IInv'
        BY <1>1, <2>1, RecordStep, RecordLostStep, RecordFailureStep, ObserveStep, CheckStep,
           ScanStep, InstallStep, ComputeStep, StoreStep, FailStep DEF Request
    <2> QED
        BY <1>1, <2>1, ExternalWriteStep, RestartStep, StutterStep DEF Next
<1> QED
    BY <1>1, InitStep, PTL DEF Spec

\* The invariant in the terms of the model.
LEMMA InvariantHolds == IInv => StatesSound /\ ExactAlone /\ AnswersLinked
<1> SUFFICES ASSUME IInv PROVE StatesSound /\ ExactAlone /\ AnswersLinked
    OBVIOUS
<1>0. Types /\ Len(log) \in Nat /\ Len(objs) \in Nat
    BY DEF IInv, Types
<1>1. \A s \in Sequential : /\ Answered(log, ~restarted, s, answers[s])
                            /\ answers[s].since \in Nat
    BY <1>0 DEF IInv, AnswerSound, Types, AnswerData, Sequential
<1>2. \A s : Alone(s) <=> ~restarted /\ Mine(log, s)
    BY DEF Alone, Mine
<1>3. AnswersApart
    BY DEF IInv, AnswerOwn, Of, Counts, AnswersApart, Assessed, Member
<1>4. TypeOK
    <2>1. \A t \in Threads : req[t].s \in Sessions /\ req[t].entry \in 0..Len(log)
                             /\ req[t].ptr \in 0..Len(objs) /\ req[t].found \in State
        BY <1>0 DEF Types, RequestData
    <2>2. \A s \in Sessions : ToSet(answers[s].got) \subseteq 1..Len(log)
        BY DEF IInv, AnswerOwn, Of
    <2> QED
        BY <1>0, <2>1, <2>2 DEF Types, TypeOK, Steps
<1>5. ASSUME NEW s \in Sequential, Alone(s), sessions[s] # 0,
             ~\E t \in Threads : pc[t] = "observe" /\ req[t].s = s
      PROVE  Clean(objs[sessions[s]]).results = Reference(s, Len(log))
    <2> DEFINE st == objs[sessions[s]]
    <2>1. Waits(s) = {}
        BY <1>5 DEF Waits
    <2>2. SoundFor(s, st.seen) /\ Honest(log, st)
        BY <1>5 DEF IInv, SessionSound, SeenOf, Sequential
    <2>3. st \in State
        BY <1>0, <1>5 DEF Types, Sequential
    <2>4. PICK n \in 0..Len(log) : /\ st.seen = RefOf(log, s, n)
                                   /\ \A i \in (n + 1)..Len(log) : ~Counts(log, s, i)
        BY <1>2, <1>5, <2>1, <2>2 DEF SoundFor, Sound
    <2>5. RefOf(log, s, Len(log)) = RefOf(log, s, n)
        BY <1>0, <2>4, RefSame
    <2> HIDE DEF st
    <2>6. Clean(st).results = st.seen
        BY <2>2, <2>3, CleanTyped DEF Honest
    <2> QED
        BY <2>4, <2>5, <2>6, ReferenceOf DEF st
<1>6. CacheCurrent
    BY <1>5 DEF CacheCurrent
<1>7. OwnCovered
    BY <1>1 DEF OwnCovered, Answered, Counts
<1>8. ExactAlone
    BY <1>1, <1>2, ReferenceOf DEF ExactAlone, Exact, Answered
<1>9. AnswersLinked
    BY <1>1 DEF AnswersLinked, Answered, Linked
<1> QED
    BY <1>3, <1>4, <1>6, <1>7, <1>8, <1>9 DEF StatesSound

\* A new answer contains what the last one showed.
Grows == \A s \in Sequential : ToSet(answers[s].got) \subseteq ToSet(answers'[s].got)
LEMMA AnswersGrow == IInv /\ [Next]_vars => Restart \/ Grows
<1> SUFFICES ASSUME IInv, [Next]_vars, ~Restart, NEW s \in Sessions \ overlapped
             PROVE  ToSet(answers[s].got) \subseteq ToSet(answers'[s].got)
    BY DEF Grows, Sequential
<1>0. answers \in [Sessions -> AnswerData]
    BY DEF IInv, Types, AnswerData
<1>1. ASSUME NEW t \in Threads, pc[t] # "idle", NEW seq, NEW since, Answer(t, seq, since),
             req[t].s \notin overlapped => SoundFor(req[t].s, seq)
      PROVE  ToSet(answers[s].got) \subseteq ToSet(answers'[s].got)
    <2>1. CASE s = req[t].s
        <3>1. answers'[s].got = seq
            BY <1>0, <1>1, <2>1 DEF Answer
        <3>2. ToSet(answers[s].got) \subseteq ToSet(seq)
            BY <1>1, <2>1 DEF SoundFor, Sound
        <3> QED
            BY <3>1, <3>2
    <2>2. CASE s # req[t].s
        BY <1>0, <1>1, <2>2 DEF Answer
    <2> QED
        BY <2>1, <2>2
<1>2. ASSUME NEW t \in Threads, Check(t)
      PROVE  ToSet(answers[s].got) \subseteq ToSet(answers'[s].got)
    <2> DEFINE p == sessions[req[t].s]
    <2>1. pc[t] = "check" /\ req[t].s \in Sessions
        BY <1>2 DEF Check, IInv, Types, RequestData
    <2>2. CASE p # 0 /\ Answer(t, Clean(objs[p]).results, Len(log))
        <3>1. objs[p] \in State
            BY <2>1, <2>2 DEF IInv, Types
        <3>2. req[t].s \notin overlapped => SoundFor(req[t].s, objs[p].seen) /\ Honest(log, objs[p])
            BY <2>1, <2>2 DEF IInv, SessionSound, SeenOf
        <3>3. req[t].s \notin overlapped => Clean(objs[p]).results = objs[p].seen
            BY <3>1, <3>2, CleanTyped DEF Honest
        <3> QED
            BY <1>1, <2>1, <2>2, <3>2, <3>3
    <2>3. CASE answers' = answers
        BY <2>3
    <2> QED
        BY <1>2, <2>2, <2>3 DEF Check
<1>3. ASSUME NEW t \in Threads, Store(t)
      PROVE  ToSet(answers[s].got) \subseteq ToSet(answers'[s].got)
    <2> DEFINE p == req[t].ptr
    <2>1. pc[t] = "store" /\ req[t].s \in Sessions /\ Answer(t, req[t].found.results, req[t].since)
        BY <1>3 DEF Store, IInv, Types, RequestData
    <2>2. req[t].s \notin overlapped =>
             p = sessions[req[t].s] /\ p # 0 /\ req[t].found.results = objs[p].seen
        BY <2>1 DEF IInv, RequestSound
    <2>3. req[t].s \notin overlapped => SoundFor(req[t].s, objs[p].seen)
        BY <2>1, <2>2 DEF IInv, SessionSound, SeenOf
    <2> QED
        BY <1>1, <2>1, <2>2, <2>3
<1>4. CASE answers' = answers
    BY <1>4
<1> QED
    BY <1>2, <1>3, <1>4 DEF Next, Request, Record, RecordLost, RecordFailure, Observe, Scan,
       Install, Compute, Fail, ExternalWrite, vars

-----------------------------------------------------------------------------
\* For every session whose client waits for each answer, whatever other sessions,
\* processes, failures, busy stores and restarts do: when nobody else writes to
\* it, the cached state is what a rebuild would make; and no answer misses or
\* repeats an entry this process recorded.  For every session, also with requests
\* that overlap: no answer shows another session's entry (Observe, Snapshot,
\* rebuildSession).
THEOREM StatesStaySound == Spec => []StatesSound
BY TrackerInductive, InvariantHolds, PTL

\* A session that nobody else writes to and whose client waits for each answer
\* is answered with exactly its entries, up to a point not before the manifest
\* check of Snapshot.
THEOREM AnswersStayExact == Spec => []ExactAlone
BY TrackerInductive, InvariantHolds, PTL

\* In a session whose client waits for each answer, no report is assessed
\* without its prescription, whoever wrote the two (observeEntry's invalid).
THEOREM ReportsStayLinked == Spec => []AnswersLinked
BY TrackerInductive, InvariantHolds, PTL

\* What an answer showed to a client that waits for each answer, the session's
\* later answers show, until a restart.
THEOREM AnswersOnlyGrow == Spec => AnswersMonotone
BY TrackerInductive, AnswersGrow, PTL DEF Spec, AnswersMonotone, Grows
=============================================================================
