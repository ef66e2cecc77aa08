----------------------- MODULE GitOpsControllerProofs -----------------------
(***************************************************************************)
(* Theorems about GitOpsController for any finite number of applications   *)
(* and any replicas, operations and faults: what their evidence never      *)
(* holds twice, and the order it is in.                                     *)
(***************************************************************************)
EXTENDS GitOpsController, FiniteSetTheorems, TLAPS

\* A finite set as a sequence: a numbering of its elements.
LEMMA Numbering ==
    ASSUME NEW S, IsFiniteSet(S)
    PROVE  /\ Cardinality(S) \in Nat
           /\ SetToSeq(S) \in [1..Cardinality(S) -> S]
<1>1. Cardinality(S) \in Nat /\ ExistsBijection(1..Cardinality(S), S)
    BY FS_CardinalityType
<1>2. \E f \in [1..Cardinality(S) -> S] : IsInjective(f)
    <2>1. PICK f \in Bijection(1..Cardinality(S), S) : TRUE
        BY <1>1 DEF ExistsBijection
    <2>2. f \in [1..Cardinality(S) -> S]
        BY <2>1 DEF Bijection, Injection
    <2>3. IsInjective(f)
        BY <2>1 DEF Bijection, Injection
    <2> QED
        BY <2>2, <2>3
<1> QED
    BY <1>1, <1>2 DEF SetToSeq

\* The elements of a concatenation.
LEMMA Concatenated ==
    ASSUME NEW S, NEW s \in Seq(S), NEW t \in Seq(S), NEW i \in 1..Len(s \o t)
    PROVE  \/ i \in 1..Len(s) /\ (s \o t)[i] = s[i]
           \/ i - Len(s) \in 1..Len(t) /\ (s \o t)[i] = t[i - Len(s)]
OBVIOUS

\* SyncOnce hands over the objects as they are in the cluster, and no other.
LEMMA SyncIsCluster ==
    ASSUME IsFiniteSet(Apps), cluster \in [Apps -> Object]
    PROVE  /\ SyncOrder \in Seq(Object)
           /\ \A i \in 1..Len(SyncOrder) : \E a \in Apps : SyncOrder[i] = cluster[a]
<1> DEFINE Running == {a \in Apps : cluster[a].phase = "running"}
           Objects(s) == [i \in 1..Cardinality(s) |-> cluster[SetToSeq(s)[i]]]
<1>1. ASSUME NEW s, s \subseteq Apps, IsFiniteSet(s)
      PROVE  /\ Objects(s) \in Seq(Object)
             /\ \A i \in 1..Len(Objects(s)) : \E a \in Apps : Objects(s)[i] = cluster[a]
    <2>1. Cardinality(s) \in Nat /\ SetToSeq(s) \in [1..Cardinality(s) -> s]
        BY <1>1, Numbering
    <2>2. \A i \in 1..Cardinality(s) : SetToSeq(s)[i] \in Apps
        BY <1>1, <2>1
    <2> QED
        BY <2>1, <2>2
<1>2. IsFiniteSet(Running) /\ IsFiniteSet(Apps \ Running)
    BY FS_Subset
<1>3. /\ Objects(Running) \in Seq(Object)
      /\ \A i \in 1..Len(Objects(Running)) : \E a \in Apps : Objects(Running)[i] = cluster[a]
    BY <1>1, <1>2
<1>4. /\ Objects(Apps \ Running) \in Seq(Object)
      /\ \A i \in 1..Len(Objects(Apps \ Running)) :
            \E a \in Apps : Objects(Apps \ Running)[i] = cluster[a]
    BY <1>1, <1>2
<1>5. SyncOrder = Objects(Running) \o Objects(Apps \ Running)
    BY DEF SyncOrder
<1> HIDE DEF Objects
<1>6. SyncOrder \in Seq(Object)
    BY <1>3, <1>4, <1>5
<1>7. ASSUME NEW i \in 1..Len(SyncOrder)
      PROVE  \E a \in Apps : SyncOrder[i] = cluster[a]
    <2>1. CASE i \in 1..Len(Objects(Running)) /\ SyncOrder[i] = Objects(Running)[i]
        BY <1>3, <2>1
    <2>2. CASE /\ i - Len(Objects(Running)) \in 1..Len(Objects(Apps \ Running))
               /\ SyncOrder[i] = Objects(Apps \ Running)[i - Len(Objects(Running))]
        BY <1>4, <2>2
    <2> QED
        <3>1. /\ Objects(Running) \in Seq(Object) /\ Objects(Apps \ Running) \in Seq(Object)
              /\ i \in 1..Len(Objects(Running) \o Objects(Apps \ Running))
            BY <1>3, <1>4, <1>5, <1>7
        <3> QED
            BY <3>1, <1>5, <2>1, <2>2, Concatenated
<1> QED
    BY <1>6, <1>7

-----------------------------------------------------------------------------
(* Types                                                                    *)

LEMMA Values ==
    ASSUME TypeOK, NEW o \in Object, NEW p \in Replicas
    PROVE  /\ KeyOf(o) \in Key
           /\ KindOf(o) \in Kind
           /\ Prescription(o) \in [app: Apps, id: Nat]
           /\ Entry(p, o) \in [key: Key, kind: Kind, ref: [app: Apps, id: Nat], by: Replicas]
<1> o \in [app: Apps, op: Nat, rev: Nat, phase: Phase]
    <2>1. 0..MaxOps \subseteq Nat /\ Revisions \cup {0} \subseteq Nat
        BY ControllerAssumption
    <2> QED
        BY <2>1 DEF Object
<1>1. KindOf(o) \in Kind
    BY DEF KindOf, Kind
<1>2. OperationOrRevision(o) \in Nat
    <2>1. o.op \in Nat /\ o.rev \in Nat
        OBVIOUS
    <2> QED
        BY <2>1, Zenon DEF OperationOrRevision
<1>3. KeyOf(o) \in Key
    <2>1. (IF notes[o.app].operation THEN "none" ELSE o.phase) \in Phase
        BY DEF Phase
    <2> QED
        BY <1>1, <1>2, <2>1 DEF KeyOf, Key
<1>4. Prescription(o) \in [app: Apps, id: Nat]
    BY <1>2 DEF Prescription
<1> QED
    BY <1>1, <1>3, <1>4 DEF Entry

LEMMA InitType == Init => TypeOK
<1> SUFFICES ASSUME Init PROVE TypeOK
    OBVIOUS
<1>1. \A a \in Apps : Unsynced(a) \in Object
    BY ControllerAssumption DEF Unsynced, Object, Phase
<1>2. (CHOOSE a \in Apps : TRUE) \in Apps
    BY ControllerAssumption
<1> QED
    BY <1>1, <1>2, ControllerAssumption DEF Init, TypeOK

LEMMA FaultType ==
    ASSUME TypeOK, NEW kind, Fault(kind)
    PROVE  /\ faults' \in [FaultKinds -> Nat] /\ notes' = notes
           /\ kind \in FaultKinds /\ faults' = [faults EXCEPT ![kind] = @ + 1]
<1>1. kind \in FaultKinds /\ faults' = [faults EXCEPT ![kind] = @ + 1] /\ notes' = notes
    BY DEF Fault
<1>2. faults[kind] + 1 \in Nat
    BY <1>1 DEF TypeOK
<1> QED
    BY <1>1, <1>2 DEF TypeOK

\* One step of a type: what every action leaves typed.
LEMMA NextType == TypeOK /\ [Next]_vars => TypeOK'
<1> SUFFICES ASSUME TypeOK, [Next]_vars PROVE TypeOK'
    OBVIOUS
<1> USE ControllerAssumption
<1>1. ASSUME NEW a \in Apps, NEW o \in Object, Change(a, o), ops' \in 0..MaxOps
      PROVE  TypeOK'
    <2>1. todo' \in [Replicas -> Seq(Object)]
        BY <1>1 DEF Change, TypeOK
    <2> QED
        BY <1>1, <2>1 DEF Change, TypeOK
<1>2. ASSUME NEW a \in Apps, StartSync(a) PROVE TypeOK'
    <2>1. PICK rev \in Revisions :
             Change(a, [app |-> a, op |-> ops + 1, rev |-> rev, phase |-> "running"])
        BY <1>2 DEF StartSync
    <2>2. ops + 1 \in 0..MaxOps /\ ops' = ops + 1
        BY <1>2 DEF StartSync, TypeOK
    <2>3. [app |-> a, op |-> ops + 1, rev |-> rev, phase |-> "running"] \in Object
        BY <2>2 DEF Object, Phase
    <2> QED
        BY <1>1, <2>1, <2>2, <2>3
<1>3. ASSUME NEW a \in Apps, FinishSync(a) PROVE TypeOK'
    <2>1. PICK phase \in Done : Change(a, [cluster[a] EXCEPT !.phase = phase])
        BY <1>3 DEF FinishSync
    <2>2. [cluster[a] EXCEPT !.phase = phase] \in Object
        <3>1. cluster[a] \in Object
            BY DEF TypeOK
        <3> QED
            BY <3>1 DEF Object, Phase, Done
    <2>3. ops' \in 0..MaxOps
        BY <1>3 DEF FinishSync, TypeOK
    <2> QED
        BY <1>1, <2>1, <2>2, <2>3
<1>4. ASSUME NEW p \in Replicas, Boot(p) \/ OpenWatch(p) PROVE TypeOK'
    <2>1. SyncOrder \in Seq(Object)
        BY SyncIsCluster DEF TypeOK
    <2> QED
        BY <1>4, <2>1 DEF Boot, OpenWatch, Goto, TypeOK
<1>5. ASSUME NEW p \in Replicas, Take(p) PROVE TypeOK'
    BY <1>5 DEF Take, Goto, TypeOK
<1>6. ASSUME NEW p \in Replicas, Claim(p) PROVE TypeOK'
    BY <1>6, Values DEF Claim, Goto, TypeOK
<1>7. ASSUME NEW p \in Replicas, Save(p) PROVE TypeOK'
    <2>1. Entry(p, cur[p]) \in [key: Key, kind: Kind, ref: [app: Apps, id: Nat], by: Replicas]
        BY Values DEF TypeOK
    <2>2. CASE Goto(p, "release") /\ Abandon(p) /\ UNCHANGED rows
        <3>1. KeyOf(cur[p]) \in Key
            BY Values DEF TypeOK
        <3> QED
            BY <1>7, <2>2, <3>1 DEF Save, Abandon, Goto, TypeOK
    <2>3. CASE /\ Goto(p, "loop") /\ rows' = Append(rows, Entry(p, cur[p]))
               /\ UNCHANGED abandoned
        BY <1>7, <2>1, <2>3 DEF Save, Goto, TypeOK
    <2> QED
        BY <1>7, <2>2, <2>3 DEF Save
<1>8. ASSUME NEW p \in Replicas, Release(p) PROVE TypeOK'
    BY <1>8 DEF Release, Die, Goto, TypeOK
<1>9. ASSUME NEW p \in Replicas, CloseWatch(p) PROVE TypeOK'
    <2>1. PICK n \in 0..Len(todo[p]) : todo' = [todo EXCEPT ![p] = SubSeq(@, 1, n)]
        BY <1>9 DEF CloseWatch
    <2>2. SubSeq(todo[p], 1, n) \in Seq(Object)
        BY DEF TypeOK
    <2> QED
        BY <1>9, <2>1, <2>2, FaultType DEF CloseWatch, TypeOK
<1>10. ASSUME NEW p \in Replicas, QueryFails(p) PROVE TypeOK'
    <2>1. faults' \in [FaultKinds -> Nat] /\ notes' = notes
        BY <1>10, FaultType DEF QueryFails
    <2>2. CASE Die(p) /\ UNCHANGED abandoned
        BY <1>10, <2>1, <2>2 DEF QueryFails, Die, Goto, TypeOK
    <2>3. CASE /\ pc[p] = "save" /\ Goto(p, "release") /\ Abandon(p)
               /\ UNCHANGED <<todo, watching>>
        <3>1. KeyOf(cur[p]) \in Key
            BY Values DEF TypeOK
        <3> QED
            BY <1>10, <2>1, <2>3, <3>1 DEF QueryFails, Abandon, Goto, TypeOK
    <2> QED
        BY <1>10, <2>2, <2>3 DEF QueryFails
<1>11. ASSUME NEW p \in Replicas, ReplyLost(p) PROVE TypeOK'
    <2>1. faults' \in [FaultKinds -> Nat] /\ notes' = notes /\ cur[p] \in Object
        BY <1>11, FaultType DEF ReplyLost, TypeOK
    <2>2. CASE /\ claims' = claims \cup {KeyOf(cur[p])}
               /\ Die(p) /\ Abandon(p) /\ UNCHANGED rows
        <3>1. KeyOf(cur[p]) \in Key
            BY <2>1, Values
        <3> QED
            BY <1>11, <2>1, <2>2, <3>1 DEF ReplyLost, Abandon, Die, Goto, TypeOK
    <2>3. CASE /\ pc[p] = "save" /\ rows' = Append(rows, Entry(p, cur[p]))
               /\ Goto(p, "release") /\ UNCHANGED <<todo, watching, claims, abandoned>>
        BY <1>11, <2>1, <2>3, Values DEF ReplyLost, Goto, TypeOK
    <2> QED
        BY <1>11, <2>2, <2>3 DEF ReplyLost
<1>12. ASSUME NEW p \in Replicas, Stop(p) PROVE TypeOK'
    <2>1. faults' \in [FaultKinds -> Nat] /\ notes' = notes /\ KeyOf(cur[p]) \in Key
        BY <1>12, FaultType, Values DEF Stop, TypeOK
    <2> QED
        BY <1>12, <2>1 DEF Stop, Abandon, Goto, TypeOK
<1>13. ASSUME NEW p \in Replicas, Refused(p) PROVE TypeOK'
    BY <1>13, FaultType DEF Refused, Die, Goto, TypeOK
<1>14. CASE UNCHANGED vars
    BY <1>14 DEF vars, control, TypeOK
<1> QED
    BY <1>2, <1>3, <1>4, <1>5, <1>6, <1>7, <1>8, <1>9, <1>10, <1>11, <1>12, <1>13, <1>14
       DEF Next, Proceed

-----------------------------------------------------------------------------
(* Order                                                                    *)

\* Of one application, n is what o is or what became of it.
Before(o, n) ==
    o.op < n.op \/ (o.op = n.op /\ (n.phase = "running" => o.phase = "running"))

\* The operation of a report has ended for o and for all that comes after it.
Past(o, ref) == o.op > ref.id \/ (o.op = ref.id /\ o.phase # "running")

LEMMA BeforeOrder ==
    ASSUME NEW o \in Object, NEW n \in Object, Before(o, n)
    PROVE  /\ \A m \in Object : Before(n, m) => Before(o, m)
           /\ \A ref \in [app: Apps, id: Nat] : Past(o, ref) => Past(n, ref)
BY ControllerAssumption DEF Before, Past, Object

Busy(p) == pc[p] \in {"claim", "save"}

\* What a controller still has to handle, and the cluster after it, are in the
\* order in which they came about.
InOrder(p) ==
    /\ \A i \in 1..Len(todo[p]) :
          /\ Before(todo[p][i], cluster[todo[p][i].app])
          /\ \A j \in i+1..Len(todo[p]) :
                todo[p][i].app = todo[p][j].app => Before(todo[p][i], todo[p][j])
    /\ Busy(p) =>
          /\ Before(cur[p], cluster[cur[p].app])
          /\ \A i \in 1..Len(todo[p]) :
                todo[p][i].app = cur[p].app => Before(cur[p], todo[p][i])

\* An operation whose report it has recorded has ended for all of that.
AllPast(p, ref) ==
    /\ Past(cluster[ref.app], ref)
    /\ \A i \in 1..Len(todo[p]) : todo[p][i].app = ref.app => Past(todo[p][i], ref)
    /\ (Busy(p) /\ cur[p].app = ref.app) => Past(cur[p], ref)
Passed(p) ==
    \A r \in 1..Len(rows) :
        (/\ rows[r].by = p /\ rows[r].kind = "report"
         /\ notes[rows[r].ref.app].operation) => AllPast(p, rows[r].ref)

Placed == \A a \in Apps : cluster[a].app = a /\ cluster[a].op <= ops

Orders == \A p \in Replicas : InOrder(p) /\ Passed(p)

OrderInv == TypeOK /\ Placed /\ Orders

LEMMA RowTypes == TypeOK => \A r \in 1..Len(rows) : rows[r].ref \in [app: Apps, id: Nat]
<1> DEFINE Row == [key: Key, kind: Kind, ref: [app: Apps, id: Nat], by: Replicas]
<1>1. ASSUME TypeOK PROVE rows \in Seq(Row)
    BY <1>1 DEF TypeOK
<1>2. \A e \in Row : e.ref \in [app: Apps, id: Nat]
    OBVIOUS
<1> HIDE DEF Row
<1> QED
    BY <1>1, <1>2

LEMMA InitOrder == Init => OrderInv
<1> SUFFICES ASSUME Init PROVE OrderInv
    OBVIOUS
<1>1. TypeOK
    BY InitType
<1>2. Placed
    BY DEF Init, Placed, Unsynced
<1>3. Orders
    BY DEF Init, Orders, InOrder, Passed, Busy
<1> QED
    BY <1>1, <1>2, <1>3 DEF OrderInv

\* A controller that goes on with what it has, or stops, keeps the order; a
\* report it records is of the object in its hand.
LEMMA OrderKept ==
    ASSUME OrderInv, TypeOK', cluster' = cluster, notes' = notes,
           NEW q \in Replicas,
           NEW n \in 0..Len(todo[q]), todo'[q] = SubSeq(todo[q], 1, n),
           Busy(q)' => Busy(q) /\ cur'[q] = cur[q],
           \/ rows' = rows
           \/ \E p \in Replicas :
                 /\ rows' = Append(rows, Entry(p, cur[p])) /\ Busy(p) /\ ~Busy(p)'
    PROVE  InOrder(q)' /\ Passed(q)'
<1>1. /\ Len(todo'[q]) = n
      /\ \A i \in 1..Len(todo'[q]) : i \in 1..Len(todo[q]) /\ todo'[q][i] = todo[q][i]
    BY DEF OrderInv, TypeOK
<1>2. InOrder(q)'
    BY <1>1 DEF OrderInv, Orders, InOrder
<1>3. ASSUME NEW r \in 1..Len(rows'), rows'[r].by = q, rows'[r].kind = "report",
             notes'[rows'[r].ref.app].operation
      PROVE  AllPast(q, rows[r].ref)'
    <2>1. CASE r \in 1..Len(rows) /\ rows'[r] = rows[r]
        BY <1>1, <1>3, <2>1 DEF OrderInv, Orders, Passed, AllPast
    <2>2. ASSUME NEW p \in Replicas, rows'[r] = Entry(p, cur[p]), Busy(p), ~Busy(p)'
          PROVE  AllPast(q, rows[r].ref)'
        <3>1. p = q /\ rows'[r].ref = Prescription(cur[q]) /\ KindOf(cur[q]) = "report"
            BY <1>3, <2>2 DEF Entry
        <3>2. rows'[r].ref = [app |-> cur[q].app, id |-> cur[q].op]
            BY <1>3, <3>1 DEF Prescription, OperationOrRevision
        <3>3. cur[q].phase # "running" /\ cur[q] \in Object
            BY <3>1 DEF KindOf, OrderInv, TypeOK
        <3>4. Past(cur[q], rows'[r].ref) /\ rows'[r].ref \in [app: Apps, id: Nat]
            BY <3>2, <3>3, ControllerAssumption DEF Past, Object
        <3>5. Past(cluster[cur[q].app], rows'[r].ref)
            <4>1. Before(cur[q], cluster[cur[q].app])
                BY <3>1, <2>2 DEF OrderInv, Orders, InOrder
            <4>2. cluster[cur[q].app] \in Object
                BY <3>3 DEF OrderInv, TypeOK, Object
            <4> QED
                BY <3>3, <3>4, <4>1, <4>2, BeforeOrder
        <3>6. ASSUME NEW i \in 1..Len(todo[q]), todo[q][i].app = cur[q].app
              PROVE  Past(todo[q][i], rows'[r].ref)
            <4>1. Before(cur[q], todo[q][i])
                BY <3>1, <3>6, <2>2 DEF OrderInv, Orders, InOrder
            <4>2. todo[q] \in Seq(Object)
                BY DEF OrderInv, TypeOK
            <4>3. todo[q][i] \in Object
                BY <4>2
            <4> QED
                BY <3>3, <3>4, <4>1, <4>3, BeforeOrder
        <3> QED
            BY <1>1, <2>2, <3>1, <3>2, <3>5, <3>6 DEF AllPast
    <2>3. rows \in Seq([key: Key, kind: Kind, ref: [app: Apps, id: Nat], by: Replicas])
        BY DEF OrderInv, TypeOK
    <2>4. \A e : \A k \in 1..Len(Append(rows, e)) :
             \/ k \in 1..Len(rows) /\ Append(rows, e)[k] = rows[k]
             \/ Append(rows, e)[k] = e
        BY <2>3
    <2> QED
        BY <1>3, <2>1, <2>2, <2>4
<1>4. Passed(q)'
    BY <1>3 DEF Passed
<1> QED
    BY <1>2, <1>4

\* An Application changes, and whoever watches it is told so.
LEMMA OrderTold ==
    ASSUME OrderInv, TypeOK', NEW a \in Apps, NEW o \in Object, Change(a, o),
           o.app = a, Before(cluster[a], o), NEW q \in Replicas
    PROVE  InOrder(q)' /\ Passed(q)'
<1>1. /\ cluster' = [cluster EXCEPT ![a] = o] /\ todo[q] \in Seq(Object)
      /\ todo'[q] = todo[q] \/ todo'[q] = Append(todo[q], o)
      /\ notes' = notes /\ rows' = rows /\ cur' = cur /\ (Busy(q)' <=> Busy(q))
    BY DEF Change, OrderInv, TypeOK, Busy
<1>2. ASSUME NEW i \in 1..Len(todo'[q])
      PROVE  \/ i \in 1..Len(todo[q]) /\ todo'[q][i] = todo[q][i]
             \/ i = Len(todo'[q]) /\ todo'[q][i] = o
    BY <1>1
<1>3. \A b \in Apps : Before(cluster[b], cluster'[b]) /\ cluster[b] \in Object /\ cluster'[b] \in Object
    <2>1. ASSUME NEW b \in Apps
          PROVE  cluster[b] \in Object /\ Before(cluster[b], cluster[b])
        BY DEF Before, OrderInv, TypeOK
    <2>2. cluster \in [Apps -> Object]
        BY DEF OrderInv, TypeOK
    <2>3. ASSUME NEW b \in Apps
          PROVE  cluster'[b] = IF b = a THEN o ELSE cluster[b]
        BY <1>1, <2>2
    <2> QED
        BY <2>1, <2>3
<1>4. \A i \in 1..Len(todo[q]) : todo[q][i] \in Object /\ todo[q][i].app \in Apps
    <2>1. \A i \in 1..Len(todo[q]) : todo[q][i] \in Object
        BY <1>1
    <2> QED
        BY <2>1 DEF Object
<1>5. \A i \in 1..Len(todo[q]) : Before(todo[q][i], cluster'[todo[q][i].app])
    BY <1>3, <1>4, BeforeOrder DEF OrderInv, Orders, InOrder
<1>6. Before(o, o) /\ cluster'[a] = o
    BY <1>1 DEF Before, OrderInv, TypeOK
<1>7. cur[q] \in Object /\ cur[q].app \in Apps
    BY DEF OrderInv, TypeOK, Object
<1>8. Busy(q) => Before(cur[q], cluster'[cur[q].app])
    BY <1>3, <1>7, BeforeOrder DEF OrderInv, Orders, InOrder
<1>9. InOrder(q)'
    <2>1. ASSUME NEW i \in 1..Len(todo'[q])
          PROVE  /\ Before(todo'[q][i], cluster'[todo'[q][i].app])
                 /\ \A j \in i+1..Len(todo'[q]) :
                       todo'[q][i].app = todo'[q][j].app => Before(todo'[q][i], todo'[q][j])
        <3>1. Before(todo'[q][i], cluster'[todo'[q][i].app])
            BY <1>2, <1>5, <1>6
        <3>2. ASSUME NEW j \in i+1..Len(todo'[q]), todo'[q][i].app = todo'[q][j].app
              PROVE  Before(todo'[q][i], todo'[q][j])
            <4>1. i \in 1..Len(todo[q]) /\ todo'[q][i] = todo[q][i] /\ j \in 1..Len(todo'[q])
                BY <1>1, <1>2
            <4>2. CASE j \in 1..Len(todo[q]) /\ todo'[q][j] = todo[q][j]
                BY <1>1, <3>2, <4>1, <4>2 DEF OrderInv, Orders, InOrder
            <4>3. CASE todo'[q][j] = o
                BY <1>5, <1>6, <3>2, <4>1, <4>3
            <4> QED
                BY <1>2, <4>1, <4>2, <4>3
        <3> QED
            BY <3>1, <3>2
    <2>2. ASSUME Busy(q), NEW i \in 1..Len(todo'[q]), todo'[q][i].app = cur[q].app
          PROVE  Before(cur[q], todo'[q][i])
        BY <1>2, <1>6, <1>8, <2>2 DEF OrderInv, Orders, InOrder
    <2> QED
        BY <1>1, <1>8, <2>1, <2>2 DEF InOrder
<1>10. Passed(q)'
    <2>1. ASSUME NEW r \in 1..Len(rows), rows[r].by = q, rows[r].kind = "report",
                 notes[rows[r].ref.app].operation
          PROVE  AllPast(q, rows[r].ref)'
        <3>1. AllPast(q, rows[r].ref) /\ rows[r].ref \in [app: Apps, id: Nat]
            <4>1. AllPast(q, rows[r].ref)
                BY <2>1 DEF OrderInv, Orders, Passed
            <4> QED
                BY <4>1, RowTypes DEF OrderInv
        <3>2. Past(cluster'[rows[r].ref.app], rows[r].ref)
            BY <1>3, <3>1, BeforeOrder DEF AllPast
        <3> QED
            <4>1. \A i \in 1..Len(todo'[q]) :
                     todo'[q][i].app = rows[r].ref.app => Past(todo'[q][i], rows[r].ref)
                BY <1>2, <1>6, <3>1, <3>2 DEF AllPast
            <4>2. Busy(q) => (cur'[q].app = rows[r].ref.app => Past(cur'[q], rows[r].ref))
                BY <1>1, <3>1 DEF AllPast
            <4>3. rows'[r] = rows[r]
                BY <1>1
            <4> QED
                BY <1>1, <3>2, <4>1, <4>2, <4>3 DEF AllPast
    <2> QED
        BY <1>1, <2>1 DEF Passed
<1> QED
    BY <1>9, <1>10

\* A controller that begins anew sees every Application as it is.
LEMMA OrderSynced ==
    ASSUME OrderInv, TypeOK', cluster' = cluster, notes' = notes, rows' = rows,
           NEW q \in Replicas, todo'[q] = SyncOrder, ~Busy(q)'
    PROVE  InOrder(q)' /\ Passed(q)'
<1>1. \A i \in 1..Len(todo'[q]) : \E a \in Apps : todo'[q][i] = cluster[a] /\ cluster[a].app = a
    BY SyncIsCluster, ControllerAssumption DEF OrderInv, TypeOK, Placed
<1>2. \A i \in 1..Len(todo'[q]) : todo'[q][i] = cluster[todo'[q][i].app]
    BY <1>1
<1>3. \A a \in Apps : Before(cluster[a], cluster[a])
    BY DEF Before
<1>4. SyncOrder \in Seq(Object)
    BY SyncIsCluster, ControllerAssumption DEF OrderInv, TypeOK
<1>5. InOrder(q)'
    BY <1>1, <1>2, <1>3, <1>4 DEF InOrder
<1>6. Passed(q)'
    BY <1>2 DEF OrderInv, Orders, Passed, AllPast
<1> QED
    BY <1>5, <1>6

\* A controller takes the next object.
LEMMA OrderTaken ==
    ASSUME OrderInv, TypeOK', NEW q \in Replicas, Take(q)
    PROVE  InOrder(q)' /\ Passed(q)'
<1>1. /\ todo[q] \in Seq(Object) /\ todo[q] # <<>>
      /\ todo'[q] = Tail(todo[q]) /\ cur'[q] = todo[q][1]
      /\ cluster' = cluster /\ notes' = notes /\ rows' = rows
    BY DEF Take, OrderInv, TypeOK
<1>2. \A i \in 1..Len(todo'[q]) : i+1 \in 2..Len(todo[q]) /\ todo'[q][i] = todo[q][i+1]
    BY <1>1
<1>3. Len(todo'[q]) \in Nat /\ 1 \in 1..Len(todo[q])
    BY <1>1
<1>4. InOrder(q)'
    <2>1. ASSUME NEW i \in 1..Len(todo'[q])
          PROVE  /\ Before(todo'[q][i], cluster[todo'[q][i].app])
                 /\ \A j \in i+1..Len(todo'[q]) :
                       todo'[q][i].app = todo'[q][j].app => Before(todo'[q][i], todo'[q][j])
                 /\ todo'[q][i].app = cur'[q].app => Before(cur'[q], todo'[q][i])
        BY <1>1, <1>2, <1>3 DEF OrderInv, Orders, InOrder
    <2>2. Before(cur'[q], cluster[cur'[q].app])
        BY <1>1, <1>3 DEF OrderInv, Orders, InOrder
    <2> QED
        BY <1>1, <2>1, <2>2 DEF InOrder
<1>5. Passed(q)'
    BY <1>1, <1>2, <1>3 DEF OrderInv, Orders, Passed, AllPast
<1> QED
    BY <1>4, <1>5

LEMMA NextOrder == OrderInv /\ [Next]_vars => OrderInv'
<1> SUFFICES ASSUME OrderInv, [Next]_vars PROVE OrderInv'
    OBVIOUS
<1>1. TypeOK /\ TypeOK'
    BY NextType DEF OrderInv
<1>2. \A q \in Replicas : /\ Len(todo[q]) \in 0..Len(todo[q])
                           /\ SubSeq(todo[q], 1, Len(todo[q])) = todo[q]
    BY <1>1 DEF TypeOK
<1>3. ASSUME NEW a \in Apps, StartSync(a) \/ FinishSync(a) PROVE Placed' /\ Orders'
    <2>1. PICK o \in Object : Change(a, o) /\ o.app = a /\ Before(cluster[a], o) /\ o.op <= ops' /\ ops <= ops'
        <3>1. CASE StartSync(a)
            <4>1. PICK rev \in Revisions :
                     Change(a, [app |-> a, op |-> ops + 1, rev |-> rev, phase |-> "running"])
                BY <3>1 DEF StartSync
            <4>2. ops + 1 \in 0..MaxOps /\ ops' = ops + 1 /\ cluster[a].op < ops + 1
                BY <1>1, <3>1, ControllerAssumption DEF StartSync, OrderInv, Placed, TypeOK, Object
            <4>3. [app |-> a, op |-> ops + 1, rev |-> rev, phase |-> "running"] \in Object
                BY <4>2 DEF Object, Phase
            <4> DEFINE o == [app |-> a, op |-> ops + 1, rev |-> rev, phase |-> "running"]
            <4>4. Change(a, o) /\ o \in Object /\ o.app = a /\ o.op = ops + 1
                BY <4>1, <4>3
            <4> HIDE DEF o
            <4>5. ops \in Nat
                BY <1>1, ControllerAssumption DEF TypeOK
            <4> QED
                BY <4>2, <4>4, <4>5 DEF Before
        <3>2. CASE FinishSync(a)
            <4>1. PICK phase \in Done : Change(a, [cluster[a] EXCEPT !.phase = phase])
                BY <3>2 DEF FinishSync
            <4>2. cluster[a] \in Object /\ cluster[a].app = a /\ cluster[a].op <= ops
                BY <1>1 DEF OrderInv, Placed, TypeOK
            <4> DEFINE o == [cluster[a] EXCEPT !.phase = phase]
            <4>3. /\ o \in Object /\ o.app = a /\ o.op = cluster[a].op
                  /\ o.phase # "running"
                BY <4>2 DEF Object, Phase, Done
            <4>4. Change(a, o)
                BY <4>1
            <4> HIDE DEF o
            <4>5. ops \in Nat /\ ops' = ops
                BY <1>1, <3>2, ControllerAssumption DEF FinishSync, TypeOK
            <4> QED
                BY <4>2, <4>3, <4>4, <4>5 DEF Before
        <3> QED
            BY <1>3, <3>1, <3>2
    <2>2. Orders'
        BY <1>1, <2>1, OrderTold DEF Orders
    <2>3. \A b \in Apps : cluster'[b] = IF b = a THEN o ELSE cluster[b]
        BY <1>1, <2>1 DEF Change, TypeOK
    <2>4. ops \in Nat /\ ops' \in Nat /\ \A b \in Apps : cluster[b].op \in Nat
        BY <1>1, ControllerAssumption DEF TypeOK, Object
    <2>5. Placed'
        BY <2>1, <2>3, <2>4 DEF OrderInv, Placed
    <2> QED
        BY <2>2, <2>5
<1>4. ASSUME NEW p \in Replicas, Boot(p) \/ OpenWatch(p) PROVE Placed' /\ Orders'
    <2>1. cluster' = cluster /\ notes' = notes /\ rows' = rows /\ ops' = ops
        BY <1>4 DEF Boot, OpenWatch
    <2>2. todo'[p] = SyncOrder /\ ~Busy(p)'
        BY <1>1, <1>4 DEF Boot, OpenWatch, Goto, Busy, TypeOK
    <2>3. ASSUME NEW q \in Replicas, q # p
          PROVE  todo'[q] = todo[q] /\ (Busy(q)' => Busy(q) /\ cur'[q] = cur[q])
        BY <1>1, <1>4, <2>3 DEF Boot, OpenWatch, Goto, Busy, TypeOK
    <2>4. Orders'
        BY <1>1, <1>2, <2>1, <2>2, <2>3, OrderSynced, OrderKept DEF Orders
    <2> QED
        BY <2>1, <2>4 DEF OrderInv, Placed
<1>5. ASSUME NEW p \in Replicas, Take(p) PROVE Placed' /\ Orders'
    <2>1. cluster' = cluster /\ notes' = notes /\ rows' = rows /\ ops' = ops
        BY <1>5 DEF Take
    <2>2. ASSUME NEW q \in Replicas, q # p
          PROVE  todo'[q] = todo[q] /\ (Busy(q)' => Busy(q) /\ cur'[q] = cur[q])
        BY <1>1, <1>5, <2>2 DEF Take, Goto, Busy, TypeOK
    <2>3. Orders'
        BY <1>1, <1>2, <1>5, <2>1, <2>2, OrderTaken, OrderKept DEF Orders
    <2> QED
        BY <2>1, <2>3 DEF OrderInv, Placed
<1>6. ASSUME NEW p \in Replicas, cluster' = cluster, notes' = notes, ops' = ops, cur' = cur,
             \E n \in 0..Len(todo[p]) : todo'[p] = SubSeq(todo[p], 1, n),
             Busy(p)' => Busy(p),
             \A q \in Replicas \ {p} : todo'[q] = todo[q] /\ pc'[q] = pc[q],
             \/ rows' = rows
             \/ rows' = Append(rows, Entry(p, cur[p])) /\ Busy(p) /\ ~Busy(p)'
      PROVE  Placed' /\ Orders'
    <2>1. ASSUME NEW q \in Replicas PROVE InOrder(q)' /\ Passed(q)'
        <3>1. PICK n \in 0..Len(todo[q]) : todo'[q] = SubSeq(todo[q], 1, n)
            BY <1>2, <1>6
        <3>2. Busy(q)' => Busy(q) /\ cur'[q] = cur[q]
            BY <1>6 DEF Busy
        <3> QED
            BY <1>1, <1>6, <3>1, <3>2, OrderKept
    <2> QED
        BY <1>6, <2>1 DEF OrderInv, Orders, Placed
<1>7. \A p \in Replicas : \E n \in 0..Len(todo[p]) : SubSeq(todo[p], 1, n) = <<>>
    <2>1. ASSUME NEW p \in Replicas PROVE 0 \in 0..Len(todo[p]) /\ SubSeq(todo[p], 1, 0) = <<>>
        BY <1>1 DEF TypeOK
    <2> QED
        BY <2>1
<1>8. ASSUME NEW p \in Replicas, Claim(p) PROVE Placed' /\ Orders'
    BY <1>1, <1>2, <1>6, <1>8 DEF Claim, Goto, Busy, TypeOK
<1>9. ASSUME NEW p \in Replicas, Save(p) PROVE Placed' /\ Orders'
    <2>1. CASE Goto(p, "release") /\ UNCHANGED rows
        BY <1>1, <1>2, <1>6, <1>9, <2>1 DEF Save, Goto, Busy, TypeOK
    <2>2. CASE Goto(p, "loop") /\ rows' = Append(rows, Entry(p, cur[p]))
        BY <1>1, <1>2, <1>6, <1>9, <2>2 DEF Save, Goto, Busy, TypeOK
    <2> QED
        BY <1>9, <2>1, <2>2 DEF Save
<1>10. ASSUME NEW p \in Replicas, Release(p) PROVE Placed' /\ Orders'
    BY <1>1, <1>6, <1>7, <1>10 DEF Release, Die, Goto, Busy, TypeOK
<1>11. ASSUME NEW p \in Replicas, CloseWatch(p) PROVE Placed' /\ Orders'
    <2>1. PICK n \in 0..Len(todo[p]) : todo' = [todo EXCEPT ![p] = SubSeq(@, 1, n)]
        BY <1>11 DEF CloseWatch
    <2>2. /\ todo'[p] = SubSeq(todo[p], 1, n)
          /\ \A q \in Replicas \ {p} : todo'[q] = todo[q]
        BY <1>1, <2>1 DEF TypeOK
    <2> QED
        BY <1>6, <1>11, <2>2 DEF CloseWatch, Fault, Busy
<1>12. ASSUME NEW p \in Replicas, QueryFails(p) PROVE Placed' /\ Orders'
    <2>1. CASE Die(p)
        BY <1>1, <1>6, <1>7, <1>12, <2>1 DEF QueryFails, Fault, Die, Goto, Busy, TypeOK
    <2>2. CASE pc[p] = "save" /\ Goto(p, "release") /\ UNCHANGED <<todo, watching>>
        BY <1>1, <1>2, <1>6, <1>12, <2>2 DEF QueryFails, Fault, Goto, Busy, TypeOK
    <2> QED
        BY <1>12, <2>1, <2>2 DEF QueryFails
<1>13. ASSUME NEW p \in Replicas, ReplyLost(p) PROVE Placed' /\ Orders'
    <2>1. CASE Die(p) /\ UNCHANGED rows
        BY <1>1, <1>6, <1>7, <1>13, <2>1 DEF ReplyLost, Fault, Die, Goto, Busy, TypeOK
    <2>2. CASE /\ pc[p] = "save" /\ rows' = Append(rows, Entry(p, cur[p]))
               /\ Goto(p, "release") /\ UNCHANGED <<todo, watching, claims>>
        BY <1>1, <1>2, <1>6, <1>13, <2>2 DEF ReplyLost, Fault, Goto, Busy, TypeOK
    <2> QED
        BY <1>13, <2>1, <2>2 DEF ReplyLost
<1>14. ASSUME NEW p \in Replicas, Stop(p) PROVE Placed' /\ Orders'
    BY <1>1, <1>6, <1>7, <1>14 DEF Stop, Fault, Goto, Busy, TypeOK
<1>15. ASSUME NEW p \in Replicas, Refused(p) PROVE Placed' /\ Orders'
    BY <1>1, <1>6, <1>7, <1>15 DEF Refused, Fault, Die, Goto, Busy, TypeOK
<1>16. CASE UNCHANGED vars
    BY <1>1, <1>16 DEF vars, control, OrderInv, Placed, Orders, InOrder, Passed, AllPast, Busy
<1> QED
    BY <1>1, <1>3, <1>4, <1>5, <1>8, <1>9, <1>10, <1>11, <1>12, <1>13, <1>14, <1>15, <1>16
       DEF Next, Proceed, OrderInv

-----------------------------------------------------------------------------
(* Ownership of events                                                      *)

Owner(p) == pc[p] \in {"save", "release"}

\* Whoever has claimed an event is alone with it, and it is not recorded yet.
Alone(p) ==
    Owner(p) =>
        /\ KeyOf(cur[p]) \in claims
        /\ \A r \in 1..Len(rows) : rows[r].key # KeyOf(cur[p])
        /\ \A q \in Replicas \ {p} : Owner(q) => KeyOf(cur[q]) # KeyOf(cur[p])

Recording == \A r \in 1..Len(rows) : rows[r].key \in claims

Owned == Never("reply") => (OncePerEvent /\ Recording /\ \A p \in Replicas : Alone(p))

LEMMA InitOwned == Init => Owned
BY DEF Init, Owned, OncePerEvent, Recording, Alone, Owner

\* A statement without an effect on the entries and with none on other claims.
LEMMA OwnedKept ==
    ASSUME TypeOK, Owned, Never("reply")' => Never("reply"), NEW p \in Replicas,
           notes' = notes, rows' = rows,
           \A q \in Replicas \ {p} : pc'[q] = pc[q] /\ cur'[q] = cur[q],
           \/ ~Owner(p)' /\ claims' = claims
           \/ Owner(p) /\ cur' = cur /\ claims' = claims
           \/ ~Owner(p)' /\ Owner(p) /\ claims' = claims \ {KeyOf(cur[p])}
           \/ /\ KeyOf(cur[p]) \notin claims /\ claims' = claims \cup {KeyOf(cur[p])}
              /\ cur' = cur
           \/ ~Owner(p)' /\ claims \subseteq claims'
    PROVE  Owned'
<1> SUFFICES ASSUME Never("reply")'
             PROVE  (OncePerEvent /\ Recording /\ \A q \in Replicas : Alone(q))'
    BY DEF Owned
<1>1. OncePerEvent /\ Recording /\ \A q \in Replicas : Alone(q)
    BY DEF Owned
<1>2. OncePerEvent'
    BY <1>1 DEF OncePerEvent
<1>3. \A q \in Replicas \ {p} : (Owner(q)' <=> Owner(q)) /\ KeyOf(cur[q])' = KeyOf(cur[q])
    BY DEF Owner, KeyOf, KindOf, OperationOrRevision
<1>4. cur' = cur => KeyOf(cur[p])' = KeyOf(cur[p])
    BY DEF KeyOf, KindOf, OperationOrRevision
<1>5. Recording'
    BY <1>1 DEF Recording, Alone
<1>6. ASSUME NEW q \in Replicas PROVE Alone(q)'
    <2>1. CASE q = p
        BY <1>1, <1>3, <1>4, <2>1 DEF Alone, Recording
    <2>2. CASE q # p
        BY <1>1, <1>3, <1>4, <2>2 DEF Alone, Recording
    <2> QED
        BY <2>1, <2>2
<1> QED
    BY <1>2, <1>5, <1>6

\* The one that is alone with an event records it.
LEMMA OwnedSaved ==
    ASSUME TypeOK, Owned, Never("reply")' => Never("reply"), NEW p \in Replicas,
           notes' = notes, cur' = cur, claims' = claims, Owner(p), ~Owner(p)',
           \A q \in Replicas \ {p} : pc'[q] = pc[q],
           rows' = Append(rows, Entry(p, cur[p]))
    PROVE  Owned'
<1> SUFFICES ASSUME Never("reply")'
             PROVE  (OncePerEvent /\ Recording /\ \A q \in Replicas : Alone(q))'
    BY DEF Owned
<1>1. OncePerEvent /\ Recording /\ \A q \in Replicas : Alone(q)
    BY DEF Owned
<1>2. /\ Len(rows') = Len(rows) + 1 /\ Len(rows) \in Nat
      /\ \A r \in 1..Len(rows) : rows'[r] = rows[r]
      /\ rows'[Len(rows) + 1].key = KeyOf(cur[p])
    BY DEF TypeOK, Entry
<1>3. \A q \in Replicas : KeyOf(cur[q])' = KeyOf(cur[q])
    BY DEF KeyOf, KindOf, OperationOrRevision
<1>4. KeyOf(cur[p]) \in claims /\ \A r \in 1..Len(rows) : rows[r].key # KeyOf(cur[p])
    BY <1>1 DEF Alone
<1>5. OncePerEvent'
    <2>1. ASSUME NEW i \in 1..Len(rows'), NEW j \in 1..Len(rows'), rows'[i].key = rows'[j].key
          PROVE  i = j
        <3>1. CASE i \in 1..Len(rows) /\ j \in 1..Len(rows)
            BY <1>1, <1>2, <2>1, <3>1 DEF OncePerEvent, Owned
        <3>2. CASE i = Len(rows) + 1 \/ j = Len(rows) + 1
            BY <1>2, <1>4, <2>1, <3>2
        <3> QED
            BY <1>2, <3>1, <3>2
    <2> QED
        BY <2>1 DEF OncePerEvent
<1>6. Recording'
    BY <1>1, <1>2, <1>4 DEF Recording
<1>7. ASSUME NEW q \in Replicas PROVE Alone(q)'
    <2>1. CASE Owner(q)'
        <3>1. q # p /\ Owner(q) /\ KeyOf(cur[q]) # KeyOf(cur[p])
            BY <1>1, <2>1 DEF Owner, Alone
        <3>2. \A r \in 1..Len(rows') : rows'[r].key # KeyOf(cur[q])
            BY <1>1, <1>2, <3>1 DEF Alone
        <3>3. \A k \in Replicas : Owner(k)' => Owner(k)
            BY DEF Owner
        <3> QED
            BY <1>1, <1>3, <3>1, <3>2, <3>3 DEF Alone
    <2> QED
        BY <2>1 DEF Alone
<1> QED
    BY <1>5, <1>6, <1>7

LEMMA NextOwned == TypeOK /\ Owned /\ [Next]_vars => Owned'
<1> SUFFICES ASSUME TypeOK, Owned, [Next]_vars PROVE Owned'
    OBVIOUS
<1>1. ASSUME NEW kind, Fault(kind) PROVE Never("reply")' => Never("reply")
    BY <1>1, FaultType DEF Never, TypeOK
<1>2. ASSUME UNCHANGED <<notes, claims, rows, faults, pc, cur>> PROVE Owned'
    BY <1>2 DEF Owned, OncePerEvent, Recording, Alone, Owner, Never,
                KeyOf, KindOf, OperationOrRevision
<1>3. ASSUME NEW a \in Apps, StartSync(a) \/ FinishSync(a) PROVE Owned'
    BY <1>2, <1>3 DEF StartSync, FinishSync, Change
<1>4. ASSUME NEW p \in Replicas, Boot(p) \/ OpenWatch(p) PROVE Owned'
    BY <1>4, OwnedKept DEF Boot, OpenWatch, Goto, Owner, Never, TypeOK
<1>5. ASSUME NEW p \in Replicas, Take(p) PROVE Owned'
    BY <1>5, OwnedKept DEF Take, Goto, Owner, Never, TypeOK
<1>6. ASSUME NEW p \in Replicas, Claim(p) PROVE Owned'
    <2>1. CASE KeyOf(cur[p]) \in claims
        BY <1>6, <2>1, OwnedKept DEF Claim, Goto, Owner, Never, TypeOK
    <2>2. CASE KeyOf(cur[p]) \notin claims
        BY <1>6, <2>2, OwnedKept DEF Claim, Goto, Never, TypeOK
    <2> QED
        BY <2>1, <2>2
<1>7. ASSUME NEW p \in Replicas, Save(p) PROVE Owned'
    <2>1. CASE Goto(p, "release") /\ UNCHANGED rows
        BY <1>7, <2>1, OwnedKept DEF Save, Goto, Owner, Never, TypeOK
    <2>2. CASE Goto(p, "loop") /\ rows' = Append(rows, Entry(p, cur[p]))
        BY <1>7, <2>2, OwnedSaved DEF Save, Goto, Owner, Never, TypeOK
    <2> QED
        BY <1>7, <2>1, <2>2 DEF Save
<1>8. ASSUME NEW p \in Replicas, Release(p) PROVE Owned'
    BY <1>8, OwnedKept DEF Release, Die, Goto, Owner, Never, TypeOK
<1>9. ASSUME NEW p \in Replicas, CloseWatch(p) PROVE Owned'
    BY <1>1, <1>9, OwnedKept DEF CloseWatch, Fault, Owner
<1>10. ASSUME NEW p \in Replicas, QueryFails(p) PROVE Owned'
    <2>1. (Never("reply")' => Never("reply")) /\ notes' = notes
        BY <1>1, <1>10, FaultType DEF QueryFails
    <2>2. CASE Die(p)
        BY <1>10, <2>1, <2>2, OwnedKept DEF QueryFails, Die, Goto, Owner, TypeOK
    <2>3. CASE pc[p] = "save" /\ Goto(p, "release")
        BY <1>10, <2>1, <2>3, OwnedKept DEF QueryFails, Goto, Owner, TypeOK
    <2> QED
        BY <1>10, <2>2, <2>3 DEF QueryFails
<1>11. ASSUME NEW p \in Replicas, ReplyLost(p) PROVE Owned'
    <2>1. ~Never("reply")'
        BY <1>11, FaultType DEF ReplyLost, Never, TypeOK
    <2> QED
        BY <2>1 DEF Owned
<1>12. ASSUME NEW p \in Replicas, Stop(p) PROVE Owned'
    BY <1>1, <1>12, FaultType, OwnedKept DEF Stop, Goto, Owner, TypeOK
<1>13. ASSUME NEW p \in Replicas, Refused(p) PROVE Owned'
    BY <1>1, <1>13, FaultType, OwnedKept DEF Refused, Die, Goto, Owner, TypeOK
<1>14. CASE UNCHANGED vars
    BY <1>2, <1>14 DEF vars, control
<1> QED
    BY <1>3, <1>4, <1>5, <1>6, <1>7, <1>8, <1>9, <1>10, <1>11, <1>12, <1>13, <1>14
       DEF Next, Proceed

-----------------------------------------------------------------------------
(* What is stored                                                           *)

\* The rows change only by the record of an object in hand.
LEMMA Stores ==
    ASSUME TypeOK, [Next]_vars
    PROVE  \/ rows' = rows /\ notes' = notes
           \/ /\ notes' = notes
              /\ \E p \in Replicas :
                    /\ rows' = Append(rows, Entry(p, cur[p]))
                    /\ Busy(p) /\ ~Conflict(cur[p])
BY FaultType
   DEF Next, vars, control, StartSync, FinishSync, Change, Proceed, Boot, OpenWatch, Take,
       Claim, Save, Release, CloseWatch, Refused, QueryFails, ReplyLost, Stop, Busy

LEMMA NextPrescribed == TypeOK /\ PrescribedOnce /\ [Next]_vars => PrescribedOnce'
<1> SUFFICES ASSUME TypeOK, PrescribedOnce, [Next]_vars PROVE PrescribedOnce'
    OBVIOUS
<1>1. ASSUME NEW p \in Replicas, rows' = Append(rows, Entry(p, cur[p])), ~Conflict(cur[p])
      PROVE  PrescribedOnce'
    <2>1. /\ Len(rows') = Len(rows) + 1 /\ Len(rows) \in Nat
          /\ \A r \in 1..Len(rows) : rows'[r] = rows[r]
          /\ rows'[Len(rows) + 1] = Entry(p, cur[p])
        BY <1>1 DEF TypeOK
    <2>2. \A r \in 1..Len(rows) :
             (rows[r].kind = "prescribe" /\ Entry(p, cur[p]).kind = "prescribe")
                => rows[r].ref # Entry(p, cur[p]).ref
        BY <1>1 DEF Conflict, Entry
    <2> HIDE DEF Entry
    <2> QED
        BY <2>1, <2>2 DEF PrescribedOnce
<1>2. CASE rows' = rows
    BY <1>2 DEF PrescribedOnce
<1> QED
    BY <1>1, <1>2, Stores

LEMMA NextPrescribeFirst ==
    OrderInv /\ PrescribeFirst /\ [Next]_vars => PrescribeFirst'
<1> SUFFICES ASSUME OrderInv, PrescribeFirst, [Next]_vars PROVE PrescribeFirst'
    OBVIOUS
<1>1. ASSUME NEW p \in Replicas, rows' = Append(rows, Entry(p, cur[p])), Busy(p), notes' = notes
      PROVE  PrescribeFirst'
    <2>1. /\ Len(rows') = Len(rows) + 1 /\ Len(rows) \in Nat
          /\ \A r \in 1..Len(rows) : rows'[r] = rows[r]
          /\ rows'[Len(rows) + 1] = Entry(p, cur[p])
        BY <1>1 DEF OrderInv, TypeOK
    <2>2. ASSUME Entry(p, cur[p]).kind = "prescribe", NEW j \in 1..Len(rows),
                 rows[j].kind = "report", rows[j].by = p, rows[j].ref = Entry(p, cur[p]).ref,
                 notes[rows[j].ref.app].operation
          PROVE  FALSE
        <3>1. AllPast(p, rows[j].ref)
            BY <2>2 DEF OrderInv, Orders, Passed
        <3>2. rows[j].ref = [app |-> cur[p].app, id |-> cur[p].op] /\ cur[p].phase = "running"
            BY <2>2 DEF Entry, Prescription, OperationOrRevision, KindOf
        <3>3. cur[p].op \in Nat
            BY ControllerAssumption DEF OrderInv, TypeOK, Object
        <3> QED
            BY <1>1, <3>1, <3>2, <3>3 DEF AllPast, Past
    <2>3. Entry(p, cur[p]).kind \in Kind /\ Entry(p, cur[p]).by = p
        BY DEF Entry, KindOf, Kind
    <2>4. ASSUME NEW i \in 1..Len(rows'), NEW j \in 1..Len(rows'),
                 rows'[i].kind = "prescribe", rows'[j].kind = "report",
                 rows'[i].ref = rows'[j].ref, notes[rows'[i].ref.app].operation,
                 rows'[i].by = rows'[j].by
          PROVE  i < j
        <3>1. CASE i \in 1..Len(rows) /\ j \in 1..Len(rows)
            BY <2>1, <2>4, <3>1 DEF PrescribeFirst
        <3>2. CASE j = Len(rows) + 1
            BY <2>1, <2>4, <3>2
        <3>3. CASE i = Len(rows) + 1 /\ j \in 1..Len(rows)
            BY <2>1, <2>2, <2>3, <2>4, <3>3
        <3> QED
            BY <2>1, <3>1, <3>2, <3>3
    <2> QED
        BY <1>1, <2>4 DEF PrescribeFirst
<1>2. CASE rows' = rows /\ notes' = notes
    BY <1>2 DEF PrescribeFirst
<1> QED
    BY <1>1, <1>2, Stores DEF OrderInv

\* Types: the controller and what it keeps stay what they are declared as.
THEOREM TypeCorrect == Spec => []TypeOK
<1>1. Init => TypeOK
    BY InitType
<1>2. TypeOK /\ [Next]_vars => TypeOK'
    BY NextType
<1> QED
    BY <1>1, <1>2, PTL DEF Spec

\* claimEvent: no event is recorded twice by any number of replicas, whatever
\* they observe, repeat or restart, as long as no reply is lost.
THEOREM EventsOnce == Spec => []OncePerEvent
<1>1. Init => TypeOK /\ Owned
    BY InitType, InitOwned
<1>2. (TypeOK /\ Owned) /\ [Next]_vars => (TypeOK /\ Owned)'
    BY NextType, NextOwned
<1>3. TypeOK /\ Owned => OncePerEvent
    BY DEF Owned, OncePerEvent
<1> QED
    BY <1>1, <1>2, <1>3, PTL DEF Spec

\* mappedPrescriptionID: no prescription is stored twice, lost replies included.
THEOREM PrescriptionsOnce == Spec => []PrescribedOnce
<1>1. Init => TypeOK /\ PrescribedOnce
    BY InitType DEF Init, PrescribedOnce
<1>2. (TypeOK /\ PrescribedOnce) /\ [Next]_vars => (TypeOK /\ PrescribedOnce)'
    BY NextType, NextPrescribed
<1> QED
    BY <1>1, <1>2, PTL DEF Spec

\* Run and SyncOnce: what a controller has yet to handle and the cluster after
\* it stay in the order in which they came about, so that it records the
\* prescription of an identified operation before its report.
THEOREM PrescriptionsFirst == Spec => []PrescribeFirst
<1>1. Init => OrderInv /\ PrescribeFirst
    BY InitOrder DEF Init, PrescribeFirst
<1>2. (OrderInv /\ PrescribeFirst) /\ [Next]_vars => (OrderInv /\ PrescribeFirst)'
    BY NextOrder, NextPrescribeFirst
<1> QED
    BY <1>1, <1>2, PTL DEF Spec

\* What the replicas of the controller have stored: all of the above together.
THEOREM RecordsAreSound == Spec => []RecordsSound
BY TypeCorrect, EventsOnce, PrescriptionsOnce, PrescriptionsFirst, PTL DEF RecordsSound

=============================================================================
