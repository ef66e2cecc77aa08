------------------------ MODULE HostedIngestProofs ------------------------
(***************************************************************************)
(* Theorems about HostedIngest for any number of requests, keys,           *)
(* connections and faults: the invariant IInv is inductive, and in commit  *)
(* order the service implements the append-only log.                       *)
(***************************************************************************)
EXTENDS HostedIngest, FiniteSetTheorems, TLAPS

\* The connections that are free, as long as no more than the pool has are
\* taken (pgxpool).
LEMMA PoolCount ==
    ASSUME NEW S \in SUBSET Id
    PROVE  IsFiniteSet(S) /\ Cardinality(S) \in Nat
<1>1. MaxRequests \in Int /\ 1 \in Int
    BY IngestAssumption
<1>2. IsFiniteSet(Id)
    BY <1>1, FS_Interval DEF Id
<1> QED
    BY <1>2, FS_Subset, FS_CardinalityType

\* A transaction that ends, or goes on, takes no further connection.
LEMMA PoolKept ==
    ASSUME TypeOK, \A r \in Id : InTx(r)' => InTx(r)
    PROVE  Free' \in 0..Conns
<1> DEFINE S == {r \in Id : InTx(r)}
           T == {r \in Id : InTx(r)'}
<1>1. T \in SUBSET S /\ S \in SUBSET Id /\ T \in SUBSET Id
    OBVIOUS
<1>2. Cardinality(T) <= Cardinality(S)
    BY <1>1, PoolCount, FS_Subset
<1>3. Cardinality(S) \in Nat /\ Cardinality(T) \in Nat
    BY <1>1, PoolCount
<1>4. Free = Conns - Cardinality(S) /\ Free' = Conns - Cardinality(T)
    BY DEF Free
<1>5. Free \in 0..Conns
    BY DEF TypeOK
<1> QED
    BY <1>2, <1>3, <1>4, <1>5, IngestAssumption

\* Begin takes one connection (BeginIngestTx).
LEMMA PoolTaken ==
    ASSUME TypeOK, Free > 0, NEW r \in Id, ~InTx(r),
           \A q \in Id : InTx(q)' <=> (q = r \/ InTx(q))
    PROVE  Free' \in 0..Conns
<1> DEFINE S == {q \in Id : InTx(q)}
           T == {q \in Id : InTx(q)'}
<1>1. T = S \cup {r} /\ r \notin S /\ S \in SUBSET Id /\ T \in SUBSET Id
    OBVIOUS
<1>2. Cardinality(T) = Cardinality(S) + 1
    BY <1>1, PoolCount, FS_AddElement
<1>3. Cardinality(S) \in Nat /\ Cardinality(T) \in Nat
    BY <1>1, PoolCount
<1>4. Free = Conns - Cardinality(S) /\ Free' = Conns - Cardinality(T)
    BY DEF Free
<1>5. Free \in 0..Conns
    BY DEF TypeOK
<1> QED
    BY <1>2, <1>3, <1>4, <1>5, IngestAssumption

\* The entry a commit publishes.
Published(r) ==
    [id |-> r, prev |-> tx[r].prev, at |-> tx[r].at, kind |-> tx[r].kind,
     key |-> tx[r].key, ref |-> tx[r].ref, soft |-> tx[r].soft]

LEMMA PublishedType ==
    ASSUME TypeOK, Arrivals, NEW r \in Id, pc[r] = "commit"
    PROVE  Published(r) \in Row
<1>1. tx[r] \in Request /\ tx[r].kind \in Kinds
    BY DEF TypeOK, Arrivals
<1> QED
    BY <1>1 DEF Published, Row, Request

\* What a commit appends, and what stays (Publish).
LEMMA PublishRows ==
    ASSUME TypeOK, Arrivals, NEW r \in Id, pc[r] = "commit", Publish(r)
    PROVE  /\ rows' \in Seq(Row)
           /\ Len(rows') = Len(rows) + 1
           /\ \A i \in 1..Len(rows) : rows'[i] = rows[i]
           /\ rows'[Len(rows')] = Published(r)
           /\ Stored' = Stored \cup {r}
<1>1. Published(r) \in Row /\ rows \in Seq(Row)
    BY PublishedType DEF TypeOK
<1>2. rows' = Append(rows, Published(r))
    BY DEF Publish, Published
<1>3. /\ rows' \in Seq(Row)
      /\ Len(rows') = Len(rows) + 1
      /\ \A i \in 1..Len(rows) : rows'[i] = rows[i]
      /\ rows'[Len(rows')] = Published(r)
    BY <1>1, <1>2
<1>4. Published(r).id = r
    BY DEF Published
<1>5. Stored' = Stored \cup {r}
    <2>1. Len(rows) \in Nat
        BY <1>1
    <2>2. 1..Len(rows') = 1..Len(rows) \cup {Len(rows')}
        BY <1>3, <2>1
    <2> QED
        BY <1>3, <1>4, <2>2 DEF Stored
<1> QED
    BY <1>3, <1>5

-----------------------------------------------------------------------------
(***************************************************************************)
(* Types, and the request numbers that are given out.                      *)
(***************************************************************************)

LEMMA InitTyping == Init => TypeOK /\ Arrivals
<1> SUFFICES ASSUME Init PROVE TypeOK /\ Arrivals
    OBVIOUS
<1>1. {r \in Id : InTx(r)} = {}
    BY DEF Init, InTx, Working
<1>2. Free \in 0..Conns
    BY <1>1, FS_EmptySet, IngestAssumption DEF Free
<1> QED
    BY <1>2, IngestAssumption
       DEF Init, TypeOK, Arrivals, Id, Row, Request, NoRequest, NoHash, Working, Ended

\* A request that is under way goes to its next step or ends.
LEMMA StepTyping ==
    ASSUME TypeOK, Arrivals, NEW r \in Id, NEW step \in Working \cup Ended \cup {"committed"},
           pc[r] # "unborn", step \in Working => pc[r] \in Working, Goto(r, step)
    PROVE  /\ pc' \in [Id -> {"unborn", "begin", "committed"} \cup Working \cup Ended]
           /\ Free' \in 0..Conns
           /\ \A q \in Id : pc'[q] = "unborn" <=> pc[q] = "unborn"
<1>1. step # "unborn"
    BY DEF Working, Ended
<1>2. pc' = [pc EXCEPT ![r] = step] /\ pc \in [Id -> {"unborn", "begin", "committed"} \cup Working \cup Ended]
    BY DEF Goto, TypeOK
<1>3. \A q \in Id : InTx(q)' => InTx(q)
    BY <1>2 DEF InTx
<1> QED
    BY <1>1, <1>2, <1>3, PoolKept

\* What a commit publishes keeps its type.
LEMMA PublishTyping ==
    ASSUME TypeOK, Arrivals, NEW r \in Id, pc[r] = "commit", Publish(r)
    PROVE  rows' \in Seq(Row) /\ claims' \in [Keys -> Id \cup {0, NoClaim}]
<1>1. rows' \in Seq(Row)
    BY PublishRows
<1>2. tx[r].result \in Id \cup {0} /\ tx[r].key \in Keys \cup {NoKey}
    BY DEF TypeOK, Request
<1> QED
    BY <1>1, <1>2 DEF Publish, TypeOK

\* The last hash is one of a stored entry, if there is any (GetLastHash).
LEMMA LastHashStored ==
    ASSUME TypeOK, LatestExists
    PROVE  LastHash \in Stored \cup {NoHash}
<1>1. CASE rows = <<>>
    BY <1>1 DEF LastHash
<1>2. CASE rows # <<>>
    <2>1. (CHOOSE i \in 1..Len(rows) : \A j \in 1..Len(rows) : rows[j].at <= rows[i].at)
             \in 1..Len(rows)
        BY <1>2 DEF LatestExists
    <2> QED
        BY <1>2, <2>1 DEF LastHash, Stored
<1> QED
    BY <1>1, <1>2

LEMMA StoredType == TypeOK => Stored \subseteq Id
<1> SUFFICES ASSUME TypeOK, NEW i \in 1..Len(rows) PROVE rows[i].id \in Id
    BY DEF Stored
<1>1. rows[i] \in Row
    BY DEF TypeOK
<1> QED
    BY <1>1 DEF Row

LEMMA NextTyping ==
    TypeOK /\ Arrivals /\ LatestExists /\ ClaimsSound /\ [Next]_vars => TypeOK' /\ Arrivals'
<1> SUFFICES ASSUME TypeOK, Arrivals, LatestExists, ClaimsSound, [Next]_vars
             PROVE  TypeOK' /\ Arrivals'
    OBVIOUS
<1> USE IngestAssumption DEF Goto
<1>1. CASE Arrive
    <2>1. PICK kind \in Kinds, key \in Keys \cup {NoKey}, soft \in SoftReports :
            \E ref \in IF kind = "report" THEN 1..arrived ELSE {0} :
              tx' = [tx EXCEPT ![arrived + 1] =
                        [NoRequest EXCEPT !.kind = kind, !.key = key, !.ref = ref,
                                          !.soft = soft /\ kind = "report"]]
        BY <1>1 DEF Arrive
    <2>2. PICK ref \in IF kind = "report" THEN 1..arrived ELSE {0} :
            tx' = [tx EXCEPT ![arrived + 1] =
                      [NoRequest EXCEPT !.kind = kind, !.key = key, !.ref = ref,
                                        !.soft = soft /\ kind = "report"]]
        BY <2>1
    <2>3. arrived + 1 \in Id /\ arrived' = arrived + 1 /\ arrived' \in 0..MaxRequests
        BY <1>1 DEF Arrive, TypeOK, Id
    <2>4. ref \in Id \cup {0}
        BY <2>2, <2>3 DEF Id, TypeOK
    <2>5. (soft /\ kind = "report") \in BOOLEAN
        OBVIOUS
    <2>6. [NoRequest EXCEPT !.kind = kind, !.key = key, !.ref = ref,
                            !.soft = soft /\ kind = "report"] \in Request
        BY <2>4, <2>5 DEF NoRequest, Request, NoHash
    <2>7. tx' \in [Id -> Request] /\ tx'[arrived + 1].kind = kind
          /\ \A r \in Id : r # arrived + 1 => tx'[r] = tx[r]
        BY <2>2, <2>3, <2>6 DEF TypeOK, NoRequest
    <2>8. Free' \in 0..Conns
        BY <1>1, PoolKept DEF Arrive, InTx, Working, TypeOK
    <2>9. pc' = [pc EXCEPT ![arrived + 1] = "begin"]
        BY <1>1 DEF Arrive
    <2>10. Arrivals'
        BY <2>3, <2>7, <2>9 DEF Arrivals, TypeOK, Id
    <2> QED
        BY <1>1, <2>3, <2>7, <2>8, <2>9, <2>10 DEF Arrive, TypeOK
<1>2. ASSUME NEW r \in Id, BeginIngestTx(r) PROVE TypeOK' /\ Arrivals'
    <2>1. Free' \in 0..Conns
        BY <1>2, PoolTaken DEF BeginIngestTx, InTx, Working, TypeOK
    <2>2. tx[r] \in Request /\ clock + 1 \in Nat
        BY DEF TypeOK
    <2>3. [tx[r] EXCEPT !.at = clock + 1] \in Request
        BY <2>2 DEF Request
    <2>4. tx' \in [Id -> Request] /\ tx'[r].kind = tx[r].kind
          /\ \A q \in Id : q # r => tx'[q] = tx[q]
        BY <1>2, <2>2, <2>3 DEF BeginIngestTx, TypeOK, Request
    <2> QED
        BY <1>2, <2>1, <2>2, <2>4 DEF BeginIngestTx, TypeOK, Arrivals, Working
<1>3. ASSUME NEW r \in Id, Claim(r) PROVE TypeOK' /\ Arrivals'
    <2>1. PICK step \in {"resolve", "hash", "duplicate"} : Goto(r, step)
        BY <1>3 DEF Claim, AfterClaim
    <2> QED
        BY <1>3, <2>1, StepTyping DEF Claim, TypeOK, Arrivals, Working
<1>4. ASSUME NEW r \in Id, LoadDuplicate(r) PROVE TypeOK' /\ Arrivals'
    <2>1. PICK step \in {"duplicate_ok", "missing"} : Goto(r, step)
        BY <1>4 DEF LoadDuplicate
    <2>2. tx[r].key \in Keys /\ claims[tx[r].key] # NoClaim
        BY <1>4 DEF LoadDuplicate, ClaimsSound, TypeOK, Request
    <2>3. claims[tx[r].key] \in Id
        BY <2>2, StoredType DEF ClaimsSound
    <2>4. tx' \in [Id -> Request] /\ tx'[r].kind = tx[r].kind
          /\ \A q \in Id : q # r => tx'[q] = tx[q]
        <3>1. tx[r] \in Request
            BY DEF TypeOK
        <3>2. [tx[r] EXCEPT !.result = claims[tx[r].key]] \in Request
            BY <2>3, <3>1 DEF Request
        <3> QED
            BY <1>4, <3>1, <3>2 DEF LoadDuplicate, TypeOK, Request
    <2>5. acked' \subseteq Id
        BY <1>4, <2>3 DEF LoadDuplicate, TypeOK
    <2> QED
        BY <1>4, <2>1, <2>4, <2>5, StepTyping DEF LoadDuplicate, TypeOK, Arrivals, Working, Ended
<1>5. ASSUME NEW r \in Id, Resolve(r) PROVE TypeOK' /\ Arrivals'
    <2>1. PICK step \in {"hash", "refused"} : Goto(r, step)
        BY <1>5 DEF Resolve
    <2> QED
        BY <1>5, <2>1, StepTyping DEF Resolve, TypeOK, Arrivals, Working, Ended
<1>6. ASSUME NEW r \in Id, ReadLastHash(r) PROVE TypeOK' /\ Arrivals'
    <2>1. LastHash \in Id \cup {NoHash}
        BY LastHashStored, StoredType
    <2>2. tx' \in [Id -> Request] /\ tx'[r].kind = tx[r].kind
          /\ \A q \in Id : q # r => tx'[q] = tx[q]
        <3>1. tx[r] \in Request
            BY DEF TypeOK
        <3>2. [tx[r] EXCEPT !.prev = LastHash] \in Request
            BY <2>1, <3>1 DEF Request
        <3> QED
            BY <1>6, <3>1, <3>2 DEF ReadLastHash, TypeOK, Request
    <2> QED
        BY <1>6, <2>2, StepTyping DEF ReadLastHash, TypeOK, Arrivals, Working
<1>7. ASSUME NEW r \in Id, Save(r) PROVE TypeOK' /\ Arrivals'
    <2>1. tx' \in [Id -> Request] /\ tx'[r].kind = tx[r].kind
          /\ \A q \in Id : q # r => tx'[q] = tx[q]
        BY <1>7 DEF Save, TypeOK, Request
    <2> QED
        BY <1>7, <2>1, StepTyping DEF Save, TypeOK, Arrivals, Working
<1>8. ASSUME NEW r \in Id, Commit(r) PROVE TypeOK' /\ Arrivals'
    BY <1>8, StepTyping, PublishTyping DEF Commit, TypeOK, Arrivals, Working
<1>9. ASSUME NEW r \in Id, Respond(r) PROVE TypeOK' /\ Arrivals'
    BY <1>9, StepTyping DEF Respond, TypeOK, Arrivals, Working, Ended
<1>10. ASSUME NEW r \in Id, Fail(r) PROVE TypeOK' /\ Arrivals'
    <2>1. faults' \in 0..MaxFaults
        BY <1>10 DEF Fail, Fault, TypeOK
    <2>2. pc[r] # "unborn" /\ Goto(r, "failed")
        BY <1>10 DEF Fail, Working
    <2>3. "failed" \in Ended /\ "failed" \notin Working
        BY DEF Ended, Working
    <2> QED
        BY <1>10, <2>1, <2>2, <2>3, StepTyping DEF Fail, TypeOK, Arrivals
<1>11. ASSUME NEW r \in Id, LoseCommit(r) PROVE TypeOK' /\ Arrivals'
    <2>1. faults' \in 0..MaxFaults
        BY <1>11 DEF LoseCommit, Fault, TypeOK
    <2>2. "failed" \in Ended /\ "failed" \notin Working
        BY DEF Ended, Working
    <2> QED
        BY <1>11, <2>1, <2>2, StepTyping, PublishTyping DEF LoseCommit, TypeOK, Arrivals
<1>12. CASE Crash
    <2>1. \A q \in Id : InTx(q)' => InTx(q)
        BY <1>12 DEF Crash, InTx, Working
    <2>2. Free' \in 0..Conns
        BY <2>1, PoolKept
    <2> QED
        BY <1>12, <2>2 DEF Crash, Fault, TypeOK, Arrivals, Working, Ended
<1>13. CASE UNCHANGED vars
    <2>1. \A q \in Id : InTx(q)' => InTx(q)
        BY <1>13 DEF vars, InTx
    <2>2. Free' \in 0..Conns
        BY <2>1, PoolKept
    <2> QED
        BY <1>13, <2>2 DEF vars, TypeOK, Arrivals
<1> QED
    BY <1>1, <1>2, <1>3, <1>4, <1>5, <1>6, <1>7, <1>8, <1>9, <1>10, <1>11, <1>12, <1>13
       DEF Next, Proceed

-----------------------------------------------------------------------------
(***************************************************************************)
(* Steps that leave the committed rows and claims alone, and the two that  *)
(* publish a transaction.                                                  *)
(***************************************************************************)

Quiet(r) ==
    \/ BeginIngestTx(r) \/ Claim(r) \/ LoadDuplicate(r) \/ Resolve(r)
    \/ ReadLastHash(r) \/ Save(r) \/ Respond(r) \/ Fail(r)

Publishes(r) == Commit(r) \/ LoseCommit(r)

LEMMA NextCases ==
    [Next]_vars => \/ Arrive \/ Crash \/ UNCHANGED vars
                   \/ \E r \in Id : Quiet(r) \/ Publishes(r)
BY DEF Next, Proceed, Quiet, Publishes

\* Other requests are not touched, and a request keeps what it asks for.
LEMMA QuietFrame ==
    ASSUME TypeOK, NEW r \in Id, Quiet(r)
    PROVE  /\ UNCHANGED <<rows, claims>>
           /\ \A q \in Id : q # r => pc'[q] = pc[q] /\ tx'[q] = tx[q]
           /\ \A q \in Id : /\ tx'[q].kind = tx[q].kind /\ tx'[q].key = tx[q].key
                             /\ tx'[q].ref = tx[q].ref /\ tx'[q].soft = tx[q].soft
<1>1. tx \in [Id -> Request] /\ pc \in [Id -> {"unborn", "begin", "committed"} \cup Working \cup Ended]
    BY DEF TypeOK
<1>2. tx[r] \in Request
    BY <1>1
<1>3. CASE BeginIngestTx(r)
    BY <1>1, <1>2, <1>3 DEF BeginIngestTx, Goto, Request
<1>4. CASE Claim(r)
    BY <1>1, <1>4 DEF Claim, Goto
<1>5. CASE LoadDuplicate(r)
    BY <1>1, <1>2, <1>5 DEF LoadDuplicate, Goto, Request
<1>6. CASE Resolve(r)
    BY <1>1, <1>6 DEF Resolve, Goto
<1>7. CASE ReadLastHash(r)
    BY <1>1, <1>2, <1>7 DEF ReadLastHash, Goto, Request
<1>8. CASE Save(r)
    BY <1>1, <1>2, <1>8 DEF Save, Goto, Request
<1>9. CASE Respond(r)
    BY <1>1, <1>9 DEF Respond, Goto
<1>10. CASE Fail(r)
    BY <1>1, <1>10 DEF Fail, Goto
<1> QED
    BY <1>3, <1>4, <1>5, <1>6, <1>7, <1>8, <1>9, <1>10 DEF Quiet

\* What depends on the committed rows alone.
LEMMA RowsFrame ==
    ASSUME UNCHANGED rows
    PROVE  /\ Stored' = Stored
           /\ LatestExists => LatestExists'
           /\ ExactlyOnce => ExactlyOnce'
           /\ ReportsLinked => ReportsLinked'
           /\ \A ref \in Nat : Prescribed(ref) => Prescribed(ref)'
BY DEF Stored, LatestExists, ExactlyOnce, ReportsLinked, Prescribed

\* Publishing adds a row and a result for its claim, and ends the transaction.
LEMMA PublishFrame ==
    ASSUME TypeOK, NEW r \in Id, Publishes(r)
    PROVE  /\ pc[r] = "commit" /\ Publish(r)
           /\ UNCHANGED <<tx, acked>>
           /\ pc'[r] \in {"committed", "failed"}
           /\ \A q \in Id : q # r => pc'[q] = pc[q]
BY DEF Publishes, Commit, LoseCommit, Goto, TypeOK

-----------------------------------------------------------------------------
(***************************************************************************)
(* The parts of the invariant, one after the other.                        *)
(***************************************************************************)

\* What is stored has been committed, and what is committed is stored.
StoredInv == RowsEnded /\ KnownStored /\ LinksStored

LEMMA NextStored == IInv /\ [Next]_vars => StoredInv'
<1> SUFFICES ASSUME IInv, [Next]_vars PROVE StoredInv'
    OBVIOUS
<1>0. /\ TypeOK /\ Arrivals /\ LatestExists /\ ClaimsSound
      /\ RowsEnded /\ KnownStored /\ LinksStored
    BY DEF IInv
<1>1. CASE Arrive
    <2>1. arrived + 1 \in Id /\ pc[arrived + 1] = "unborn"
        BY <1>0, <1>1, IngestAssumption DEF Arrive, TypeOK, Arrivals, Id
    <2>2. /\ pc' = [pc EXCEPT ![arrived + 1] = "begin"]
          /\ \A q \in Id : q # arrived + 1 => tx'[q] = tx[q]
          /\ UNCHANGED <<rows, claims, acked>>
        BY <1>0, <1>1 DEF Arrive, Goto, TypeOK
    <2>3. Stored' = Stored
        BY <2>2, RowsFrame
    <2>4. RowsEnded'
        BY <1>0, <2>1, <2>2 DEF RowsEnded, TypeOK
    <2> QED
        BY <1>0, <2>1, <2>2, <2>3, <2>4 DEF StoredInv, KnownStored, LinksStored, TypeOK
<1>2. CASE Crash
    <2>1. UNCHANGED <<rows, tx, acked>> /\ Stored' = Stored
        BY <1>2, RowsFrame DEF Crash
    <2>2. \A q \in Id : \/ pc'[q] = pc[q] /\ pc[q] \notin Working \cup {"committed"}
                        \/ pc'[q] = "failed" /\ pc[q] \in Working \cup {"begin", "committed"}
        BY <1>0, <1>2 DEF Crash
    <2>3. RowsEnded'
        <3>1. \A i \in 1..Len(rows) : rows[i].id \in Id
            BY <1>0, StoredType DEF Stored
        <3> QED
            BY <1>0, <2>1, <2>2, <3>1 DEF RowsEnded
    <2> QED
        BY <1>0, <2>1, <2>2, <2>3 DEF StoredInv, KnownStored, LinksStored, Working
<1>3. CASE UNCHANGED vars
    BY <1>0, <1>3 DEF vars, StoredInv, RowsEnded, KnownStored, LinksStored, Stored
<1>4. ASSUME NEW r \in Id, Quiet(r) PROVE StoredInv'
    <2>0. /\ \A q \in Id : q # r => pc'[q] = pc[q] /\ tx'[q] = tx[q]
          /\ rows' = rows /\ Stored' = Stored
        BY <1>0, <1>4, QuietFrame, RowsFrame
    <2>1. pc[r] \notin {"committed", "accepted", "failed"} \/ (pc[r] = "committed" /\ pc'[r] = "accepted")
        <3>1. CASE Respond(r)
            BY <1>0, <3>1 DEF Respond, Goto, TypeOK
        <3>2. CASE pc[r] \in Working \cup {"begin"}
            BY <3>2 DEF Working
        <3> QED
            BY <1>4, <3>1, <3>2
               DEF Quiet, BeginIngestTx, Claim, LoadDuplicate, Resolve, ReadLastHash, Save,
                   Fail, Working
    <2>2. RowsEnded'
        <3>1. \A i \in 1..Len(rows) : rows[i].id \in Id
            BY <1>0, StoredType DEF Stored
        <3> QED
            BY <1>0, <2>0, <2>1, <3>1 DEF RowsEnded
    <2>3. acked' \subseteq Stored
        BY <1>0, <1>4
           DEF Quiet, BeginIngestTx, Claim, LoadDuplicate, Resolve, ReadLastHash, Save,
               Respond, Fail, KnownStored
    <2>4. pc'[r] \in {"committed", "accepted"} => r \in Stored
        BY <1>0, <1>4
           DEF Quiet, BeginIngestTx, Claim, AfterClaim, LoadDuplicate, Resolve, ReadLastHash,
               Save, Respond, Fail, Goto, KnownStored, TypeOK
    <2>5. /\ pc'[r] \in {"save", "commit"} => tx'[r].prev \in Stored \cup {NoHash}
          /\ pc'[r] = "commit" => tx'[r].result = r
        <3>1. LastHash \in Stored \cup {NoHash}
            BY <1>0, LastHashStored
        <3>2. tx[r] \in Request
            BY <1>0 DEF TypeOK
        <3> QED
            BY <1>0, <1>4, <3>1, <3>2
               DEF Quiet, BeginIngestTx, Claim, AfterClaim, LoadDuplicate, Resolve,
                   ReadLastHash, Save, Respond, Fail, Goto, LinksStored, TypeOK, Request
    <2> QED
        BY <1>0, <2>0, <2>2, <2>3, <2>4, <2>5 DEF StoredInv, KnownStored, LinksStored
<1>5. ASSUME NEW r \in Id, Publishes(r) PROVE StoredInv'
    <2>1. /\ pc[r] = "commit" /\ Publish(r)
          /\ UNCHANGED <<tx, acked>>
          /\ pc'[r] \in {"committed", "failed"}
          /\ \A q \in Id : q # r => pc'[q] = pc[q]
        BY <1>0, <1>5, PublishFrame
    <2>2. /\ rows' \in Seq(Row) /\ Len(rows') = Len(rows) + 1
          /\ \A i \in 1..Len(rows) : rows'[i] = rows[i]
          /\ rows'[Len(rows')] = Published(r)
          /\ Stored' = Stored \cup {r}
        BY <1>0, <2>1, PublishRows
    <2>3. RowsEnded'
        <3>1. \A i \in 1..Len(rows) : rows[i].id \in Id
            BY <1>0, StoredType DEF Stored
        <3>2. Published(r).id = r
            BY DEF Published
        <3>3. \A i \in 1..Len(rows') : i \in 1..Len(rows) \/ i = Len(rows')
            BY <1>0, <2>2 DEF TypeOK
        <3> QED
            BY <1>0, <2>1, <2>2, <3>1, <3>2, <3>3 DEF RowsEnded
    <2> QED
        BY <1>0, <2>1, <2>2, <2>3 DEF StoredInv, KnownStored, LinksStored
<1> QED
    BY <1>1, <1>2, <1>3, <1>4, <1>5, NextCases

LEMMA NextLatest == IInv /\ [Next]_vars => LatestExists'
<1> SUFFICES ASSUME IInv, [Next]_vars PROVE LatestExists'
    OBVIOUS
<1>0. TypeOK /\ Arrivals /\ LatestExists
    BY DEF IInv
<1>1. CASE UNCHANGED rows
    BY <1>0, <1>1, RowsFrame
<1>2. ASSUME NEW r \in Id, Publishes(r) PROVE LatestExists'
    <2>1. pc[r] = "commit" /\ Publish(r)
        BY <1>0, <1>2, PublishFrame
    <2>2. /\ rows' \in Seq(Row) /\ Len(rows') = Len(rows) + 1
          /\ \A i \in 1..Len(rows) : rows'[i] = rows[i]
        BY <1>0, <2>1, PublishRows
    <2>3. Len(rows) \in Nat /\ Len(rows') \in 1..Len(rows')
        BY <1>0, <2>2 DEF TypeOK
    <2>4. \A i \in 1..Len(rows') : rows'[i].at \in Nat
        <3>1. \A i \in 1..Len(rows') : rows'[i] \in Row
            BY <2>2
        <3> QED
            BY <3>1 DEF Row
    <2>5. CASE rows = <<>>
        BY <2>2, <2>3, <2>4, <2>5 DEF LatestExists
    <2>6. CASE rows # <<>>
        <3>1. PICK m \in 1..Len(rows) : \A j \in 1..Len(rows) : rows[j].at <= rows[m].at
            BY <1>0, <2>6 DEF LatestExists
        <3>2. \A j \in 1..Len(rows') : j \in 1..Len(rows) \/ j = Len(rows')
            BY <2>2, <2>3
        <3>3. m \in 1..Len(rows')
            BY <2>2, <2>3
        <3>4. CASE rows'[Len(rows')].at <= rows'[m].at
            BY <2>2, <3>1, <3>2, <3>3, <3>4 DEF LatestExists
        <3>5. CASE ~(rows'[Len(rows')].at <= rows'[m].at)
            <4>1. \A j \in 1..Len(rows') : rows'[j].at <= rows'[Len(rows')].at
                BY <2>2, <2>3, <2>4, <3>1, <3>2, <3>3, <3>5
            <4> QED
                BY <2>3, <4>1 DEF LatestExists
        <3> QED
            BY <3>4, <3>5
    <2> QED
        BY <2>5, <2>6
<1> QED
    BY <1>0, <1>1, <1>2, NextCases, QuietFrame DEF Arrive, Crash, vars

\* Claims, and that no retry finds one without its entry.
LEMMA NextClaims == IInv /\ [Next]_vars => ClaimsSound' /\ NeverMissing'
<1> SUFFICES ASSUME IInv, [Next]_vars PROVE ClaimsSound' /\ NeverMissing'
    OBVIOUS
<1>0. TypeOK /\ Arrivals /\ LinksStored /\ ClaimsSound /\ NeverMissing
    BY DEF IInv
<1>1. CASE Arrive
    <2>1. arrived + 1 \in Id
        BY <1>0, <1>1, IngestAssumption DEF Arrive, TypeOK, Id
    <2>2. /\ pc' = [pc EXCEPT ![arrived + 1] = "begin"]
          /\ \A q \in Id : q # arrived + 1 => tx'[q] = tx[q]
          /\ UNCHANGED <<rows, claims>> /\ Stored' = Stored
        BY <1>0, <1>1, RowsFrame DEF Arrive, Goto, TypeOK
    <2>3. \A q \in Id : \/ pc'[q] = pc[q] /\ tx'[q] = tx[q]
                        \/ pc'[q] = "begin"
        BY <1>0, <2>1, <2>2 DEF TypeOK
    <2> QED
        BY <1>0, <2>2, <2>3 DEF ClaimsSound, NeverMissing, Claimed
<1>2. CASE Crash
    <2>1. UNCHANGED <<rows, claims, tx>> /\ Stored' = Stored
        BY <1>2, RowsFrame DEF Crash
    <2>2. \A q \in Id : pc'[q] = pc[q] \/ pc'[q] = "failed"
        BY <1>2 DEF Crash
    <2> QED
        BY <1>0, <2>1, <2>2 DEF ClaimsSound, NeverMissing, Claimed
<1>3. CASE UNCHANGED vars
    BY <1>0, <1>3 DEF vars, ClaimsSound, NeverMissing, Stored
<1>4. ASSUME NEW r \in Id, Quiet(r) PROVE ClaimsSound' /\ NeverMissing'
    <2>1. /\ \A q \in Id : q # r => pc'[q] = pc[q] /\ tx'[q] = tx[q]
          /\ \A q \in Id : tx'[q].key = tx[q].key
          /\ rows' = rows /\ claims' = claims /\ Stored' = Stored
        BY <1>0, <1>4, QuietFrame, RowsFrame
    <2>2. /\ pc'[r] # "missing"
          /\ pc'[r] = "duplicate" => tx[r].key # NoKey /\ claims[tx[r].key] # NoClaim
        <3>1. CASE LoadDuplicate(r)
            <4>1. tx[r].key \in Keys
                BY <1>0, <3>1 DEF LoadDuplicate, ClaimsSound, TypeOK, Request
            <4>2. claims[tx[r].key] \in Stored
                BY <1>0, <3>1, <4>1 DEF LoadDuplicate, ClaimsSound
            <4> QED
                BY <1>0, <3>1, <4>2 DEF LoadDuplicate, Goto, TypeOK
        <3>2. CASE Claim(r)
            BY <1>0, <3>2 DEF Claim, AfterClaim, Goto, TypeOK
        <3> QED
            BY <1>0, <1>4, <3>1, <3>2
               DEF Quiet, BeginIngestTx, Resolve, ReadLastHash, Save, Respond, Fail, Goto, TypeOK
    <2>3. pc'[r] \in Claimed /\ tx[r].key # NoKey =>
              /\ claims[tx[r].key] = NoClaim
              /\ \A q \in Id : (pc[q] \in Claimed /\ tx[q].key = tx[r].key) => q = r
        <3>1. CASE Claim(r)
            BY <1>0, <3>1 DEF Claim, AfterClaim, Blocked, Claimed, Goto, TypeOK
        <3>2. CASE pc[r] \in Claimed
            BY <1>0, <3>2 DEF ClaimsSound
        <3>3. CASE pc[r] \notin Claimed /\ ~Claim(r)
            BY <1>0, <1>4, <3>3
               DEF Quiet, BeginIngestTx, LoadDuplicate, Resolve, ReadLastHash, Save, Respond,
                   Fail, Goto, Claimed, TypeOK
        <3> QED
            BY <3>1, <3>2, <3>3
    <2> QED
        BY <1>0, <2>1, <2>2, <2>3 DEF ClaimsSound, NeverMissing
<1>5. ASSUME NEW r \in Id, Publishes(r) PROVE ClaimsSound' /\ NeverMissing'
    <2>1. /\ pc[r] = "commit" /\ Publish(r) /\ tx' = tx
          /\ pc'[r] \in {"committed", "failed"}
          /\ \A q \in Id : q # r => pc'[q] = pc[q]
        BY <1>0, <1>5, PublishFrame
    <2>2. /\ rows' \in Seq(Row) /\ Len(rows') = Len(rows) + 1
          /\ \A i \in 1..Len(rows) : rows'[i] = rows[i]
          /\ rows'[Len(rows')] = Published(r)
          /\ Stored' = Stored \cup {r}
        BY <1>0, <2>1, PublishRows
    <2>3. \A i \in 1..Len(rows') : i \in 1..Len(rows) \/ i = Len(rows')
        BY <1>0, <2>2 DEF TypeOK
    <2>4. tx[r].result = r /\ r # NoClaim
        BY <1>0, <2>1, IngestAssumption DEF LinksStored, Id
    <2>5. \A k \in Keys : claims'[k] = IF k = tx[r].key THEN r ELSE claims[k]
        BY <1>0, <2>1, <2>4, IngestAssumption DEF Publish, TypeOK
    <2>6. \A k \in Keys : claims'[k] # NoClaim => claims'[k] \in Stored'
        BY <1>0, <2>2, <2>5 DEF ClaimsSound
    <2>7. \A i \in 1..Len(rows') : rows'[i].key # NoKey => claims'[rows'[i].key] # NoClaim
        <3>1. \A i \in 1..Len(rows') : rows'[i].key \in Keys \cup {NoKey}
            <4>1. \A i \in 1..Len(rows') : rows'[i] \in Row
                BY <2>2
            <4> QED
                BY <4>1 DEF Row
        <3>2. Published(r).key = tx[r].key
            BY DEF Published
        <3> QED
            BY <1>0, <2>2, <2>3, <2>4, <2>5, <3>1, <3>2 DEF ClaimsSound
    <2>8. \A q \in Id : pc'[q] = "duplicate" =>
                tx[q].key # NoKey /\ claims'[tx[q].key] # NoClaim
        <3>1. \A q \in Id : tx[q].key \in Keys \cup {NoKey}
            BY <1>0 DEF TypeOK, Request
        <3> QED
            BY <1>0, <2>1, <2>4, <2>5, <3>1 DEF ClaimsSound
    <2>9. \A q \in Id : (pc'[q] \in Claimed /\ tx[q].key # NoKey) =>
                claims'[tx[q].key] = NoClaim
        <3>1. \A q \in Id : tx[q].key \in Keys \cup {NoKey}
            BY <1>0 DEF TypeOK, Request
        <3>2. \A q \in Id : (pc'[q] \in Claimed /\ tx[q].key # NoKey) =>
                    q # r /\ pc[q] \in Claimed /\ tx[q].key # tx[r].key
            BY <1>0, <2>1 DEF ClaimsSound, Claimed
        <3> QED
            BY <1>0, <2>5, <3>1, <3>2 DEF ClaimsSound
    <2>10. \A p, q \in Id :
              (pc'[p] \in Claimed /\ pc'[q] \in Claimed /\ tx[p].key = tx[q].key
                 /\ tx[p].key # NoKey) => p = q
        BY <1>0, <2>1 DEF ClaimsSound, Claimed
    <2>11. NeverMissing'
        BY <1>0, <2>1 DEF NeverMissing
    <2> QED
        BY <2>1, <2>6, <2>7, <2>8, <2>9, <2>10, <2>11 DEF ClaimsSound
<1> QED
    BY <1>1, <1>2, <1>3, <1>4, <1>5, NextCases

\* A key has one entry: while its claim is open no row has it.
LEMMA NextOnce == IInv /\ [Next]_vars => ExactlyOnce'
<1> SUFFICES ASSUME IInv, [Next]_vars PROVE ExactlyOnce'
    OBVIOUS
<1>0. TypeOK /\ Arrivals /\ ClaimsSound /\ ExactlyOnce
    BY DEF IInv
<1>1. CASE UNCHANGED rows
    BY <1>0, <1>1, RowsFrame
<1>2. ASSUME NEW r \in Id, Publishes(r) PROVE ExactlyOnce'
    <2>1. pc[r] = "commit" /\ Publish(r)
        BY <1>0, <1>2, PublishFrame
    <2>2. /\ Len(rows') = Len(rows) + 1
          /\ \A i \in 1..Len(rows) : rows'[i] = rows[i]
          /\ rows'[Len(rows')] = Published(r)
        BY <1>0, <2>1, PublishRows
    <2>3. \A i \in 1..Len(rows') : i \in 1..Len(rows) \/ i = Len(rows')
        BY <1>0, <2>2 DEF TypeOK
    <2>4. \A i \in 1..Len(rows) : tx[r].key # NoKey => rows[i].key # tx[r].key
        BY <1>0, <2>1 DEF ClaimsSound, Claimed
    <2>5. Published(r).key = tx[r].key
        BY DEF Published
    <2> QED
        BY <1>0, <2>2, <2>3, <2>4, <2>5 DEF ExactlyOnce
<1> QED
    BY <1>1, <1>2, <1>0, NextCases, QuietFrame DEF Arrive, Crash, vars

\* A strict report that goes on has found its prescription (Resolve), and
\* what is found stays.
LEMMA NextResolutions == IInv /\ [Next]_vars => Resolutions' /\ ReportsLinked'
<1> SUFFICES ASSUME IInv, [Next]_vars PROVE Resolutions' /\ ReportsLinked'
    OBVIOUS
<1>0. TypeOK /\ Arrivals /\ Resolutions /\ ReportsLinked
    BY DEF IInv
<1>1. CASE Arrive
    <2>1. arrived + 1 \in Id /\ UNCHANGED rows
        BY <1>0, <1>1, IngestAssumption DEF Arrive, TypeOK, Id
    <2>2. \A q \in Id : \/ pc'[q] = pc[q] /\ tx'[q] = tx[q]
                        \/ pc'[q] = "begin"
        BY <1>0, <1>1, <2>1 DEF Arrive, Goto, TypeOK
    <2> QED
        BY <1>0, <2>1, <2>2, RowsFrame DEF Resolutions, Prescribed
<1>2. CASE Crash
    <2>1. UNCHANGED <<rows, tx>> /\ \A q \in Id : pc'[q] = pc[q] \/ pc'[q] = "failed"
        BY <1>2 DEF Crash
    <2> QED
        BY <1>0, <2>1, RowsFrame DEF Resolutions, Prescribed
<1>3. CASE UNCHANGED vars
    BY <1>0, <1>3, RowsFrame DEF vars, Resolutions, Prescribed
<1>4. ASSUME NEW r \in Id, Quiet(r) PROVE Resolutions' /\ ReportsLinked'
    <2>1. /\ UNCHANGED rows
          /\ \A q \in Id : q # r => pc'[q] = pc[q] /\ tx'[q] = tx[q]
          /\ \A q \in Id : /\ tx'[q].kind = tx[q].kind /\ tx'[q].ref = tx[q].ref
                            /\ tx'[q].soft = tx[q].soft
        BY <1>0, <1>4, QuietFrame
    <2>2. (pc'[r] \in {"hash", "save", "commit"} /\ tx[r].kind = "report" /\ ~tx[r].soft)
              => Prescribed(tx[r].ref)
        <3>1. CASE Resolve(r)
            <4> SUFFICES ASSUME pc'[r] = "hash", ~tx[r].soft PROVE Prescribed(tx[r].ref)
                BY <1>0, <3>1 DEF Resolve, Goto, TypeOK
            <4>1. Resolved(r)
                BY <1>0, <3>1 DEF Resolve, Goto, TypeOK
            <4>2. tx[r].ref \in Stored /\ RowOf(tx[r].ref).kind = "prescribe"
                BY <4>1 DEF Resolved
            <4>3. (CHOOSE i \in 1..Len(rows) : rows[i].id = tx[r].ref)
                      \in {i \in 1..Len(rows) : rows[i].id = tx[r].ref}
                BY <4>2 DEF Stored
            <4> QED
                BY <4>2, <4>3 DEF RowOf, Prescribed
        <3>2. CASE Claim(r)
            BY <1>0, <3>2 DEF Claim, AfterClaim, Goto, TypeOK
        <3>3. CASE pc[r] \in {"hash", "save", "commit"}
            BY <1>0, <3>3 DEF Resolutions
        <3> QED
            BY <1>0, <1>4, <3>1, <3>2, <3>3
               DEF Quiet, BeginIngestTx, LoadDuplicate, ReadLastHash, Save, Respond, Fail,
                   Goto, TypeOK
    <2> QED
        BY <1>0, <2>1, <2>2, RowsFrame DEF Resolutions, Prescribed
<1>5. ASSUME NEW r \in Id, Publishes(r) PROVE Resolutions' /\ ReportsLinked'
    <2>1. /\ pc[r] = "commit" /\ Publish(r) /\ tx' = tx
          /\ pc'[r] \in {"committed", "failed"}
          /\ \A q \in Id : q # r => pc'[q] = pc[q]
        BY <1>0, <1>5, PublishFrame
    <2>2. /\ Len(rows') = Len(rows) + 1
          /\ \A i \in 1..Len(rows) : rows'[i] = rows[i]
          /\ rows'[Len(rows')] = Published(r)
        BY <1>0, <2>1, PublishRows
    <2>3. Len(rows) \in Nat /\ \A i \in 1..Len(rows') : i \in 1..Len(rows) \/ i = Len(rows')
        BY <1>0, <2>2 DEF TypeOK
    <2>4. Resolutions'
        <3>1. \A ref : Prescribed(ref) => Prescribed(ref)'
            BY <2>2, <2>3 DEF Prescribed
        <3> QED
            BY <1>0, <2>1, <3>1 DEF Resolutions
    <2>5. ReportsLinked'
        <3> SUFFICES ASSUME NEW i \in 1..Len(rows'), rows'[i].kind = "report", ~rows'[i].soft
                     PROVE  \E j \in 1..(i - 1) : /\ rows'[j].id = rows'[i].ref
                                                  /\ rows'[j].kind = "prescribe"
            BY DEF ReportsLinked
        <3>1. CASE i \in 1..Len(rows)
            <4>1. PICK j \in 1..(i - 1) : rows[j].id = rows[i].ref /\ rows[j].kind = "prescribe"
                BY <1>0, <2>2, <3>1 DEF ReportsLinked
            <4> QED
                BY <2>2, <2>3, <3>1, <4>1
        <3>2. CASE i = Len(rows')
            <4>1. tx[r].kind = "report" /\ ~tx[r].soft /\ rows'[i].ref = tx[r].ref
                BY <2>2, <3>2 DEF Published
            <4>2. PICK j \in 1..Len(rows) : rows[j].id = tx[r].ref /\ rows[j].kind = "prescribe"
                BY <1>0, <2>1, <4>1 DEF Resolutions, Prescribed
            <4> QED
                BY <2>2, <2>3, <3>2, <4>1, <4>2
        <3> QED
            BY <2>3, <3>1, <3>2
    <2> QED
        BY <2>4, <2>5
<1> QED
    BY <1>1, <1>2, <1>3, <1>4, <1>5, NextCases

-----------------------------------------------------------------------------
(***************************************************************************)
(* The theorems.                                                           *)
(***************************************************************************)

\* The relation between requests in flight, claims and committed rows holds in
\* every reachable state, whatever fails (Service, withTx, claimIfNeeded).
THEOREM InductiveInvariant == Spec => []IInv
<1>1. Init => IInv
    BY InitTyping
       DEF Init, IInv, RowsEnded, KnownStored, LatestExists, LinksStored, ClaimsSound,
           Resolutions, ExactlyOnce, NeverMissing, ReportsLinked, Claimed, Stored
<1>2. IInv /\ [Next]_vars => IInv'
    BY NextTyping, NextStored, NextLatest, NextClaims, NextOnce, NextResolutions
       DEF IInv, StoredInv
<1> QED
    BY <1>1, <1>2, PTL DEF Spec

\* The pool never hands out more connections than it has, and the rest of the
\* types.
THEOREM TypeCorrect == Spec => []TypeOK
<1>1. IInv => TypeOK
    BY DEF IInv
<1> QED
    BY <1>1, InductiveInvariant, PTL

\* An idempotency key stands for at most one stored entry, whatever retries,
\* lost commit answers and crashes there were (claimIfNeeded, finalizeClaim).
THEOREM RetriesSafe == Spec => []ExactlyOnce
<1>1. IInv => ExactlyOnce
    BY DEF IInv
<1> QED
    BY <1>1, InductiveInvariant, PTL

\* A retry that finds its key taken finds the entry too: a claim is committed
\* only together with its result (loadDuplicate).
THEOREM RetriesAnswered == Spec => []NeverMissing
<1>1. IInv => NeverMissing
    BY DEF IInv
<1> QED
    BY <1>1, InductiveInvariant, PTL

\* A strict report is stored after the prescription it names
\* (resolvePrescriptionForReport).
THEOREM ReportsFollow == Spec => []ReportsLinked
<1>1. IInv => ReportsLinked
    BY DEF IInv
<1> QED
    BY <1>1, InductiveInvariant, PTL

-----------------------------------------------------------------------------
(***************************************************************************)
(* Refinement: a commit is the step Write of AppendLog, an answer that a   *)
(* client gets is the step Ack, everything else a stutter.                 *)
(***************************************************************************)

LEMMA AbstractIds == TypeOK => Abstract!Ids = Stored
<1> SUFFICES ASSUME TypeOK PROVE Abstract!Ids = Stored
    OBVIOUS
<1>1. Len(rows) \in Nat
    BY DEF TypeOK
<1>2. Len(AbsLog) = Len(rows)
    BY <1>1 DEF AbsLog
<1>3. \A i \in 1..Len(rows) : AbsLog[i].id = rows[i].id
    BY DEF AbsLog
<1> QED
    BY <1>2, <1>3 DEF Abstract!Ids, Stored

LEMMA CommitWrites ==
    ASSUME IInv, NEW r \in Id, Publishes(r)
    PROVE  Abstract!Next
<1>0. TypeOK /\ Arrivals /\ RowsEnded /\ LinksStored
    BY DEF IInv
<1>1. /\ pc[r] = "commit" /\ Publish(r) /\ UNCHANGED acked
    BY <1>0, PublishFrame
<1>2. /\ rows' \in Seq(Row) /\ Len(rows') = Len(rows) + 1
      /\ \A i \in 1..Len(rows) : rows'[i] = rows[i]
      /\ rows'[Len(rows')] = Published(r)
    BY <1>0, <1>1, PublishRows
<1> DEFINE e == [id |-> r, prev |-> tx[r].prev]
<1>3. e \in Abstract!Entry
    BY <1>0 DEF TypeOK, Request, Abstract!Entry
<1>4. r \notin Stored /\ e.prev \in Stored \cup {NoHash}
    BY <1>0, <1>1 DEF RowsEnded, Stored, LinksStored
<1>5. AbsLog' = Append(AbsLog, e)
    <2>1. Len(rows) \in Nat /\ Len(AbsLog) = Len(rows)
        BY <1>0 DEF TypeOK, AbsLog
    <2>2. Published(r).id = r /\ Published(r).prev = tx[r].prev
        BY DEF Published
    <2>3. AbsLog' = [i \in 1..(Len(rows) + 1) |-> IF i <= Len(rows) THEN AbsLog[i] ELSE e]
        BY <1>2, <2>1, <2>2 DEF AbsLog
    <2>4. AbsLog \in Seq(Abstract!Entry)
        <3>1. \A i \in 1..Len(rows) : rows[i] \in Row
            BY <1>0 DEF TypeOK
        <3>2. \A i \in 1..Len(rows) : AbsLog[i] \in Abstract!Entry
            BY <3>1 DEF AbsLog, Row, Abstract!Entry
        <3> QED
            BY <2>1, <3>2 DEF AbsLog
    <2> QED
        BY <2>1, <2>3, <2>4, <1>3
<1> QED
    BY <1>0, <1>1, <1>3, <1>4, <1>5, AbstractIds DEF Abstract!Next, Abstract!Write

LEMMA AnswerAcks ==
    ASSUME IInv, UNCHANGED rows, NEW id \in Stored, acked' = acked \cup {id}
    PROVE  Abstract!Next \/ UNCHANGED Abstract!vars
<1>1. TypeOK /\ AbsLog' = AbsLog
    BY DEF IInv, AbsLog
<1>2. CASE id \in acked
    BY <1>1, <1>2 DEF Abstract!vars
<1>3. CASE id \notin acked
    <2>1. id \in Id /\ id \in Abstract!Ids
        BY <1>1, AbstractIds, StoredType
    <2> QED
        BY <1>1, <1>3, <2>1 DEF Abstract!Next, Abstract!Ack
<1> QED
    BY <1>2, <1>3

LEMMA NextMaps == IInv /\ [Next]_vars => [Abstract!Next]_(Abstract!vars)
<1> SUFFICES ASSUME IInv, [Next]_vars PROVE Abstract!Next \/ UNCHANGED Abstract!vars
    OBVIOUS
<1>0. TypeOK /\ KnownStored /\ ClaimsSound
    BY DEF IInv
<1>1. CASE UNCHANGED <<rows, acked>>
    BY <1>1 DEF Abstract!vars, AbsLog
<1>2. ASSUME NEW r \in Id, Publishes(r) PROVE Abstract!Next
    BY <1>2, CommitWrites
<1>3. ASSUME NEW r \in Id, LoadDuplicate(r) PROVE Abstract!Next \/ UNCHANGED Abstract!vars
    <2>1. CASE claims[tx[r].key] \in Stored
        BY <1>3, <2>1, AnswerAcks DEF LoadDuplicate
    <2>2. CASE claims[tx[r].key] \notin Stored
        BY <1>1, <1>3, <2>2 DEF LoadDuplicate
    <2> QED
        BY <2>1, <2>2
<1>4. ASSUME NEW r \in Id, Respond(r) PROVE Abstract!Next \/ UNCHANGED Abstract!vars
    BY <1>0, <1>4, AnswerAcks DEF Respond, KnownStored
<1> QED
    BY <1>1, <1>2, <1>3, <1>4, NextCases
       DEF Quiet, Arrive, Crash, vars, BeginIngestTx, Claim, Resolve, ReadLastHash, Save, Fail

\* In commit order the entries of a tenant are the append-only log, and a client
\* is told of an entry only once it is there (saveEntry, withTx).
THEOREM IngestImplementsAppendLog == Spec => ImplementsAppendLog
<1>1. Init => Abstract!Init
    BY DEF Init, Abstract!Init, AbsLog
<1>2. IInv /\ [Next]_vars => [Abstract!Next]_(Abstract!vars)
    BY NextMaps
<1> QED
    BY <1>1, <1>2, InductiveInvariant, PTL DEF Spec, Abstract!Spec, ImplementsAppendLog
===========================================================================
