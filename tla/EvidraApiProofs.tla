-------------------------- MODULE EvidraApiProofs --------------------------
(***************************************************************************)
(* Theorems about the evidra-api server (EvidraApi) for any clients,        *)
(* uploaders, tenants, keys, batches and faults: what its tables never      *)
(* hold halfway, twice, or for the wrong tenant, what the pages of a replay *)
(* can miss, and how many keys an address is given.                         *)
(***************************************************************************)
EXTENDS EvidraApi, FiniteSetTheorems, NaturalsInduction, WellFoundedInduction, TLAPS

-----------------------------------------------------------------------------
(* Benchmark results                                                        *)

RunRow == [tenant: Tenants, by: 1..Len(uploads), archived: BOOLEAN]
UploadType == [tenant: Tenants, single: BOOLEAN, runs: Seq(Runs), types: SUBSET Types]

ResultTypes ==
    /\ uploads \in Seq(UploadType)
    /\ runs \in [Runs -> RunRow \cup {NoRun}]
    /\ DOMAIN artifacts = Runs
    /\ tx \in [Uploaders -> [req: 0..Len(uploads), todo: Seq(Runs), rows: SUBSET Runs,
                             extra: SUBSET [run: Runs, type: Types, by: Nat]]]
    /\ imported \subseteq [req: 1..Len(uploads), rows: SUBSET Runs]

\* What an open transaction has inserted nobody else has, and it is all there is
\* of it; what it is done with is inserted or was there already.
Imported == UNION {i.rows : i \in imported}
Listed(s) == {s[k] : k \in 1..Len(s)}
OpenTx(c) ==
    /\ tx[c].req = 0 => tx[c] = NoTx
    /\ \A r \in tx[c].rows : ~HasRun(r)
    /\ \A d \in Uploaders \ {c} : tx[c].rows \cap tx[d].rows = {}
    /\ tx[c].extra = UNION {Artifacts(r, tx[c].req) : r \in tx[c].rows}
    /\ tx[c].req # 0 =>
          Listed(Request(c).runs) \subseteq tx[c].rows \cup Listed(tx[c].todo) \cup Imported

RunsStored ==
    \A r \in Runs :
        /\ artifacts[r] = IF HasRun(r) THEN Artifacts(r, runs[r].by) ELSE {}
        /\ HasRun(r) => r \in Imported /\ uploads[runs[r].by].tenant = runs[r].tenant

Complete == \A i \in imported : Listed(uploads[i.req].runs) \subseteq Imported

ResultsInv ==
    ResultTypes /\ (\A c \in Uploaders : OpenTx(c)) /\ RunsStored /\ Complete

LEMMA RowsAreRuns ==
    ASSUME ResultTypes, NEW r \in Runs
    PROVE  HasRun(r) => /\ runs[r].tenant \in Tenants /\ runs[r].by \in 1..Len(uploads)
                        /\ runs[r].archived \in BOOLEAN
BY DEF ResultTypes, RunRow, HasRun

LEMMA RowsAreNew ==
    ASSUME NEW t \in Tenants, NEW n \in Nat, NEW b \in BOOLEAN
    PROVE  [tenant |-> t, by |-> n, archived |-> b] # NoRun
BY ResultsAssumption DEF ResultsAssumption

LEMMA InitResults == ResultsInit => ResultsInv
BY DEF ResultsInit, ResultsInv, ResultTypes, OpenTx, NoTx, RunsStored, Complete, HasRun,
       Imported, Artifacts, Listed


TxType == [req: 0..Len(uploads), todo: Seq(Runs), rows: SUBSET Runs,
           extra: SUBSET [run: Runs, type: Types, by: Nat]]

LEMMA NoTxTyped == NoTx \in TxType
BY DEF ResultTypes, NoTx, TxType

\* A transaction another client's step leaves alone.
LEMMA OthersKeep ==
    ASSUME ResultsInv, NEW d \in Uploaders, tx'[d] = tx[d],
           \A r \in tx[d].rows : runs'[r] = runs[r],
           \A e \in Uploaders \ {d} : tx[d].rows \cap tx'[e].rows = {},
           \A k \in 1..Len(uploads) : uploads'[k] = uploads[k],
           imported \subseteq imported'
    PROVE  OpenTx(d)'
<1>1. OpenTx(d) /\ tx[d] \in TxType /\ Len(uploads) \in Nat
    BY DEF ResultsInv, ResultTypes, TxType
<1>2. \A r \in tx[d].rows : ~HasRun(r)'
    BY <1>1 DEF OpenTx, HasRun
<1>3. tx[d].req # 0 => tx[d].req \in 1..Len(uploads)
    BY <1>1 DEF TxType
<1>4. tx[d].req = 0 => tx[d].rows = {} /\ tx[d].extra = {}
    BY <1>1 DEF OpenTx, NoTx
<1>5. tx[d].extra = UNION {Artifacts(r, tx[d].req)' : r \in tx[d].rows}
    <2>1. CASE tx[d].req = 0
        BY <1>4, <2>1
    <2>2. CASE tx[d].req # 0
        <3>1. uploads'[tx[d].req] = uploads[tx[d].req]
            BY <1>3, <2>2
        <3>2. \A r : Artifacts(r, tx[d].req)' = Artifacts(r, tx[d].req)
            BY <3>1 DEF Artifacts
        <3> QED
            BY <1>1, <3>2 DEF OpenTx
    <2> QED
        BY <2>1, <2>2
<1>6. Imported \subseteq Imported'
    BY DEF Imported
<1>7. tx[d].req # 0 =>
          Listed(Request(d).runs)' \subseteq tx[d].rows \cup Listed(tx[d].todo) \cup Imported'
    <2> SUFFICES ASSUME tx[d].req # 0
                 PROVE  Listed(Request(d).runs)' \subseteq
                            tx[d].rows \cup Listed(tx[d].todo) \cup Imported'
        OBVIOUS
    <2>1. uploads'[tx'[d].req] = uploads[tx[d].req]
        BY <1>3
    <2>2. Listed(Request(d).runs)' = Listed(Request(d).runs)
        BY <2>1 DEF Request, Listed
    <2> QED
        BY <1>1, <1>6, <2>2 DEF OpenTx
<1> QED
    BY <1>1, <1>2, <1>5, <1>7 DEF OpenTx, Listed, NoTx

\* The stored runs, when more requests are known and nothing else changed.
LEMMA StoredKeep ==
    ASSUME ResultsInv, runs' = runs, artifacts' = artifacts, imported' = imported,
           \A k \in 1..Len(uploads) : uploads'[k] = uploads[k]
    PROVE  RunsStored' /\ Complete'
<1>1. Imported' = Imported
    BY DEF Imported
<1>2. ASSUME NEW r \in Runs
      PROVE  /\ artifacts'[r] = IF HasRun(r)' THEN Artifacts(r, runs[r].by)' ELSE {}
             /\ HasRun(r)' => r \in Imported' /\ uploads'[runs'[r].by].tenant = runs'[r].tenant
    <2>1. HasRun(r)' <=> HasRun(r)
        BY DEF HasRun
    <2>2. /\ artifacts[r] = IF HasRun(r) THEN Artifacts(r, runs[r].by) ELSE {}
          /\ HasRun(r) => r \in Imported /\ uploads[runs[r].by].tenant = runs[r].tenant
        BY DEF ResultsInv, RunsStored
    <2>3. HasRun(r) => uploads'[runs[r].by] = uploads[runs[r].by]
        BY RowsAreRuns DEF ResultsInv
    <2>4. HasRun(r) => Artifacts(r, runs[r].by)' = Artifacts(r, runs[r].by)
        BY <2>3 DEF Artifacts
    <2> QED
        BY <1>1, <2>1, <2>2, <2>3, <2>4
<1>3. RunsStored'
    BY <1>2 DEF RunsStored, Artifacts
<1>4. ASSUME NEW i \in imported PROVE Listed(uploads'[i.req].runs) \subseteq Imported'
    <2>1. i.req \in 1..Len(uploads)
        BY DEF ResultsInv, ResultTypes
    <2> QED
        BY <1>1, <2>1 DEF ResultsInv, Complete
<1> QED
    BY <1>3, <1>4 DEF Complete, Listed

\* A request is numbered and its transaction opened.
LEMMA UploadKeeps ==
    ASSUME ResultsInv, NEW c \in Uploaders, NEW t \in Tenants, NEW single \in BOOLEAN,
           NEW body \in Uploads, NEW types \in SUBSET Types, Upload(c, t, single, body, types)
    PROVE  ResultsInv'
<1> DEFINE new == [tenant |-> t, single |-> single, runs |-> body, types |-> types]
           n == Len(uploads) + 1
           open == [req |-> n, todo |-> body, rows |-> {}, extra |-> {}]
<1>1. new \in UploadType /\ body \in Seq(Runs) /\ new.runs = body
    BY ResultsAssumption DEF UploadType
<1>2. /\ uploads \in Seq(UploadType) /\ Len(uploads) \in Nat
      /\ uploads' = Append(uploads, new) /\ tx[c].req = 0
      /\ tx' = [tx EXCEPT ![c] = open]
      /\ runs' = runs /\ artifacts' = artifacts /\ imported' = imported
    BY DEF Upload, ResultsInv, ResultTypes
<1>3. open \in TxType'
    BY <1>1, <1>2 DEF TxType
<1> HIDE DEF new
<1>4. /\ uploads' \in Seq(UploadType) /\ Len(uploads') = n
      /\ \A k \in 1..Len(uploads) : uploads'[k] = uploads[k]
      /\ uploads'[n] = new
    BY <1>1, <1>2
<1>5. /\ tx'[c] = open /\ \A d \in Uploaders \ {c} : tx'[d] = tx[d]
    BY <1>2 DEF ResultsInv, ResultTypes
<1>6. ResultTypes'
    <2>1. runs' \in [Runs -> RunRow' \cup {NoRun}]
        BY <1>2, <1>4 DEF ResultsInv, ResultTypes, RunRow
    <2>2. imported' \subseteq [req: 1..n, rows: SUBSET Runs]
        BY <1>2 DEF ResultsInv, ResultTypes
    <2>3. TxType \subseteq TxType'
        BY <1>2, <1>4 DEF TxType
    <2>4. tx' \in [Uploaders -> TxType']
        BY <1>2, <1>3, <2>3 DEF ResultsInv, ResultTypes, TxType
    <2> QED
        BY <1>2, <1>4, <2>1, <2>2, <2>4 DEF ResultsInv, ResultTypes, TxType
<1>7. ASSUME NEW d \in Uploaders PROVE OpenTx(d)'
    <2>1. CASE d = c
        <3>1. Request(c)'.runs = body
            BY <1>1, <1>4, <1>5 DEF Request
        <3>2. n # 0
            BY <1>2
        <3> QED
            BY <1>5, <2>1, <3>1, <3>2 DEF OpenTx, Listed
    <2>2. CASE d # c
        <3>1. \A e \in Uploaders \ {d} : tx[d].rows \cap tx'[e].rows = {}
            BY <1>5 DEF ResultsInv, OpenTx
        <3> QED
            BY <1>2, <1>4, <1>5, <2>2, <3>1, OthersKeep
    <2> QED
        BY <2>1, <2>2
<1> QED
    BY <1>2, <1>4, <1>6, <1>7, StoredKeep DEF ResultsInv

\* A transaction ends without a trace.
LEMMA RollbackKeeps ==
    ASSUME ResultsInv, NEW c \in Uploaders, tx' = [tx EXCEPT ![c] = NoTx],
           UNCHANGED <<runs, artifacts, uploads, imported>>
    PROVE  ResultsInv'
<1>1. tx'[c] = NoTx /\ \A d \in Uploaders \ {c} : tx'[d] = tx[d]
    BY DEF ResultsInv, ResultTypes
<1>2. ResultTypes'
    <2>1. NoTx \in TxType
        BY NoTxTyped DEF ResultsInv
    <2>2. tx' \in [Uploaders -> TxType]
        BY <2>1 DEF ResultsInv, ResultTypes, TxType
    <2> QED
        BY <2>2 DEF ResultsInv, ResultTypes, RunRow, TxType
<1>3. ASSUME NEW d \in Uploaders PROVE OpenTx(d)'
    <2>1. CASE d = c
        BY <1>1, <2>1 DEF OpenTx, NoTx
    <2>2. CASE d # c
        <3>1. \A e \in Uploaders \ {d} : tx[d].rows \cap tx'[e].rows = {}
            BY <1>1 DEF ResultsInv, OpenTx, NoTx
        <3> QED
            BY <1>1, <2>2, <3>1, OthersKeep
    <2> QED
        BY <2>1, <2>2
<1> QED
    BY <1>2, <1>3, StoredKeep DEF ResultsInv

LEMMA HeadAndTail ==
    ASSUME NEW S, NEW q \in Seq(S), q # <<>>
    PROVE  /\ Head(q) \in S /\ Tail(q) \in Seq(S)
           /\ Listed(q) \subseteq {Head(q)} \cup Listed(Tail(q))
<1>1. Head(q) \in S /\ Tail(q) \in Seq(S) /\ Len(q) \in Nat \ {0}
    OBVIOUS
<1>2. ASSUME NEW k \in 1..Len(q) PROVE q[k] \in {Head(q)} \cup Listed(Tail(q))
    <2>1. CASE k = 1
        BY <2>1
    <2>2. CASE k # 1
        <3>1. k - 1 \in 1..Len(Tail(q)) /\ Tail(q)[k - 1] = q[k]
            BY <1>1, <2>2
        <3> QED
            BY <3>1 DEF Listed
    <2> QED
        BY <2>1, <2>2
<1> QED
    BY <1>1, <1>2 DEF Listed

\* A run is inserted, or it is there already and the statement skips it; nobody
\* else has inserted it, since the statement would have waited.
LEMMA InsertKeeps ==
    ASSUME ResultsInv, NEW c \in Uploaders, InsertRun(c)
    PROVE  ResultsInv'
<1> DEFINE r == Head(tx[c].todo)
           n == tx[c].req
           Done(rows, extra) == [req |-> n, todo |-> Tail(tx[c].todo),
                                 rows |-> tx[c].rows \cup rows,
                                 extra |-> tx[c].extra \cup extra]
<1>1. /\ tx[c] \in TxType /\ OpenTx(c) /\ tx[c].todo # <<>> /\ WaitsFor(c) = {}
      /\ runs' = runs /\ artifacts' = artifacts /\ uploads' = uploads /\ imported' = imported
    BY DEF InsertRun, ResultsInv, ResultTypes, TxType
<1>2. /\ r \in Runs /\ Tail(tx[c].todo) \in Seq(Runs)
      /\ Listed(tx[c].todo) \subseteq {r} \cup Listed(Tail(tx[c].todo))
    BY <1>1, HeadAndTail DEF TxType
<1>3. n \in 1..Len(uploads)
    BY <1>1 DEF OpenTx, NoTx, TxType
<1>4. \A d \in Uploaders \ {c} : r \notin tx[d].rows
    BY <1>1 DEF WaitsFor
<1>5. ASSUME NEW rows \in SUBSET {r}, NEW extra,
             tx' = [tx EXCEPT ![c] = Done(rows, extra)],
             extra = UNION {Artifacts(q, n) : q \in rows},
             rows # {} => ~HasRun(r),
             r \in rows \cup tx[c].rows \cup Imported
      PROVE  ResultsInv'
    <2>1. /\ tx'[c].req = n /\ tx'[c].todo = Tail(tx[c].todo)
          /\ tx'[c].rows = tx[c].rows \cup rows /\ tx'[c].extra = tx[c].extra \cup extra
          /\ \A d \in Uploaders \ {c} : tx'[d] = tx[d]
        BY <1>5 DEF ResultsInv, ResultTypes
    <2>2. extra \in SUBSET [run: Runs, type: Types, by: Nat]
        <3>1. uploads[n] \in UploadType
            BY <1>3 DEF ResultsInv, ResultTypes
        <3> QED
            BY <1>2, <1>3, <1>5, <3>1 DEF Artifacts, UploadType, ResultsInv, ResultTypes
    <2>3. tx' \in [Uploaders -> TxType]
        <3>1. Done(rows, extra) \in TxType
            BY <1>1, <1>2, <2>2 DEF TxType
        <3> QED
            BY <1>5, <3>1 DEF ResultsInv, ResultTypes, TxType
    <2>4. ResultTypes'
        BY <1>1, <2>3 DEF ResultsInv, ResultTypes, RunRow, TxType
    <2>5. OpenTx(c)'
        <3>1. tx'[c].req # 0
            BY <1>3, <2>1 DEF ResultsInv, ResultTypes
        <3>2. \A q \in tx'[c].rows : ~HasRun(q)'
            BY <1>1, <1>5, <2>1 DEF OpenTx, HasRun
        <3>3. \A d \in Uploaders \ {c} : tx'[c].rows \cap tx'[d].rows = {}
            BY <1>1, <1>4, <2>1 DEF OpenTx
        <3>4. tx'[c].extra = UNION {Artifacts(q, n) : q \in tx'[c].rows}
            BY <1>1, <1>5, <2>1 DEF OpenTx
        <3>5. UNION {Artifacts(q, n) : q \in tx'[c].rows}
                = UNION {Artifacts(q, tx[c].req)' : q \in tx'[c].rows}
            BY <1>1, <2>1 DEF Artifacts
        <3>6. Listed(Request(c).runs) \subseteq
                 tx'[c].rows \cup Listed(tx'[c].todo) \cup Imported
            <4>1. tx[c].req # 0
                BY <1>3, <2>1, <3>1
            <4>2. Listed(Request(c).runs) \subseteq
                      tx[c].rows \cup Listed(tx[c].todo) \cup Imported
                BY <1>1, <4>1 DEF OpenTx
            <4> QED
                BY <1>2, <1>5, <2>1, <4>2
        <3>7. Request(c)' = Request(c) /\ Imported' = Imported
            BY <1>1, <2>1 DEF Request, Imported
        <3> QED
            BY <1>1, <2>1, <3>1, <3>2, <3>3, <3>4, <3>5, <3>6, <3>7 DEF OpenTx, Listed
    <2>6. ASSUME NEW d \in Uploaders \ {c} PROVE OpenTx(d)'
        <3>1. \A e \in Uploaders \ {d} : tx[d].rows \cap tx'[e].rows = {}
            <4>1. \A e \in Uploaders \ {d} : tx[d].rows \cap tx[e].rows = {}
                BY DEF ResultsInv, OpenTx
            <4> QED
                BY <1>4, <2>1, <4>1
        <3> QED
            BY <1>1, <2>1, <3>1, OthersKeep
    <2> QED
        BY <1>1, <2>4, <2>5, <2>6, StoredKeep DEF ResultsInv
<1>6. CASE ~Taken(c, r)
    <2>1. tx' = [tx EXCEPT ![c] = Done({r}, Artifacts(r, n))]
        BY <1>6 DEF InsertRun
    <2>2. ~HasRun(r)
        BY <1>6 DEF Taken
    <2>3. Artifacts(r, n) = UNION {Artifacts(q, n) : q \in {r}}
        OBVIOUS
    <2> QED
        BY <1>5, <2>1, <2>2, <2>3
<1>7. CASE Taken(c, r) /\ Request(c).single
    BY <1>1, <1>7, RollbackKeeps DEF InsertRun
<1>8. CASE Taken(c, r) /\ ~Request(c).single
    <2>1. tx' = [tx EXCEPT ![c] = Done({}, {})]
        BY <1>8 DEF InsertRun, Skipped
    <2>2. r \in tx[c].rows \cup Imported
        BY <1>2, <1>8 DEF Taken, ResultsInv, RunsStored
    <2>3. {} = UNION {Artifacts(q, n) : q \in {}}
        OBVIOUS
    <2> QED
        BY <1>5, <2>1, <2>2, <2>3
<1> QED
    BY <1>6, <1>7, <1>8

\* Everything a transaction inserted appears at once.
LEMMA CommitKeeps ==
    ASSUME ResultsInv, NEW c \in Uploaders, Commit(c)
    PROVE  ResultsInv'
<1> DEFINE n == tx[c].req
           rows == tx[c].rows
           row == [tenant |-> Request(c).tenant, by |-> n, archived |-> FALSE]
           new == [req |-> n, rows |-> rows]
<1>1. /\ tx[c] \in TxType /\ OpenTx(c) /\ n # 0 /\ tx[c].todo = <<>>
      /\ uploads' = uploads /\ tx' = [tx EXCEPT ![c] = NoTx]
      /\ imported' = imported \cup {new}
    <2>1. tx[c] \in TxType /\ OpenTx(c)
        BY DEF ResultsInv, ResultTypes, TxType
    <2> QED
        BY <2>1 DEF Commit
<1>2. n \in 1..Len(uploads) /\ rows \subseteq Runs /\ n \in Nat
    BY <1>1 DEF TxType, ResultsInv, ResultTypes
<1>3. uploads[n] \in UploadType /\ Request(c) = uploads[n]
    BY <1>2 DEF ResultsInv, ResultTypes, Request
<1>4. row \in RunRow /\ row # NoRun
    BY <1>2, <1>3, RowsAreNew DEF RunRow, UploadType
<1>5. runs' = [r \in Runs |-> IF r \in rows THEN row ELSE runs[r]]
    BY DEF Commit
<1>6. tx'[c] = NoTx /\ \A d \in Uploaders \ {c} : tx'[d] = tx[d]
    BY <1>1 DEF ResultsInv, ResultTypes
<1>7. Imported' = Imported \cup rows
    <2>1. new.rows = rows
        OBVIOUS
    <2> HIDE DEF new
    <2> QED
        BY <1>1, <2>1, Zenon DEF Imported
<1> HIDE DEF row
<1>8. ResultTypes'
    <2>1. NoTx \in TxType
        BY NoTxTyped DEF ResultsInv
    <2>2. tx' \in [Uploaders -> TxType]
        BY <1>1, <2>1 DEF ResultsInv, ResultTypes, TxType
    <2>3. runs' \in [Runs -> RunRow \cup {NoRun}]
        BY <1>4, <1>5 DEF ResultsInv, ResultTypes
    <2>4. DOMAIN artifacts' = Runs
        BY DEF Commit
    <2>5. imported' \subseteq [req: 1..Len(uploads), rows: SUBSET Runs]
        BY <1>1, <1>2 DEF ResultsInv, ResultTypes
    <2> QED
        BY <1>1, <2>2, <2>3, <2>4, <2>5 DEF ResultsInv, ResultTypes, RunRow, TxType
<1>9. ASSUME NEW d \in Uploaders PROVE OpenTx(d)'
    <2>1. CASE d = c
        BY <1>6, <2>1 DEF OpenTx, NoTx
    <2>2. CASE d # c
        <3>1. \A e \in Uploaders \ {d} : tx[d].rows \cap tx'[e].rows = {}
            BY <1>6 DEF ResultsInv, OpenTx, NoTx
        <3>2. tx[d].rows \cap rows = {}
            BY <2>2 DEF ResultsInv, OpenTx
        <3>3. tx[d].rows \subseteq Runs
            BY DEF ResultsInv, ResultTypes
        <3>4. \A r \in tx[d].rows : runs'[r] = runs[r]
            BY <1>5, <3>2, <3>3
        <3> QED
            BY <1>1, <1>6, <2>2, <3>1, <3>4, OthersKeep
    <2> QED
        BY <2>1, <2>2
<1>10. ASSUME NEW r \in Runs
       PROVE  /\ artifacts'[r] = IF HasRun(r)' THEN Artifacts(r, runs'[r].by) ELSE {}
              /\ HasRun(r)' => r \in Imported' /\ uploads[runs'[r].by].tenant = runs'[r].tenant
    <2> DEFINE own == {a \in tx[c].extra : a.run = r}
    <2>1. artifacts'[r] = IF runs'[r] = NoRun THEN {} ELSE Upserted(c, r)
        BY DEF Commit
    <2>2. /\ artifacts[r] = IF HasRun(r) THEN Artifacts(r, runs[r].by) ELSE {}
          /\ HasRun(r) => r \in Imported /\ uploads[runs[r].by].tenant = runs[r].tenant
        BY DEF ResultsInv, RunsStored
    <2>3. tx[c].extra = UNION {Artifacts(q, n) : q \in rows}
        BY <1>1 DEF OpenTx
    <2>4. CASE r \in rows
        <3>1. runs'[r] = row /\ ~HasRun(r)
            BY <1>1, <1>5, <2>4 DEF OpenTx
        <3>2. own = Artifacts(r, n)
            BY <2>3, <2>4 DEF Artifacts
        <3>3. Upserted(c, r) = Artifacts(r, n)
            BY <2>2, <3>1, <3>2 DEF Upserted
        <3>4. row.by = n /\ uploads[n].tenant = row.tenant
            BY <1>3 DEF row
        <3> QED
            BY <1>4, <1>7, <2>1, <2>4, <3>1, <3>3, <3>4 DEF HasRun
    <2>5. CASE r \notin rows
        <3>1. runs'[r] = runs[r]
            BY <1>5, <2>5
        <3>2. own = {}
            BY <2>3, <2>5 DEF Artifacts
        <3>3. Upserted(c, r) = artifacts[r]
            BY <3>2 DEF Upserted
        <3> QED
            BY <1>7, <2>1, <2>2, <3>1, <3>3 DEF HasRun
    <2> QED
        BY <2>4, <2>5
<1>11. RunsStored'
    BY <1>1, <1>10 DEF RunsStored, Artifacts
<1>12. ASSUME NEW i \in imported' PROVE Listed(uploads[i.req].runs) \subseteq Imported'
    <2>1. CASE i \in imported
        BY <1>7, <2>1 DEF ResultsInv, Complete
    <2>2. CASE i = new
        <3>1. Listed(tx[c].todo) = {}
            BY <1>1 DEF Listed
        <3> QED
            BY <1>1, <1>3, <1>7, <2>2, <3>1 DEF OpenTx
    <2> QED
        BY <1>1, <2>1, <2>2
<1>13. Complete'
    BY <1>1, <1>12 DEF Complete, Listed
<1> QED
    BY <1>8, <1>9, <1>11, <1>13 DEF ResultsInv

\* A run goes with its artifacts.
LEMMA DeleteKeeps ==
    ASSUME ResultsInv, NEW t \in Tenants, NEW r \in Runs, DeleteRun(t, r)
    PROVE  ResultsInv'
<1>1. /\ HasRun(r) /\ runs' = [runs EXCEPT ![r] = NoRun]
      /\ artifacts' = [artifacts EXCEPT ![r] = {}]
      /\ uploads' = uploads /\ tx' = tx /\ imported' = imported
    BY DEF DeleteRun
<1>2. ResultTypes'
    BY <1>1 DEF ResultsInv, ResultTypes, RunRow
<1>3. ASSUME NEW d \in Uploaders PROVE OpenTx(d)'
    <2>1. OpenTx(d) /\ r \notin tx[d].rows
        BY <1>1 DEF ResultsInv, OpenTx
    <2>2. \A q \in tx[d].rows : runs'[q] = runs[q]
        BY <1>1, <2>1 DEF ResultsInv, ResultTypes
    <2>3. \A e \in Uploaders \ {d} : tx[d].rows \cap tx'[e].rows = {}
        BY <1>1, <2>1 DEF OpenTx
    <2> QED
        BY <1>1, <2>2, <2>3, OthersKeep
<1>4. Imported' = Imported /\ Complete'
    BY <1>1 DEF Imported, Complete, Listed, ResultsInv
<1>5. ASSUME NEW q \in Runs
      PROVE  /\ artifacts'[q] = IF HasRun(q)' THEN Artifacts(q, runs'[q].by) ELSE {}
             /\ HasRun(q)' => q \in Imported /\ uploads[runs'[q].by].tenant = runs'[q].tenant
    BY <1>1 DEF ResultsInv, ResultTypes, RunsStored, HasRun
<1>6. RunsStored'
    BY <1>1, <1>4, <1>5 DEF RunsStored, Artifacts
<1> QED
    BY <1>2, <1>3, <1>4, <1>6 DEF ResultsInv

\* Runs are marked and nothing else of them changes.
LEMMA ArchiveKeeps ==
    ASSUME ResultsInv, NEW t \in Tenants, NEW ids \in SUBSET Runs, ArchiveRuns(t, ids)
    PROVE  ResultsInv'
<1> DEFINE Mark(r) == r \in ids /\ HasRun(r) /\ runs[r].tenant = t
<1>1. /\ runs' = [r \in Runs |-> IF Mark(r) THEN [runs[r] EXCEPT !.archived = TRUE]
                                 ELSE runs[r]]
      /\ artifacts' = artifacts /\ uploads' = uploads /\ tx' = tx /\ imported' = imported
    BY DEF ArchiveRuns
<1>2. ASSUME NEW r \in Runs
      PROVE  /\ runs'[r] \in RunRow \cup {NoRun}
             /\ HasRun(r)' <=> HasRun(r)
             /\ HasRun(r) => runs'[r].by = runs[r].by /\ runs'[r].tenant = runs[r].tenant
    <2>1. CASE Mark(r)
        <3>1. runs'[r] = [runs[r] EXCEPT !.archived = TRUE] /\ runs[r] \in RunRow
            BY <1>1, <2>1 DEF ResultsInv, ResultTypes, HasRun
        <3>2. /\ runs'[r] = [tenant |-> runs[r].tenant, by |-> runs[r].by, archived |-> TRUE]
              /\ runs[r].tenant \in Tenants /\ runs[r].by \in 1..Len(uploads)
            BY <3>1 DEF RunRow
        <3>3. runs'[r] # NoRun
            <4>1. runs[r].by \in Nat
                BY <3>2
            <4>2. \A u \in Tenants, k \in Nat, b \in BOOLEAN :
                     [tenant |-> u, by |-> k, archived |-> b] # NoRun
                BY RowsAreNew
            <4> QED
                BY <3>2, <4>1, <4>2
        <3>4. runs'[r] \in RunRow
            <4>1. \A u \in Tenants, k \in 1..Len(uploads), b \in BOOLEAN :
                     [tenant |-> u, by |-> k, archived |-> b] \in RunRow
                BY DEF RunRow
            <4> QED
                BY <3>2, <4>1
        <3>5. HasRun(r) /\ HasRun(r)'
            BY <2>1, <3>3 DEF HasRun
        <3>6. runs'[r].by = runs[r].by /\ runs'[r].tenant = runs[r].tenant
            BY <3>2
        <3> QED
            BY <3>4, <3>5, <3>6
    <2>2. CASE ~Mark(r)
        BY <1>1, <2>2 DEF ResultsInv, ResultTypes, HasRun
    <2> QED
        BY <2>1, <2>2
<1> HIDE DEF Mark
<1>3. ResultTypes'
    <2>1. runs' \in [Runs -> RunRow \cup {NoRun}]
        BY <1>1, <1>2
    <2> QED
        BY <1>1, <2>1 DEF ResultsInv, ResultTypes, RunRow
<1>4. ASSUME NEW d \in Uploaders PROVE OpenTx(d)'
    <2>1. OpenTx(d) /\ tx[d].rows \subseteq Runs
        BY DEF ResultsInv, ResultTypes
    <2>2. \A r \in tx[d].rows : ~HasRun(r)'
        BY <1>2, <2>1 DEF OpenTx
    <2> QED
        BY <1>1, <2>1, <2>2 DEF OpenTx, NoTx, Artifacts, Request, Imported, Listed
<1>5. Imported' = Imported /\ Complete'
    BY <1>1 DEF Imported, Complete, Listed, ResultsInv
<1>6. ASSUME NEW r \in Runs
      PROVE  /\ artifacts[r] = IF HasRun(r)' THEN Artifacts(r, runs'[r].by) ELSE {}
             /\ HasRun(r)' => r \in Imported /\ uploads[runs'[r].by].tenant = runs'[r].tenant
    BY <1>2 DEF ResultsInv, RunsStored
<1>7. RunsStored'
    BY <1>1, <1>5, <1>6 DEF RunsStored, Artifacts
<1> QED
    BY <1>3, <1>4, <1>5, <1>7 DEF ResultsInv

LEMMA UnchangedKeeps == ResultsInv /\ UNCHANGED resultVars => ResultsInv'
<1> SUFFICES ASSUME ResultsInv, UNCHANGED resultVars PROVE ResultsInv'
    OBVIOUS
<1>1. /\ runs' = runs /\ artifacts' = artifacts /\ uploads' = uploads /\ tx' = tx
      /\ imported' = imported
    BY DEF resultVars
<1>2. ResultTypes'
    BY <1>1 DEF ResultsInv, ResultTypes, RunRow
<1>3. ASSUME NEW d \in Uploaders PROVE OpenTx(d)'
    <2>1. \A e \in Uploaders \ {d} : tx[d].rows \cap tx'[e].rows = {}
        BY <1>1 DEF ResultsInv, OpenTx
    <2> QED
        BY <1>1, <2>1, OthersKeep
<1> QED
    BY <1>1, <1>2, <1>3, StoredKeep DEF ResultsInv

LEMMA ResultsStep == ResultsInv /\ [ServerNext]_<<vars, resultVars, benching>> => ResultsInv'
<1> SUFFICES ASSUME ResultsInv, ResultsNext PROVE ResultsInv'
    BY UnchangedKeeps DEF ServerNext
<1>1. ASSUME NEW c \in Uploaders, NEW t \in Tenants, NEW single \in BOOLEAN,
             NEW body \in Uploads, NEW types \in SUBSET Types,
             Upload(c, t, single, body, types)
      PROVE  ResultsInv'
    BY <1>1, UploadKeeps
<1>2. ASSUME NEW c \in Uploaders, InsertRun(c) PROVE ResultsInv'
    BY <1>2, InsertKeeps
<1>3. ASSUME NEW c \in Uploaders, Rollback(c) PROVE ResultsInv'
    BY <1>3, RollbackKeeps DEF Rollback
<1>4. ASSUME NEW c \in Uploaders, Commit(c) PROVE ResultsInv'
    BY <1>4, CommitKeeps
<1>5. ASSUME NEW t \in Tenants, NEW r \in Runs, DeleteRun(t, r) PROVE ResultsInv'
    BY <1>5, DeleteKeeps
<1>6. ASSUME NEW t \in Tenants, NEW ids \in SUBSET Runs, ArchiveRuns(t, ids) PROVE ResultsInv'
    BY <1>6, ArchiveKeeps
<1> QED
    BY <1>1, <1>2, <1>3, <1>4, <1>5, <1>6 DEF ResultsNext

\* RunsWhole: what a tenant reads of the benchmark results is whole and its own,
\* and no batch that was answered is missing a run (internal/benchsvc, the
\* transactions of IngestRun and IngestRunBatch and the statements beside them).
THEOREM ResultsAreWhole == ServerSpec => []RunsWhole
<1>1. ServerInit => ResultsInv
    BY InitResults DEF ServerInit
<1>2. ResultsInv => RunsWhole
    <2> SUFFICES ASSUME ResultsInv PROVE RunsWhole
        OBVIOUS
    <2>1. \A r \in Runs : artifacts[r] = IF HasRun(r) THEN Artifacts(r, runs[r].by) ELSE {}
        BY DEF ResultsInv, RunsStored
    <2>2. ASSUME NEW t \in Tenants, NEW r \in Runs, NEW a \in GetArtifact(t, r)
          PROVE  uploads[a.by].tenant = t
        <3>1. HasRun(r) /\ runs[r].tenant = t /\ a \in Artifacts(r, runs[r].by)
            BY <2>1 DEF GetArtifact
        <3>2. a.by = runs[r].by
            BY <3>1 DEF Artifacts
        <3> QED
            BY <3>1, <3>2 DEF ResultsInv, RunsStored
    <2>3. ASSUME NEW i \in imported, NEW k \in 1..Len(uploads[i.req].runs)
          PROVE  \E j \in imported : uploads[i.req].runs[k] \in j.rows
        BY DEF ResultsInv, Complete, Listed, Imported
    <2> QED
        BY <2>1, <2>2, <2>3 DEF RunsWhole
<1> QED
    BY <1>1, <1>2, ResultsStep, PTL DEF ServerSpec

-----------------------------------------------------------------------------
(* Evidence                                                                 *)

EntryType ==
    [id: Ids, tenant: Keys, type: {"raw", "prescribe", "report"}, op: Nat, idem: Nat,
     call: [client: Clients, n: Nat]]
IsJob(r) ==
    r \in [pc: Steps, key: Keys, ip: {r.ip}, at: {r.at}, todo: Seq(Ids), sent: SUBSET Ids,
           accepted: SUBSET Ids, hook: {"none", "prescribe", "report"}, op: Nat, idem: Nat,
           began: Nat, total: {r.total}, before: {r.before}, all: {r.all}]
Jobs == {job[c] : c \in Clients}
ApiTypes ==
    /\ keys \in [Keys -> [status: {"none", "active", "revoked"}, after: [Clients -> Nat]]]
    /\ keys[0].status = "none" /\ known \subseteq Keys
    /\ entries \in Seq(EntryType) /\ faults \in Nat /\ calls \in [Clients -> Nat]
    /\ job \in [Clients -> Jobs]

Revoked(k) == keys[k].status = "revoked"

\* What a request has read of the tables still holds of them.
JobOK(c) ==
    /\ IsJob(job[c])
    /\ job[c].pc = "ingest" => job[c].hook # "none" /\ job[c].began \in 0..Len(entries)
    /\ job[c].pc = "save" =>
          /\ job[c].accepted \subseteq Stored(job[c].key)
          /\ faults = 0 => job[c].sent \subseteq StoredByAny \cup ToSet(job[c].todo)
    /\ job[c].pc \in {"save", "ingest"} /\ Revoked(job[c].key) =>
          calls[c] <= keys[job[c].key].after[c]
EntryOK(e) ==
    /\ e.call.n <= calls[e.call.client]
    /\ Revoked(e.tenant) => e.call.n <= keys[e.tenant].after[e.call.client]

ApiInv ==
    /\ ApiTypes /\ WebhooksOnce /\ BatchesAccounted
    /\ \A c \in Clients : JobOK(c)
    /\ \A k \in 1..Len(entries) : EntryOK(entries[k])

LEMMA IdleIsJob == IsJob(Idle) /\ Idle.pc = "idle" /\ Idle.key \in Keys
<1>1. Idle.pc = "idle" /\ 0 \in Keys
    BY ApiAssumption DEF Idle, Keys, ApiAssumption
<1> QED
    BY <1>1 DEF Idle, IsJob, Steps

LEMMA IdleIsOK ==
    ASSUME NEW c \in Clients
    PROVE  (job[c] = Idle => JobOK(c)) /\ (job'[c] = Idle => JobOK(c)')
BY IdleIsJob DEF JobOK

LEMMA SetJob ==
    ASSUME job \in [Clients -> Jobs], NEW c \in Clients, NEW r, job' = [job EXCEPT ![c] = r]
    PROVE  /\ job' \in [Clients -> Jobs']
           /\ job'[c] = r /\ \A d \in Clients \ {c} : job'[d] = job[d]
BY DEF Jobs

LEMMA InitApi == Init => ApiInv
<1> SUFFICES ASSUME Init PROVE ApiInv
    OBVIOUS
<1>1. ApiTypes
    BY ApiAssumption DEF Init, ApiTypes, NoKey, Keys, Jobs, ApiAssumption
<1>2. WebhooksOnce /\ BatchesAccounted /\ \A k \in 1..Len(entries) : EntryOK(entries[k])
    BY DEF Init, WebhooksOnce, BatchesAccounted
<1>3. ASSUME NEW c \in Clients PROVE JobOK(c)
    BY IdleIsOK DEF Init
<1> QED
    BY <1>1, <1>2, <1>3 DEF ApiInv

\* How one step may change what the requests of others rest on.
Later ==
    /\ \A k \in Keys : Revoked(k)' => keys'[k] = keys[k] \/ keys'[k].after = calls
    /\ \A c \in Clients : calls'[c] >= calls[c]
    /\ \A t \in Keys : Stored(t) \subseteq Stored(t)'
    /\ StoredByAny \subseteq StoredByAny'
    /\ Len(entries') >= Len(entries) /\ faults' >= faults /\ faults' \in Nat

LEMMA JobKeeps ==
    ASSUME ApiInv, Later, NEW d \in Clients, job'[d] = job[d], calls'[d] = calls[d]
    PROVE  JobOK(d)'
<1>1. JobOK(d) /\ IsJob(job[d]) /\ job[d].key \in Keys
    BY DEF ApiInv, JobOK, IsJob
<1>2. IsJob(job'[d])
    BY <1>1
<1>3. /\ Stored(job[d].key) \subseteq Stored(job[d].key)' /\ StoredByAny \subseteq StoredByAny'
      /\ faults' = 0 => faults = 0
    BY <1>1 DEF Later, ApiInv, ApiTypes
<1>4. /\ Len(entries) \in Nat /\ Len(entries') >= Len(entries)
    BY DEF ApiInv, ApiTypes, Later
<1>5. Revoked(job[d].key)' =>
          \/ Revoked(job[d].key) /\ keys'[job[d].key] = keys[job[d].key]
          \/ keys'[job[d].key].after[d] = calls[d]
    BY <1>1 DEF Later, Revoked
<1>6. calls[d] \in Nat
    BY DEF ApiInv, ApiTypes
<1>7. job[d].pc = "ingest" => job[d].began \in 0..Len(entries')
    BY <1>1, <1>4 DEF JobOK, IsJob
<1> QED
    BY <1>1, <1>2, <1>3, <1>5, <1>6, <1>7 DEF JobOK

LEMMA EntryKeeps ==
    ASSUME ApiInv, Later, ApiTypes', NEW e \in EntryType, EntryOK(e)
    PROVE  EntryOK(e)'
<1>1. /\ e.tenant \in Keys /\ e.call.client \in Clients /\ e.call.n \in Nat
    BY DEF EntryType
<1>2. Revoked(e.tenant)' =>
          \/ Revoked(e.tenant) /\ keys'[e.tenant] = keys[e.tenant]
          \/ keys'[e.tenant].after = calls
    BY <1>1 DEF Later, Revoked
<1>3. e.call.n <= calls'[e.call.client]
    BY <1>1 DEF Later, EntryOK, ApiInv, ApiTypes
<1> QED
    BY <1>1, <1>2, <1>3 DEF EntryOK

\* Steps that neither store, claim nor answer.
LEMMA QuietKeeps ==
    ASSUME ApiInv, ApiTypes', Later, entries' = entries, claims' = claims,
           answers' = answers \/ BatchesAccounted', \A c \in Clients : JobOK(c)'
    PROVE  ApiInv'
<1>1. WebhooksOnce' /\ BatchesAccounted'
    BY DEF ApiInv, WebhooksOnce, BatchesAccounted, Stored, StoredByAny
<1>2. \A k \in 1..Len(entries) : entries[k] \in EntryType
    BY DEF ApiInv, ApiTypes
<1>3. \A k \in 1..Len(entries) : EntryOK(entries[k])'
    BY <1>2, EntryKeeps DEF ApiInv
<1> QED
    BY <1>1, <1>3 DEF ApiInv

\* A request begins or goes on, and stores nothing.
LEMMA GoesOn ==
    ASSUME ApiInv, NEW c \in Clients, NEW r, job' = [job EXCEPT ![c] = r], JobOK(c)',
           calls' = calls \/ calls' = [calls EXCEPT ![c] = @ + 1],
           UNCHANGED <<keys, known, entries, claims, answers>>,
           faults' = faults \/ Fault
    PROVE  ApiInv'
<1>1. ApiTypes
    BY DEF ApiInv
<1>2. faults' \in Nat /\ faults' >= faults
    BY <1>1 DEF ApiTypes, Fault
<1>3. calls' \in [Clients -> Nat] /\ \A d \in Clients : calls'[d] >= calls[d]
    <2>1. calls \in [Clients -> Nat]
        BY <1>1 DEF ApiTypes
    <2>2. CASE calls' = calls
        BY <2>1, <2>2
    <2>3. CASE calls' = [calls EXCEPT ![c] = @ + 1]
        BY <2>1, <2>3
    <2> QED
        BY <2>2, <2>3
<1>4. job' \in [Clients -> Jobs'] /\ \A d \in Clients \ {c} : job'[d] = job[d]
    <2>1. job \in [Clients -> Jobs]
        BY <1>1 DEF ApiTypes
    <2> QED
        BY <2>1, SetJob
<1>5. ApiTypes'
    BY <1>1, <1>2, <1>3, <1>4 DEF ApiTypes
<1>6. Later
    BY <1>1, <1>2, <1>3 DEF Later, Stored, StoredByAny, ApiTypes
<1>7. ASSUME NEW d \in Clients, d # c PROVE JobOK(d)'
    <2>1. job'[d] = job[d] /\ calls'[d] = calls[d]
        BY <1>1, <1>4, <1>7 DEF ApiTypes
    <2> QED
        BY <1>6, <2>1, JobKeeps
<1> QED
    BY <1>5, <1>6, <1>7, QuietKeeps

\* A request ends, or another kind of request begins.
LEMMA NothingHeld ==
    ASSUME ApiInv, NEW c \in Clients, NEW r, IsJob(r), job' = [job EXCEPT ![c] = r],
           r.pc \notin {"save", "ingest"},
           calls' = calls \/ calls' = [calls EXCEPT ![c] = @ + 1],
           UNCHANGED <<keys, known, entries, claims, answers>>,
           faults' = faults \/ Fault
    PROVE  ApiInv'
<1>1. job'[c] = r
    BY SetJob DEF ApiInv, ApiTypes
<1>2. JobOK(c)'
    BY <1>1 DEF JobOK
<1> QED
    BY <1>2, GoesOn

LEMMA EndsQuietly ==
    ASSUME ApiInv, NEW c \in Clients, job' = [job EXCEPT ![c] = Idle],
           calls' = calls \/ calls' = [calls EXCEPT ![c] = @ + 1],
           UNCHANGED <<keys, known, entries, claims, answers>>,
           faults' = faults \/ Fault
    PROVE  ApiInv'
<1>1. job'[c] = Idle
    BY SetJob DEF ApiInv, ApiTypes
<1>2. JobOK(c)'
    BY <1>1, IdleIsOK
<1> QED
    BY <1>2, GoesOn

LEMMA KeyRequests ==
    ASSUME ApiInv, NEW c \in Clients, NEW ip \in Ips, RequestKey(c, ip) PROVE ApiInv'
<1>1. CASE Len(Recent(ip)) >= KeysPerIP
    BY <1>1, EndsQuietly DEF RequestKey, Begin, Work, apiHistory
<1>2. CASE ~(Len(Recent(ip)) >= KeysPerIP)
    <2> DEFINE r == [Idle EXCEPT !.pc = "create", !.ip = ip, !.at = now]
    <2>1. /\ job' = [job EXCEPT ![c] = r] /\ calls' = [calls EXCEPT ![c] = @ + 1]
          /\ UNCHANGED <<keys, known, entries, claims, answers, faults>>
        BY <1>2 DEF RequestKey, Begin, Work, apiHistory
    <2>2. IsJob(r) /\ r.pc = "create"
        BY IdleIsJob DEF IsJob, Steps
    <2> HIDE DEF r
    <2> QED
        BY <2>1, <2>2, NothingHeld
<1> QED
    BY <1>1, <1>2

LEMMA UnauthorizedKeeps == ASSUME ApiInv, NEW c \in Clients, Unauthorized(c) PROVE ApiInv'
BY EndsQuietly DEF Unauthorized, Begin, Work, apiHistory

LEMMA RefuseKeeps == ASSUME ApiInv, NEW c \in Clients, RefuseKey(c) PROVE ApiInv'
BY EndsQuietly DEF RefuseKey, Work, apiHistory

\* A key that did not exist becomes active; it cannot be one that was revoked.
LEMMA CreateKeeps == ASSUME ApiInv, NEW c \in Clients, CreateKey(c) PROVE ApiInv'
<1>1. PICK k \in Keys \ {0} :
          /\ keys' = [keys EXCEPT ![k].status = "active"]
          /\ \/ known' = known \cup {k} /\ UNCHANGED faults
             \/ Fault /\ UNCHANGED known
    BY DEF CreateKey
<1>2. /\ job' = [job EXCEPT ![c] = Idle] /\ calls' = calls /\ entries' = entries
      /\ claims' = claims /\ answers' = answers
    BY DEF CreateKey, Work
<1>3. /\ job' \in [Clients -> Jobs'] /\ job'[c] = Idle
      /\ \A d \in Clients \ {c} : job'[d] = job[d]
    <2>1. job \in [Clients -> Jobs]
        BY DEF ApiInv, ApiTypes
    <2> QED
        BY <1>2, <2>1, SetJob
<1>4. faults' >= faults /\ faults' \in Nat
    <2>1. faults \in Nat
        BY DEF ApiInv, ApiTypes
    <2> QED
        BY <1>1, <2>1 DEF Fault
<1>5. /\ keys' \in [Keys -> [status: {"none", "active", "revoked"}, after: [Clients -> Nat]]]
      /\ keys'[0].status = "none"
      /\ \A q \in Keys : Revoked(q)' => keys'[q] = keys[q]
    <2>1. /\ keys \in [Keys -> [status: {"none", "active", "revoked"}, after: [Clients -> Nat]]]
          /\ keys[0].status = "none" /\ 0 \in Keys
        BY ApiAssumption DEF ApiInv, ApiTypes, Keys, ApiAssumption
    <2>2. keys' = [keys EXCEPT ![k] = [status |-> "active", after |-> keys[k].after]]
        <3>1. keys[k] \in [status: {"none", "active", "revoked"}, after: [Clients -> Nat]]
            BY <2>1
        <3>2. [keys[k] EXCEPT !.status = "active"] = [status |-> "active", after |-> keys[k].after]
            BY <3>1
        <3> QED
            BY <1>1, <3>2
    <2> QED
        BY <2>1, <2>2 DEF Revoked
<1>6. ApiTypes'
    <2>1. known \subseteq Keys /\ entries \in Seq(EntryType) /\ calls \in [Clients -> Nat]
        BY DEF ApiInv, ApiTypes
    <2> QED
        BY <1>1, <1>2, <1>3, <1>4, <1>5, <2>1 DEF ApiTypes
<1>7. Later
    <2>1. Len(entries) \in Nat /\ calls \in [Clients -> Nat]
        BY DEF ApiInv, ApiTypes
    <2> QED
        BY <1>2, <1>4, <1>5, <2>1 DEF Later, Stored, StoredByAny
<1>8. ASSUME NEW d \in Clients PROVE JobOK(d)'
    BY <1>2, <1>3, <1>7, IdleIsOK, JobKeeps
<1> QED
    BY <1>2, <1>6, <1>7, <1>8, QuietKeeps

\* Requests that were let in before go on.
LEMMA RevokeKeeps == ASSUME ApiInv, NEW k \in Keys, RevokeKey(k) PROVE ApiInv'
<1>1. /\ keys' = [keys EXCEPT ![k] = [status |-> "revoked", after |-> calls]]
      /\ keys[k].status = "active" /\ job' = job /\ calls' = calls /\ entries' = entries
      /\ claims' = claims /\ answers' = answers /\ faults' = faults /\ known' = known
    BY DEF RevokeKey, apiHistory
<1>2. ApiTypes'
    <2>1. /\ keys \in [Keys -> [status: {"none", "active", "revoked"}, after: [Clients -> Nat]]]
          /\ keys[0].status = "none" /\ calls \in [Clients -> Nat]
        BY DEF ApiInv, ApiTypes
    <2>2. /\ keys' \in [Keys -> [status: {"none", "active", "revoked"}, after: [Clients -> Nat]]]
          /\ keys'[0].status = "none"
        BY <1>1, <2>1
    <2>3. /\ known \subseteq Keys /\ entries \in Seq(EntryType) /\ faults \in Nat
          /\ job \in [Clients -> Jobs] /\ Jobs' = Jobs
        BY <1>1 DEF ApiInv, ApiTypes, Jobs
    <2> QED
        BY <1>1, <2>1, <2>2, <2>3 DEF ApiTypes
<1>3. Later
    BY <1>1 DEF Later, Stored, StoredByAny, ApiInv, ApiTypes
<1>4. \A d \in Clients : JobOK(d)'
    BY <1>1, <1>3, JobKeeps
<1> QED
    BY <1>1, <1>2, <1>3, <1>4, QuietKeeps

\* A valid key is not revoked.
LEMMA SendKeeps ==
    ASSUME ApiInv, NEW c \in Clients, NEW k \in known, NEW body \in Bodies, Send(c, k, body)
    PROVE  ApiInv'
<1> DEFINE ids == [i \in 1..Len(body) |-> EntryId(body[i])]
           r == [Idle EXCEPT !.pc = "save", !.key = k, !.todo = ids, !.sent = ToSet(ids)]
<1>1. /\ k \in Keys /\ keys[0].status = "none" /\ job \in [Clients -> Jobs]
      /\ body \in Seq(Nat)
    BY ApiAssumption DEF ApiInv, ApiTypes, ApiAssumption
<1>2. /\ job' = [job EXCEPT ![c] = r] /\ calls' = [calls EXCEPT ![c] = @ + 1]
      /\ UNCHANGED <<keys, known, entries, claims, answers, faults>>
      /\ Authenticated(k)
    BY DEF Send, Begin, Work, apiHistory
<1>3. ~Revoked(k)
    BY <1>1, <1>2 DEF Authenticated, LookupKey, Revoked
<1>4. ids \in Seq(Ids) /\ ToSet(ids) \subseteq Ids
    <2>1. \A i \in 1..Len(body) : EntryId(body[i]) \in Ids
        BY <1>1 DEF EntryId, Ids
    <2>2. Len(body) \in Nat /\ ids \in [1..Len(body) -> Ids]
        BY <1>1, <2>1
    <2>3. ids \in Seq(Ids) /\ DOMAIN ids = 1..Len(body)
        BY <2>2
    <2> QED
        BY <2>1, <2>3 DEF ToSet
<1> HIDE DEF ids
<1>5. /\ IsJob(r) /\ r.pc = "save" /\ r.key = k /\ r.accepted = {} /\ r.todo = ids
      /\ r.sent = ToSet(ids)
    BY <1>1, <1>4, IdleIsJob DEF IsJob, Idle, Steps
<1> HIDE DEF r
<1>6. job'[c] = r
    BY <1>1, <1>2, SetJob
<1>7. JobOK(c)'
    BY <1>2, <1>3, <1>4, <1>5, <1>6 DEF JobOK, Revoked
<1> QED
    BY <1>2, <1>7, GoesOn

LEMMA WebhookKeeps ==
    ASSUME ApiInv, NEW c \in Clients, NEW k \in known, NEW hook \in {"prescribe", "report"},
           NEW o \in Operations, NEW i \in Idems \cup {0}, Webhook(c, k, hook, o, i)
    PROVE  ApiInv'
<1> DEFINE r == [Idle EXCEPT !.pc = "ingest", !.key = k, !.hook = hook, !.op = o,
                             !.idem = i, !.began = Len(entries)]
<1>1. /\ k \in Keys /\ job \in [Clients -> Jobs] /\ Len(entries) \in Nat
      /\ o \in Nat /\ i \in Nat
    BY ApiAssumption DEF ApiInv, ApiTypes, ApiAssumption
<1>2. /\ job' = [job EXCEPT ![c] = r] /\ calls' = [calls EXCEPT ![c] = @ + 1]
      /\ UNCHANGED <<keys, known, entries, claims, answers, faults>>
      /\ ~Revoked(k)
    BY DEF Webhook, WebhookTenant, LookupKey, Begin, Work, apiHistory, Revoked
<1>3. /\ IsJob(r) /\ r.pc = "ingest" /\ r.key = k /\ r.hook # "none"
      /\ r.began \in 0..Len(entries)
    <2>1. IsJob(r)
        BY <1>1, IdleIsJob DEF IsJob, Idle, Steps
    <2>2. /\ r.pc = "ingest" /\ r.key = k /\ r.hook = hook /\ r.began = Len(entries)
        BY DEF Idle
    <2>3. hook # "none" /\ Len(entries) \in 0..Len(entries)
        BY <1>1
    <2> HIDE DEF r
    <2> QED
        BY <2>1, <2>2, <2>3
<1> HIDE DEF r
<1>4. job'[c] = r
    BY <1>1, <1>2, SetJob
<1>5. JobOK(c)'
    BY <1>2, <1>3, <1>4 DEF JobOK, Revoked
<1> QED
    BY <1>2, <1>5, GoesOn

\* Replays only read.
LEMMA ReplayKeeps ==
    ASSUME ApiInv, NEW c \in Clients,
           (\E k \in known : Replay(c, k)) \/ Count(c) \/ Page(c)
    PROVE  ApiInv'
<1>1. IsJob(job[c]) /\ known \subseteq Keys
    BY DEF ApiInv, JobOK, ApiTypes
<1>2. ASSUME NEW k \in known, Replay(c, k) PROVE ApiInv'
    <2> DEFINE r == [Idle EXCEPT !.pc = "count", !.key = k, !.before = Newest(k)]
    <2>1. IsJob(r) /\ r.pc = "count"
        BY <1>1, IdleIsJob DEF IsJob, Idle, Steps
    <2>2. /\ job' = [job EXCEPT ![c] = r] /\ calls' = [calls EXCEPT ![c] = @ + 1]
          /\ UNCHANGED <<keys, known, entries, claims, answers, faults>>
        BY <1>2 DEF Replay, Begin, Work, apiHistory
    <2> HIDE DEF r
    <2> QED
        BY <2>1, <2>2, NothingHeld
<1>3. CASE Count(c)
    <2> DEFINE r == [job[c] EXCEPT !.pc = "page", !.total = Len(Newest(job[c].key))]
    <2>1. IsJob(r) /\ r.pc = "page"
        BY <1>1 DEF IsJob, Steps
    <2>2. /\ job' = [job EXCEPT ![c] = r]
          /\ UNCHANGED <<keys, known, entries, claims, answers, faults, calls>>
        BY <1>3 DEF Count, Work, apiHistory
    <2> HIDE DEF r
    <2> QED
        BY <2>1, <2>2, NothingHeld
<1>4. CASE Page(c)
    <2>1. PICK all : \/ job' = [job EXCEPT ![c] = Idle]
                     \/ job' = [job EXCEPT ![c] = [job[c] EXCEPT !.pc = "count", !.all = all]]
        BY <1>4 DEF Page, Work
    <2>2. UNCHANGED <<keys, known, entries, claims, answers, faults, calls>>
        BY <1>4 DEF Page
    <2> DEFINE r == [job[c] EXCEPT !.pc = "count", !.all = all]
    <2>3. IsJob(r) /\ r.pc = "count"
        BY <1>1 DEF IsJob, Steps
    <2> HIDE DEF r
    <2> QED
        BY <2>1, <2>2, <2>3, NothingHeld, EndsQuietly DEF r
<1> QED
    BY <1>2, <1>3, <1>4

LEMMA AnswerKeeps == ASSUME ApiInv, NEW c \in Clients, AnswerBatch(c) PROVE ApiInv'
<1> DEFINE a == [tenant |-> job[c].key, sent |-> job[c].sent,
                 accepted |-> job[c].accepted, clean |-> faults = 0]
<1>1. /\ job[c].pc = "save" /\ job[c].todo = <<>> /\ job' = [job EXCEPT ![c] = Idle]
      /\ answers' = answers \cup {a}
      /\ UNCHANGED <<keys, known, entries, claims, calls, faults>>
    BY DEF AnswerBatch, Work
<1>2. job \in [Clients -> Jobs] /\ calls \in [Clients -> Nat] /\ Len(entries) \in Nat /\ faults \in Nat
    BY DEF ApiInv, ApiTypes
<1>3. /\ job' \in [Clients -> Jobs'] /\ job'[c] = Idle
      /\ \A d \in Clients \ {c} : job'[d] = job[d]
    BY <1>1, <1>2, SetJob
<1>4. Later
    BY <1>1, <1>2 DEF Later, Stored, StoredByAny
<1>5. ApiTypes'
    BY <1>1, <1>3 DEF ApiInv, ApiTypes
<1>6. ASSUME NEW d \in Clients PROVE JobOK(d)'
    BY <1>1, <1>3, <1>4, IdleIsOK, JobKeeps
<1>7. JobOK(c) /\ ToSet(job[c].todo) = {}
    BY <1>1 DEF ApiInv, ToSet
<1>8. job[c].accepted \subseteq Stored(job[c].key)
    BY <1>1, <1>7 DEF JobOK
<1>9. faults = 0 => job[c].sent \subseteq StoredByAny
    BY <1>1, <1>7 DEF JobOK
<1>10. /\ a.accepted \subseteq Stored(a.tenant)
       /\ a.clean => a.sent \subseteq StoredByAny
    BY <1>8, <1>9
<1>11. BatchesAccounted'
    <2>1. StoredByAny' = StoredByAny /\ \A t : Stored(t)' = Stored(t)
        BY <1>1 DEF Stored, StoredByAny
    <2> HIDE DEF a
    <2> QED
        BY <1>1, <1>10, <2>1 DEF BatchesAccounted, ApiInv
<1> QED
    BY <1>1, <1>4, <1>5, <1>6, <1>11, QuietKeeps

\* The requests end; what they stored remains.
LEMMA RestartKeeps == ASSUME ApiInv, Restart PROVE ApiInv'
<1>1. /\ job' = [c \in Clients |-> Idle] /\ faults' = faults + 1
      /\ UNCHANGED <<keys, known, entries, claims, answers, calls>>
    BY DEF Restart, Fault
<1>2. calls \in [Clients -> Nat] /\ Len(entries) \in Nat /\ faults \in Nat
    BY DEF ApiInv, ApiTypes
<1>3. job' \in [Clients -> Jobs']
    BY <1>1 DEF Jobs
<1>4. ApiTypes'
    BY <1>1, <1>2, <1>3 DEF ApiInv, ApiTypes
<1>5. Later
    BY <1>1, <1>2 DEF Later, Stored, StoredByAny
<1>6. ASSUME NEW d \in Clients PROVE JobOK(d)'
    BY <1>1, IdleIsOK
<1> QED
    BY <1>1, <1>4, <1>5, <1>6, QuietKeeps

LEMMA TickKeeps ==
    ASSUME ApiInv, UNCHANGED <<keys, known, entries, claims, answers, calls, job, faults>>
    PROVE  ApiInv'
<1>1. calls \in [Clients -> Nat] /\ Len(entries) \in Nat /\ faults \in Nat
    BY DEF ApiInv, ApiTypes
<1>2. ApiTypes'
    BY DEF ApiInv, ApiTypes, Jobs
<1>3. Later
    BY <1>1 DEF Later, Stored, StoredByAny
<1>4. ASSUME NEW d \in Clients PROVE JobOK(d)'
    BY <1>3, JobKeeps
<1> QED
    BY <1>2, <1>3, <1>4, QuietKeeps

-----------------------------------------------------------------------------
\* The table of entries with one row more, the p-th by created_at.
Added(row, p) ==
    /\ p \in 1..Len(entries)+1 /\ entries' \in Seq(EntryType)
    /\ Len(entries') = Len(entries) + 1 /\ entries'[p] = row
    /\ \A k \in 1..Len(entries) : k < p => entries'[k] = entries[k]
    /\ \A k \in 1..Len(entries) : k >= p => entries'[k + 1] = entries[k]

LEMMA AppendAdds ==
    ASSUME ApiInv, NEW row \in EntryType, entries' = Append(entries, row)
    PROVE  Added(row, Len(entries) + 1)
<1>1. entries \in Seq(EntryType) /\ Len(entries) \in Nat
    BY DEF ApiInv, ApiTypes
<1> QED
    BY <1>1 DEF Added

LEMMA Concatenated ==
    ASSUME NEW S, NEW q \in Seq(S), NEW s \in Seq(S)
    PROVE  /\ q \o s \in Seq(S) /\ Len(q \o s) = Len(q) + Len(s)
           /\ \A k \in 1..Len(q) : (q \o s)[k] = q[k]
           /\ \A k \in Len(q)+1..Len(q)+Len(s) : (q \o s)[k] = s[k - Len(q)]
OBVIOUS

LEMMA InsertAdds ==
    ASSUME ApiInv, NEW row \in EntryType, NEW p \in 1..Len(entries)+1,
           entries' = InsertAt(entries, p, row)
    PROVE  Added(row, p)
<1> DEFINE n == Len(entries)
           front == SubSeq(entries, 1, p-1)
           back == SubSeq(entries, p, n)
<1>1. entries \in Seq(EntryType) /\ n \in Nat /\ p \in Nat /\ p >= 1 /\ p <= n + 1
    BY DEF ApiInv, ApiTypes
<1>2. /\ front \in Seq(EntryType) /\ Len(front) = p - 1
      /\ \A k \in 1..p-1 : front[k] = entries[k]
    BY <1>1
<1>3. /\ back \in Seq(EntryType) /\ Len(back) = n - p + 1
      /\ \A k \in 1..n-p+1 : back[k] = entries[p + k - 1]
    <2>1. CASE p = n + 1
        BY <1>1, <2>1
    <2>2. CASE p # n + 1
        BY <1>1, <2>2
    <2> QED
        BY <2>1, <2>2
<1>4. entries' = (front \o <<row>>) \o back
    BY DEF InsertAt
<1> HIDE DEF front, back
<1>5. /\ front \o <<row>> \in Seq(EntryType) /\ Len(front \o <<row>>) = p
      /\ (front \o <<row>>)[p] = row
      /\ \A k \in 1..p-1 : (front \o <<row>>)[k] = entries[k]
    BY <1>1, <1>2
<1>6. /\ entries' \in Seq(EntryType) /\ Len(entries') = n + 1 /\ entries'[p] = row
      /\ \A k \in 1..p-1 : entries'[k] = entries[k]
      /\ \A k \in p+1..n+1 : entries'[k] = back[k - p]
    <2> DEFINE f == front \o <<row>>
    <2>1. f \in Seq(EntryType) /\ Len(f) = p /\ entries' = f \o back
        BY <1>4, <1>5
    <2> HIDE DEF f
    <2>2. /\ entries' \in Seq(EntryType) /\ Len(entries') = n + 1
          /\ \A k \in 1..p : entries'[k] = f[k]
          /\ \A k \in p+1..n+1 : entries'[k] = back[k - p]
        <3>1. Len(f) + Len(back) = n + 1
            BY <1>1, <1>3, <2>1
        <3>2. /\ f \o back \in Seq(EntryType) /\ Len(f \o back) = Len(f) + Len(back)
              /\ \A k \in 1..Len(f) : (f \o back)[k] = f[k]
              /\ \A k \in Len(f)+1..Len(f)+Len(back) : (f \o back)[k] = back[k - Len(f)]
            <4>1. f \in Seq(EntryType) /\ back \in Seq(EntryType)
                BY <1>3, <2>1
            <4> HIDE DEF EntryType
            <4> QED
                BY <4>1, Concatenated
        <3> QED
            BY <2>1, <3>1, <3>2
    <2>3. p \in 1..p /\ 1..p-1 \subseteq 1..p
        BY <1>1
    <2> QED
        BY <1>5, <2>2, <2>3 DEF f
<1>7. ASSUME NEW k \in 1..n, k >= p PROVE entries'[k + 1] = entries[k]
    <2>1. k + 1 \in p+1..n+1 /\ (k + 1) - p \in 1..n-p+1 /\ p + ((k + 1) - p) - 1 = k
        BY <1>1, <1>7
    <2> QED
        BY <1>3, <1>6, <2>1
<1> QED
    BY <1>1, <1>6, <1>7 DEF Added

\* Where a row of the table was before, or it is the new one.
LEMMA RowsOfAdded ==
    ASSUME ApiInv, NEW row, NEW p, Added(row, p)
    PROVE  /\ \A k \in 1..Len(entries') : k # p =>
                 \E j \in 1..Len(entries) : entries'[k] = entries[j]
           /\ \A j \in 1..Len(entries) : \E k \in 1..Len(entries') : entries'[k] = entries[j]
           /\ \A j \in 1..Len(entries') \ {p}, k \in 1..Len(entries') \ {p} :
                 j # k => \E i, l \in 1..Len(entries) :
                             i # l /\ entries'[j] = entries[i] /\ entries'[k] = entries[l]
<1> DEFINE n == Len(entries)
           Old(k) == IF k < p THEN k ELSE k - 1
<1>1. n \in Nat /\ p \in 1..n+1 /\ Len(entries') = n + 1 /\ entries'[p] = row
    BY DEF ApiInv, ApiTypes, Added
<1>2. ASSUME NEW k \in 1..n+1, k # p PROVE Old(k) \in 1..n /\ entries'[k] = entries[Old(k)]
    <2>1. CASE k < p
        BY <1>1, <1>2, <2>1 DEF Added
    <2>2. CASE k > p
        <3>1. k - 1 \in 1..n /\ k - 1 >= p /\ (k - 1) + 1 = k
            BY <1>1, <1>2, <2>2
        <3>2. entries'[(k - 1) + 1] = entries[k - 1]
            BY <3>1 DEF Added
        <3> QED
            BY <1>1, <2>2, <3>1, <3>2
    <2> QED
        BY <1>1, <1>2, <2>1, <2>2
<1>3. ASSUME NEW j \in 1..n PROVE \E k \in 1..n+1 : entries'[k] = entries[j]
    <2>1. CASE j < p
        BY <1>1, <2>1 DEF Added
    <2>2. CASE j >= p
        <3>1. j + 1 \in 1..n+1 /\ entries'[j + 1] = entries[j]
            BY <1>1, <2>2 DEF Added
        <3> QED
            BY <3>1
    <2> QED
        BY <1>1, <2>1, <2>2
<1>4. ASSUME NEW j \in 1..n+1, NEW k \in 1..n+1, j # p, k # p, j # k PROVE Old(j) # Old(k)
    BY <1>1, <1>4
<1> HIDE DEF Old
<1>5. \A k \in 1..n+1 : k # p => \E j \in 1..n : entries'[k] = entries[j]
    BY <1>1, <1>2
<1>6. ASSUME NEW j \in 1..n+1 \ {p}, NEW k \in 1..n+1 \ {p}, j # k
      PROVE  \E i, l \in 1..n : i # l /\ entries'[j] = entries[i] /\ entries'[k] = entries[l]
    <2>1. /\ Old(j) \in 1..n /\ entries'[j] = entries[Old(j)]
          /\ Old(k) \in 1..n /\ entries'[k] = entries[Old(k)]
        BY <1>2
    <2>2. Old(j) # Old(k)
        BY <1>4, <1>6
    <2> QED
        BY <2>1, <2>2
<1> QED
    BY <1>1, <1>3, <1>5, <1>6

LEMMA StoredGrows ==
    ASSUME ApiInv, NEW row, NEW p, Added(row, p)
    PROVE  /\ StoredByAny \subseteq StoredByAny' /\ \A t : Stored(t) \subseteq Stored(t)'
           /\ row.id \in StoredByAny' /\ row.id \in Stored(row.tenant)'
<1>1. ASSUME NEW t, NEW k \in 1..Len(entries), entries[k].tenant = t
      PROVE  entries[k].id \in Stored(t)' /\ entries[k].id \in StoredByAny'
    <2>1. PICK j \in 1..Len(entries') : entries'[j] = entries[k]
        BY RowsOfAdded
    <2> QED
        BY <1>1, <2>1 DEF Stored, StoredByAny
<1>2. p \in 1..Len(entries') /\ entries'[p] = row
    BY DEF Added, ApiInv, ApiTypes
<1>3. row.id \in Stored(row.tenant)' /\ row.id \in StoredByAny'
    BY <1>2 DEF Stored, StoredByAny
<1>4. \A t : Stored(t) \subseteq Stored(t)'
    BY <1>1 DEF Stored
<1>5. \A k \in 1..Len(entries) : entries[k].id \in StoredByAny'
    BY <1>1
<1>6. StoredByAny \subseteq StoredByAny'
    BY <1>5 DEF StoredByAny
<1> QED
    BY <1>3, <1>4, <1>6

\* One row more, and its claim when it is of a webhook.
LEMMA StoreKeeps ==
    ASSUME ApiInv, NEW row \in EntryType, NEW p, Added(row, p), EntryOK(row),
           NEW c \in Clients, NEW r, job' = [job EXCEPT ![c] = r], JobOK(c)',
           claims' = claims \cup (IF row.type = "raw" THEN {} ELSE {ClaimOf(row)}),
           row.type # "raw" => ClaimOf(row) \notin claims,
           UNCHANGED <<keys, known, answers, calls>>, faults' = faults \/ Fault
    PROVE  ApiInv'
<1>1. /\ calls \in [Clients -> Nat] /\ Len(entries) \in Nat /\ faults \in Nat
      /\ job \in [Clients -> Jobs]
    BY DEF ApiInv, ApiTypes
<1>2. /\ Len(entries') = Len(entries) + 1 /\ entries' \in Seq(EntryType)
      /\ p \in 1..Len(entries') /\ entries'[p] = row
    BY <1>1 DEF Added
<1>3. faults' \in Nat /\ faults' >= faults
    BY <1>1 DEF Fault
<1>4. /\ job' \in [Clients -> Jobs'] /\ \A d \in Clients \ {c} : job'[d] = job[d]
    BY <1>1, SetJob
<1>5. ApiTypes'
    BY <1>2, <1>3, <1>4 DEF ApiInv, ApiTypes
<1>6. Later
    BY <1>1, <1>2, <1>3, StoredGrows DEF Later
<1>7. ASSUME NEW d \in Clients PROVE JobOK(d)'
    BY <1>4, <1>6, JobKeeps
<1>8. ASSUME NEW k \in 1..Len(entries') PROVE EntryOK(entries[k])'
    <2>1. PICK e \in EntryType : e = entries'[k]
        BY <1>2
    <2>2. e = row \/ \E j \in 1..Len(entries) : e = entries[j]
        <3>1. k # p => \E j \in 1..Len(entries) : entries'[k] = entries[j]
            BY RowsOfAdded
        <3> QED
            BY <1>2, <2>1, <3>1
    <2>3. EntryOK(e)
        BY <2>2 DEF ApiInv
    <2>4. EntryOK(e)'
        BY <1>5, <1>6, <2>3, EntryKeeps
    <2> QED
        BY <2>1, <2>4 DEF EntryOK
<1>9. BatchesAccounted'
    BY StoredGrows DEF ApiInv, BatchesAccounted
<1>10. WebhooksOnce'
    <2> DEFINE Hook(e) == e.type # "raw"
    <2>1. ASSUME NEW k \in 1..Len(entries'), k # p, Hook(entries'[k])
          PROVE  ClaimOf(entries'[k]) \in claims
        <3>1. PICK i \in 1..Len(entries) : entries'[k] = entries[i]
            BY <2>1, RowsOfAdded
        <3> QED
            BY <2>1, <3>1 DEF ApiInv, WebhooksOnce
    <2>2. ASSUME NEW k \in 1..Len(entries'), Hook(entries'[k])
          PROVE  ClaimOf(entries'[k]) \in claims'
        BY <1>2, <2>1, <2>2
    <2>3. ASSUME NEW k \in 1..Len(entries'), NEW j \in 1..Len(entries') \ {k},
                 Hook(entries'[k]), Hook(entries'[j])
          PROVE  ClaimOf(entries'[j]) # ClaimOf(entries'[k])
        <3>1. CASE k = p \/ j = p
            BY <1>2, <2>1, <2>3, <3>1
        <3>2. CASE k # p /\ j # p
            <4>1. PICK i \in 1..Len(entries), l \in 1..Len(entries) :
                      i # l /\ entries'[j] = entries[i] /\ entries'[k] = entries[l]
                BY <2>3, <3>2, RowsOfAdded
            <4> QED
                BY <2>3, <4>1 DEF ApiInv, WebhooksOnce
        <3> QED
            BY <3>1, <3>2
    <2>4. ASSUME NEW m \in claims'
          PROVE  \E k \in 1..Len(entries') : Hook(entries'[k]) /\ ClaimOf(entries'[k]) = m
        <3>1. CASE m \in claims
            <4>1. PICK j \in 1..Len(entries) : Hook(entries[j]) /\ ClaimOf(entries[j]) = m
                BY <3>1 DEF ApiInv, WebhooksOnce
            <4>2. PICK k \in 1..Len(entries') : entries'[k] = entries[j]
                BY RowsOfAdded
            <4> QED
                BY <4>1, <4>2
        <3>2. CASE m \notin claims
            BY <1>2, <2>4, <3>2
        <3> QED
            BY <3>1, <3>2
    <2> QED
        BY <2>2, <2>3, <2>4 DEF WebhooksOnce, ClaimOf
<1> QED
    BY <1>5, <1>7, <1>8, <1>9, <1>10 DEF ApiInv

\* An entry of a batch: stored, refused, or neither known.
LEMMA SaveKeeps == ASSUME ApiInv, NEW c \in Clients, SaveRaw(c) PROVE ApiInv'
<1> DEFINE id == Head(job[c].todo)
           rest == Tail(job[c].todo)
           New(ok) == [job[c] EXCEPT !.todo = Continue(rest, ok),
                                     !.accepted = IF ok THEN @ \cup {id} ELSE @]
           row == Row(c, "raw", id)
<1>1. /\ job[c].pc = "save" /\ job[c].todo # <<>> /\ JobOK(c) /\ IsJob(job[c])
      /\ UNCHANGED <<keys, known, claims, calls, answers>>
    BY DEF SaveRaw, ApiInv, JobOK, apiHistory
<1>2. /\ job \in [Clients -> Jobs] /\ faults \in Nat /\ calls \in [Clients -> Nat]
      /\ entries \in Seq(EntryType) /\ Len(entries) \in Nat
    BY DEF ApiInv, ApiTypes
<1>3. /\ job[c].todo \in Seq(Ids) /\ id \in Ids /\ rest \in Seq(Ids)
      /\ ToSet(job[c].todo) \subseteq {id} \cup ToSet(rest)
      /\ ToSet(rest) \subseteq ToSet(job[c].todo) /\ id \in ToSet(job[c].todo)
      /\ job[c].accepted \subseteq Ids /\ job[c].key \in Keys
    <2>1. job[c].todo \in Seq(Ids) /\ job[c].accepted \subseteq Ids /\ job[c].key \in Keys
        BY <1>1 DEF IsJob
    <2>2. id \in Ids /\ rest \in Seq(Ids) /\ id \in ToSet(job[c].todo)
        BY <1>1, <2>1 DEF ToSet
    <2>3. ToSet(rest) \subseteq ToSet(job[c].todo)
        BY <1>1, <2>1 DEF ToSet
    <2>4. ToSet(job[c].todo) \subseteq {id} \cup ToSet(rest)
        <3>1. \A q \in Seq(Ids) : ToSet(q) = Listed(q)
            BY DEF ToSet, Listed
        <3> QED
            BY <1>1, <2>1, <2>2, <3>1, HeadAndTail
    <2> QED
        BY <2>1, <2>2, <2>3, <2>4
<1>4. Conflict(id) <=> id \in StoredByAny
    BY DEF Conflict
<1>5. ASSUME NEW ok \in BOOLEAN
      PROVE  /\ IsJob(New(ok)) /\ New(ok).pc = "save" /\ New(ok).key = job[c].key
             /\ New(ok).todo = rest /\ New(ok).sent = job[c].sent
             /\ New(ok).accepted = IF ok THEN job[c].accepted \cup {id} ELSE job[c].accepted
    BY <1>1, <1>3 DEF IsJob, Continue
<1>6. row \in EntryType /\ row.type = "raw" /\ row.id = id /\ row.tenant = job[c].key
    BY <1>1, <1>2, <1>3 DEF Row, EntryType, IsJob
<1>7. EntryOK(row)
    <2>1. row.call.client = c /\ row.call.n = calls[c]
        BY DEF Row
    <2> HIDE DEF row
    <2> QED
        BY <1>1, <1>2, <1>6, <2>1 DEF EntryOK, JobOK
<1> HIDE DEF New, row, id, rest
<1>8. PICK k \in Keys, i \in Ids : k = job[c].key /\ i = id
    BY <1>3
<1>9. ASSUME NEW ok \in BOOLEAN, NEW r, r = New(ok), job' = [job EXCEPT ![c] = r],
             faults' = faults \/ Fault, Stored(k) \subseteq Stored(k)',
             StoredByAny \subseteq StoredByAny',
             ok => i \in Stored(k)', Fault \/ i \in StoredByAny'
      PROVE  JobOK(c)'
    <2>1. job'[c] = r
        BY <1>2, <1>9, SetJob
    <2>2. /\ IsJob(r) /\ r.pc = "save" /\ r.key = k /\ r.todo = rest /\ r.sent = job[c].sent
          /\ r.accepted = IF ok THEN job[c].accepted \cup {i} ELSE job[c].accepted
        BY <1>5, <1>8, <1>9
    <2>3. faults' = 0 => faults = 0 /\ ~Fault
        BY <1>2, <1>9 DEF Fault
    <2>4. Stored(k) \subseteq Stored(k)'
        BY <1>9
    <2>5. job[c].accepted \subseteq Stored(k)
        BY <1>1, <1>8 DEF JobOK
    <2>6. r.accepted \subseteq Stored(k)'
        BY <1>9, <2>2, <2>4, <2>5
    <2>7. faults' = 0 => r.sent \subseteq StoredByAny' \cup ToSet(r.todo)
        <3>1. faults = 0 => job[c].sent \subseteq StoredByAny \cup ToSet(job[c].todo)
            BY <1>1 DEF JobOK
        <3>2. ~Fault => i \in StoredByAny'
            BY <1>9
        <3> QED
            BY <1>3, <1>8, <1>9, <2>2, <2>3, <3>1, <3>2
    <2>8. Revoked(k)' => calls'[c] <= keys'[k].after[c]
        BY <1>1, <1>8 DEF JobOK, Revoked
    <2> QED
        BY <2>1, <2>2, <2>6, <2>7, <2>8 DEF JobOK
<1>10. ASSUME NEW ok \in BOOLEAN, entries' = Append(entries, row), ok \/ Fault,
              job' = [job EXCEPT ![c] = New(ok)], faults' = faults \/ Fault
       PROVE  ApiInv'
    <2>1. Added(row, Len(entries) + 1)
        BY <1>6, <1>10, AppendAdds
    <2>2. PICK r : r = New(ok)
        OBVIOUS
    <2>3. PICK e \in EntryType : e = row
        BY <1>6
    <2>4. /\ i \in Stored(k)' /\ i \in StoredByAny'
          /\ StoredByAny \subseteq StoredByAny' /\ Stored(k) \subseteq Stored(k)'
        <3>1. Added(e, Len(entries) + 1)
            BY <2>1, <2>3
        <3>2. /\ e.id \in Stored(e.tenant)' /\ e.id \in StoredByAny'
              /\ StoredByAny \subseteq StoredByAny' /\ \A t : Stored(t) \subseteq Stored(t)'
            BY <3>1, StoredGrows
        <3> QED
            BY <1>6, <1>8, <2>3, <3>2
    <2>5. JobOK(c)'
        BY <1>9, <1>10, <2>2, <2>4
    <2>6. EntryOK(e) /\ e.type = "raw" /\ Added(e, Len(entries) + 1)
        BY <1>6, <1>7, <2>1, <2>3
    <2>7. claims' = claims \cup (IF e.type = "raw" THEN {} ELSE {ClaimOf(e)})
        BY <1>1, <2>6
    <2> QED
        BY <1>1, <1>10, <2>2, <2>5, <2>6, <2>7, StoreKeeps
<1>11. ASSUME entries' = entries, Fault \/ (Conflict(id) /\ faults' = faults),
              job' = [job EXCEPT ![c] = New(FALSE)]
       PROVE  ApiInv'
    <2>1. StoredByAny' = StoredByAny /\ Stored(k)' = Stored(k)
        BY <1>11 DEF Stored, StoredByAny
    <2>2. Fault \/ i \in StoredByAny'
        BY <1>4, <1>8, <1>11, <2>1
    <2>3. PICK r : r = New(FALSE)
        OBVIOUS
    <2>4. JobOK(c)'
        BY <1>9, <1>11, <2>1, <2>2, <2>3
    <2> QED
        BY <1>1, <1>11, <2>3, <2>4, GoesOn
<1>12. \/ /\ entries' = Append(entries, row) /\ job' = [job EXCEPT ![c] = New(TRUE)]
          /\ faults' = faults
       \/ /\ entries' = entries /\ job' = [job EXCEPT ![c] = New(FALSE)]
          /\ Fault \/ (Conflict(id) /\ faults' = faults)
       \/ /\ entries' = Append(entries, row) /\ job' = [job EXCEPT ![c] = New(FALSE)] /\ Fault
    BY DEF SaveRaw, Work, New, row, id, rest
<1> QED
    BY <1>10, <1>11, <1>12

\* A webhook is a duplicate, is rolled back, or is stored with its claim.
LEMMA IngestKeeps == ASSUME ApiInv, NEW c \in Clients, Ingest(c) PROVE ApiInv'
<1> DEFINE id == IF job[c].hook = "report" THEN Drawn ELSE MappedPrescriptionID(job[c].op)
           row == Row(c, job[c].hook, id)
<1>1. /\ job[c].pc = "ingest" /\ JobOK(c) /\ IsJob(job[c]) /\ job' = [job EXCEPT ![c] = Idle]
      /\ UNCHANGED <<keys, known, calls, answers>>
    BY DEF Ingest, ApiInv, JobOK, Work, apiHistory
<1>2. /\ job \in [Clients -> Jobs] /\ calls \in [Clients -> Nat] /\ Len(entries) \in Nat
    BY DEF ApiInv, ApiTypes
<1>3. /\ job[c].hook \in {"prescribe", "report"} /\ job[c].began \in 0..Len(entries)
      /\ job[c].key \in Keys /\ job[c].op \in Nat /\ job[c].idem \in Nat
    BY <1>1 DEF JobOK, IsJob
<1>4. id \in Ids
    BY <1>2, <1>3 DEF Drawn, MappedPrescriptionID, Ids
<1> HIDE DEF id
<1>5. /\ row \in EntryType /\ row.type = job[c].hook /\ row.id = id
      /\ row.tenant = job[c].key /\ row.call = [client |-> c, n |-> calls[c]]
      /\ row.op = job[c].op /\ row.idem = job[c].idem
    BY <1>2, <1>3, <1>4 DEF Row, EntryType
<1> HIDE DEF row
<1>6. EntryOK(row) /\ row.type # "raw"
    <2>1. row.call.client = c /\ row.call.n = calls[c]
        BY <1>5
    <2> QED
        BY <1>1, <1>2, <1>3, <1>4, <1>5, <2>1 DEF EntryOK, JobOK
<1>7. ClaimOf(row) = Own(c)
    BY <1>5 DEF ClaimOf, Own
<1>8. JobOK(c)'
    BY <1>1, <1>2, SetJob, IdleIsOK
<1>9. CASE entries' = entries /\ claims' = claims /\ (faults' = faults \/ Fault)
    BY <1>1, <1>8, <1>9, GoesOn
<1>10. ASSUME NEW p \in job[c].began..Len(entries), entries' = InsertAt(entries, p + 1, row),
              claims' = claims \cup {Own(c)}, faults' = faults, ~Claimed(c)
       PROVE  ApiInv'
    <2>1. PICK e \in EntryType : e = row
        BY <1>5
    <2>2. p + 1 \in 1..Len(entries)+1
        BY <1>2, <1>3
    <2>3. Added(e, p + 1)
        BY <1>10, <2>1, <2>2, InsertAdds
    <2>4. EntryOK(e) /\ e.type # "raw" /\ ClaimOf(e) = Own(c) /\ Own(c) \notin claims
        BY <1>6, <1>7, <1>10, <2>1 DEF Claimed
    <2>5. claims' = claims \cup (IF e.type = "raw" THEN {} ELSE {ClaimOf(e)})
        BY <1>10, <2>4
    <2> QED
        BY <1>1, <1>8, <1>10, <2>3, <2>4, <2>5, StoreKeeps
<1>11. \/ entries' = entries /\ claims' = claims /\ (faults' = faults \/ Fault)
       \/ /\ ~Claimed(c) /\ claims' = claims \cup {Own(c)} /\ faults' = faults
          /\ \E p \in job[c].began..Len(entries) : entries' = InsertAt(entries, p + 1, row)
    BY DEF Ingest, row, id
<1> QED
    BY <1>9, <1>10, <1>11

LEMMA ApiStep == ApiInv /\ [ServerNext]_<<vars, resultVars, benching>> => ApiInv'
<1> SUFFICES ASSUME ApiInv, [ServerNext]_<<vars, resultVars, benching>> PROVE ApiInv'
    OBVIOUS
<1>1. CASE UNCHANGED vars
    BY <1>1, TickKeeps DEF vars, apiHistory
<1>2. CASE Next
    <2>1. ASSUME NEW c \in Clients, NEW ip \in Ips, RequestKey(c, ip) PROVE ApiInv'
        BY <2>1, KeyRequests
    <2>2. ASSUME NEW c \in Clients, RefuseKey(c) \/ CreateKey(c) \/ Unauthorized(c) PROVE ApiInv'
        BY <2>2, RefuseKeeps, CreateKeeps, UnauthorizedKeeps
    <2>3. ASSUME NEW c \in Clients, NEW k \in known, NEW body \in Bodies, Send(c, k, body)
          PROVE  ApiInv'
        BY <2>3, SendKeeps
    <2>4. ASSUME NEW c \in Clients, NEW k \in known, NEW hook \in {"prescribe", "report"},
                 NEW o \in Operations, NEW i \in Idems \cup {0}, Webhook(c, k, hook, o, i)
          PROVE  ApiInv'
        BY <2>4, WebhookKeeps
    <2>5. ASSUME NEW c \in Clients, (\E k \in known : Replay(c, k)) \/ Count(c) \/ Page(c)
          PROVE  ApiInv'
        BY <2>5, ReplayKeeps
    <2>6. ASSUME NEW c \in Clients, SaveRaw(c) \/ AnswerBatch(c) \/ Ingest(c) PROVE ApiInv'
        BY <2>6, SaveKeeps, AnswerKeeps, IngestKeeps
    <2>7. ASSUME NEW k \in Keys, RevokeKey(k) PROVE ApiInv'
        BY <2>7, RevokeKeeps
    <2>8. CASE Restart
        BY <2>8, RestartKeeps
    <2>9. CASE Tick
        BY <2>9, TickKeeps DEF Tick, apiHistory
    <2> QED
        BY <1>2, <2>1, <2>2, <2>3, <2>4, <2>5, <2>6, <2>7, <2>8, <2>9 DEF Next
<1> QED
    BY <1>1, <1>2 DEF ServerNext

LEMMA ApiAlways == ServerSpec => []ApiInv
<1>1. ServerInit => ApiInv
    BY InitApi DEF ServerInit
<1> QED
    BY <1>1, ApiStep, PTL DEF ServerSpec

\* WebhooksOnce: a webhook that is answered as a duplicate has been recorded, and
\* recorded once (internal/api/webhooks.go, internal/ingest, webhook_events).
THEOREM WebhooksAreRecordedOnce == ServerSpec => []WebhooksOnce
<1>1. ApiInv => WebhooksOnce
    BY DEF ApiInv
<1> QED
    BY <1>1, ApiAlways, PTL

\* BatchesAccounted: what the answer to a batch promises is stored
\* (internal/api/forward_handler.go, internal/store SaveRaw).
THEOREM BatchesAreAccounted == ServerSpec => []BatchesAccounted
<1>1. ApiInv => BatchesAccounted
    BY DEF ApiInv
<1> QED
    BY <1>1, ApiAlways, PTL

\* OwnEntries: no entry is stored by a request that began after the key it came
\* with was revoked (internal/auth, internal/store/keys.go).
THEOREM EntriesAreOwn == ServerSpec => []OwnEntries
<1>1. ApiInv => OwnEntries
    BY DEF ApiInv, OwnEntries, EntryOK, Revoked
<1> QED
    BY <1>1, ApiAlways, PTL

-----------------------------------------------------------------------------
(* Reading the table backwards                                              *)

\* Induction over the numbers, with the property as a set.
LEMMA SetInduction ==
    ASSUME NEW S, 0 \in S, \A n \in Nat : n \in S => n + 1 \in S
    PROVE  Nat \subseteq S
<1> SUFFICES ASSUME Nat \ S # {} PROVE FALSE
    OBVIOUS
<1>1. PICK x \in Nat \ S : \A y \in Nat \ S : ~ (<<y, x>> \in OpToRel(<, Nat))
    BY NatLessThanWellFounded, WFMin
<1>2. x # 0 /\ x - 1 \in Nat /\ x - 1 < x /\ (x - 1) + 1 = x
    OBVIOUS
<1>3. <<x - 1, x>> \in OpToRel(<, Nat)
    BY <1>2 DEF OpToRel
<1>4. x - 1 \in S
    BY <1>1, <1>2, <1>3
<1>5. (x - 1) + 1 \in S
    BY <1>2, <1>4
<1> QED
    BY <1>2, <1>5

\* A recursion over 1..n in a set X has a solution: f[0] is base, and f[i] is
\* what step i makes of f[i - 1].
LEMMA Iteration ==
    ASSUME NEW X, NEW base \in X, NEW n \in Nat, NEW step \in [1..n -> [X -> X]]
    PROVE  \E f \in [0..n -> X] : f[0] = base /\ \A i \in 1..n : f[i] = step[i][f[i-1]]
<1> DEFINE S == {m \in Nat : m <= n =>
                    \E f \in [0..m -> X] : /\ f[0] = base
                                           /\ \A i \in 1..m : f[i] = step[i][f[i-1]]}
<1>1. 0 \in S
    <2> DEFINE g == [i \in 0..0 |-> base]
    <2>1. g \in [0..0 -> X] /\ g[0] = base
        OBVIOUS
    <2> HIDE DEF g
    <2>2. \A i \in 1..0 : g[i] = step[i][g[i-1]]
        OBVIOUS
    <2> QED
        BY <2>1, <2>2
<1>2. ASSUME NEW m \in Nat, m \in S PROVE m + 1 \in S
    <2> SUFFICES ASSUME m + 1 <= n
                 PROVE  \E f \in [0..m+1 -> X] :
                           /\ f[0] = base
                           /\ \A i \in 1..m+1 : f[i] = step[i][f[i-1]]
        OBVIOUS
    <2>1. m <= n
        OBVIOUS
    <2>2. PICK f \in [0..m -> X] : /\ f[0] = base
                                   /\ \A i \in 1..m : f[i] = step[i][f[i-1]]
        BY <1>2, <2>1
    <2> DEFINE g == [i \in 0..m+1 |-> IF i = m + 1 THEN step[m+1][f[m]] ELSE f[i]]
    <2>3. m + 1 \in 1..n /\ f[m] \in X
        OBVIOUS
    <2>4. step[m+1][f[m]] \in X
        BY <2>3
    <2>5. \A i \in 0..m : g[i] = f[i] /\ i \in 0..m+1 /\ i # m + 1
        OBVIOUS
    <2>6. g[m+1] = step[m+1][f[m]]
        OBVIOUS
    <2>7. g \in [0..m+1 -> X]
        BY <2>4
    <2> HIDE DEF g
    <2>8. \A i \in 1..m : i - 1 \in 0..m /\ i \in 0..m
        OBVIOUS
    <2>9. \A i \in 1..m : g[i] = step[i][g[i-1]]
        BY <2>2, <2>5, <2>8
    <2>10. g[m+1] = step[m+1][g[(m+1)-1]]
        BY <2>5, <2>6
    <2>11. \A i \in 1..m+1 : g[i] = step[i][g[i-1]]
        BY <2>9, <2>10
    <2>12. g[0] = base
        BY <2>2, <2>5
    <2> QED
        BY <2>7, <2>11, <2>12
<1> HIDE DEF S
<1>3. n \in S
    BY <1>1, <1>2, SetInduction
<1> QED
    BY <1>3 DEF S

\* What NewestOf reads, row by row.
Reads(rows, t, f) ==
    /\ f[0] = <<>>
    /\ \A i \in 1..Len(rows) :
          f[i] = IF rows[i].tenant = t THEN <<rows[i].id>> \o f[i - 1] ELSE f[i - 1]

LEMMA NewestRuns ==
    ASSUME NEW rows \in Seq(EntryType), NEW t
    PROVE  \E f \in [0..Len(rows) -> Seq(Ids)] :
              Reads(rows, t, f) /\ NewestOf(rows, t) = f[Len(rows)]
<1> DEFINE n == Len(rows)
           Run(f) == f = [i \in 0..n |-> IF i = 0 THEN <<>>
                                         ELSE IF rows[i].tenant = t
                                              THEN <<rows[i].id>> \o f[i - 1]
                                         ELSE f[i - 1]]
           step == [i \in 1..n |-> [q \in Seq(Ids) |-> IF rows[i].tenant = t
                                                       THEN <<rows[i].id>> \o q ELSE q]]
           h == CHOOSE f : Run(f)
<1>1. n \in Nat /\ \A i \in 1..n : rows[i].id \in Ids
    <2>1. n \in Nat /\ \A i \in 1..n : rows[i] \in EntryType
        OBVIOUS
    <2>2. \A e \in EntryType : e.id \in Ids
        BY DEF EntryType
    <2> QED
        BY <2>1, <2>2
<1>2. step \in [1..n -> [Seq(Ids) -> Seq(Ids)]]
    <2>1. ASSUME NEW i \in 1..n, NEW q \in Seq(Ids)
          PROVE  (IF rows[i].tenant = t THEN <<rows[i].id>> \o q ELSE q) \in Seq(Ids)
        <3>1. <<rows[i].id>> \in Seq(Ids)
            BY <1>1
        <3> HIDE DEF n
        <3> QED
            BY <3>1, Concatenated
    <2> QED
        BY <2>1
<1>3. \A i \in 1..n, q \in Seq(Ids) :
          step[i][q] = IF rows[i].tenant = t THEN <<rows[i].id>> \o q ELSE q
    OBVIOUS
<1> HIDE DEF step
<1>4. <<>> \in Seq(Ids)
    OBVIOUS
<1>5. PICK f \in [0..n -> Seq(Ids)] : f[0] = <<>> /\ \A i \in 1..n : f[i] = step[i][f[i-1]]
    <2>1. PICK X : X = Seq(Ids)
        OBVIOUS
    <2>2. /\ <<>> \in X /\ n \in Nat /\ step \in [1..n -> [X -> X]]
        BY <1>1, <1>2, <1>4, <2>1
    <2>3. \E f \in [0..n -> X] : f[0] = <<>> /\ \A i \in 1..n : f[i] = step[i][f[i-1]]
        <3>1. ASSUME NEW m \in Nat, NEW b \in X, NEW g \in [1..m -> [X -> X]]
              PROVE  \E f \in [0..m -> X] : f[0] = b /\ \A i \in 1..m : f[i] = g[i][f[i-1]]
            BY Iteration
        <3> HIDE DEF n
        <3> QED
            BY <2>2, <3>1
    <2> QED
        BY <2>1, <2>3
<1>6. Reads(rows, t, f)
    <2>1. \A i \in 1..n : f[i-1] \in Seq(Ids)
        BY <1>1
    <2> QED
        BY <1>3, <1>5, <2>1 DEF Reads
<1>7. Run(f)
    <2>1. \A i \in 0..n : i = 0 \/ i \in 1..n
        BY <1>1
    <2>2. \A i \in 0..n : f[i] = IF i = 0 THEN <<>>
                                 ELSE IF rows[i].tenant = t THEN <<rows[i].id>> \o f[i - 1]
                                 ELSE f[i - 1]
        BY <1>6, <2>1 DEF Reads
    <2> HIDE DEF n
    <2> QED
        BY <2>2, <1>5
<1>8. Run(h)
    BY <1>7
<1> HIDE DEF h
<1>9. h[0] = <<>> /\ \A i \in 1..n : h[i] = IF rows[i].tenant = t
                                             THEN <<rows[i].id>> \o h[i - 1] ELSE h[i - 1]
    <2>1. 0 \in 0..n /\ \A i \in 1..n : i \in 0..n /\ i # 0
        BY <1>1
    <2> HIDE DEF n
    <2> QED
        BY <1>8, <2>1
<1> DEFINE S == {i \in Nat : i <= n => h[i] = f[i]}
<1>10. 0 \in S
    BY <1>5, <1>9
<1>11. ASSUME NEW i \in Nat, i \in S PROVE i + 1 \in S
    <2> SUFFICES ASSUME i + 1 <= n PROVE h[i + 1] = f[i + 1]
        OBVIOUS
    <2>1. h[i] = f[i] /\ i + 1 \in 1..n /\ (i + 1) - 1 = i
        BY <1>1, <1>11
    <2> QED
        BY <1>6, <1>9, <2>1 DEF Reads
<1>12. n \in S
    <2> HIDE DEF S
    <2> QED
        BY <1>1, <1>10, <1>11, SetInduction
<1>13. NewestOf(rows, t) = h[n]
    BY DEF NewestOf, h
<1> QED
    BY <1>1, <1>6, <1>12, <1>13

LEMMA Prepended ==
    ASSUME NEW T, NEW x \in T, NEW q \in Seq(T)
    PROVE  /\ <<x>> \o q \in Seq(T) /\ Len(<<x>> \o q) = Len(q) + 1 /\ (<<x>> \o q)[1] = x
           /\ \A k \in 1..Len(q) : (<<x>> \o q)[k + 1] = q[k]
OBVIOUS

Distinct(seq) == \A j, k \in 1..Len(seq) : seq[j] = seq[k] => j = k

LEMMA PrependedSet ==
    ASSUME NEW T, NEW x \in T, NEW q \in Seq(T)
    PROVE  /\ ToSet(<<x>> \o q) = {x} \cup ToSet(q)
           /\ Distinct(q) /\ x \notin ToSet(q) => Distinct(<<x>> \o q)
<1> DEFINE r == <<x>> \o q
<1>1. /\ Len(q) \in Nat /\ Len(r) = Len(q) + 1 /\ r[1] = x
      /\ \A k \in 1..Len(q) : r[k + 1] = q[k]
      /\ DOMAIN r = 1..Len(r) /\ DOMAIN q = 1..Len(q)
    BY Prepended
<1> HIDE DEF r
<1>2. \A k \in 1..Len(r) : k = 1 \/ (k - 1 \in 1..Len(q) /\ r[k] = q[k - 1])
    <2>1. ASSUME NEW k \in 1..Len(r), k # 1 PROVE k - 1 \in 1..Len(q) /\ (k - 1) + 1 = k
        BY <1>1, <2>1
    <2> QED
        BY <1>1, <2>1
<1>3. ToSet(r) = {x} \cup ToSet(q)
    <2>1. \A k \in 1..Len(q) : k + 1 \in 1..Len(r)
        BY <1>1
    <2>2. 1 \in 1..Len(r)
        BY <1>1
    <2> QED
        BY <1>1, <1>2, <2>1, <2>2 DEF ToSet
<1>4. ASSUME Distinct(q), x \notin ToSet(q), NEW j \in 1..Len(r), NEW k \in 1..Len(r), r[j] = r[k]
      PROVE  j = k
    <2>1. \A i \in 1..Len(q) : q[i] # x
        BY <1>1, <1>4 DEF ToSet
    <2>2. CASE j = 1 \/ k = 1
        BY <1>1, <1>2, <1>4, <2>1, <2>2
    <2>3. CASE j # 1 /\ k # 1
        <3>1. j - 1 \in 1..Len(q) /\ k - 1 \in 1..Len(q) /\ q[j - 1] = q[k - 1]
            BY <1>2, <1>4, <2>3
        <3>2. j - 1 = k - 1
            BY <1>4, <3>1 DEF Distinct
        <3> QED
            BY <1>1, <3>2
    <2> QED
        BY <2>2, <2>3
<1>5. Distinct(q) /\ x \notin ToSet(q) => Distinct(r)
    BY <1>4 DEF Distinct
<1> QED
    BY <1>3, <1>5 DEF r

\* The ids are those of the tenant's rows, and each comes once.
LEMMA NewestReads ==
    ASSUME NEW rows \in Seq(EntryType), NEW t
    PROVE  /\ NewestOf(rows, t) \in Seq(Ids)
           /\ ToSet(NewestOf(rows, t)) =
                 {rows[k].id : k \in {j \in 1..Len(rows) : rows[j].tenant = t}}
           /\ (\A j, k \in 1..Len(rows) : rows[j].id = rows[k].id => j = k)
                 => Distinct(NewestOf(rows, t))
<1> DEFINE n == Len(rows)
           Mine(i) == {k \in 1..i : rows[k].tenant = t}
           MyIds(i) == {rows[k].id : k \in Mine(i)}
           Unique == \A j, k \in 1..n : rows[j].id = rows[k].id => j = k
<1>1. PICK f \in [0..n -> Seq(Ids)] : Reads(rows, t, f) /\ NewestOf(rows, t) = f[n]
    BY NewestRuns
<1>2. n \in Nat /\ \A i \in 1..n : rows[i].id \in Ids
    <2>1. n \in Nat /\ \A i \in 1..n : rows[i] \in EntryType
        OBVIOUS
    <2>2. \A e \in EntryType : e.id \in Ids
        BY DEF EntryType
    <2> QED
        BY <2>1, <2>2
<1> DEFINE S == {i \in Nat : i <= n => ToSet(f[i]) = MyIds(i) /\ (Unique => Distinct(f[i]))}
<1>3. 0 \in S
    <2>1. f[0] = <<>> /\ MyIds(0) = {} /\ Len(<<>>) = 0
        BY <1>1 DEF Reads
    <2>2. ToSet(f[0]) = {}
        BY <2>1 DEF ToSet
    <2>3. Distinct(f[0])
        BY <2>1 DEF Distinct
    <2> QED
        BY <2>1, <2>2, <2>3
<1>4. ASSUME NEW i \in Nat, i \in S PROVE i + 1 \in S
    <2> SUFFICES ASSUME i + 1 <= n
                 PROVE  ToSet(f[i+1]) = MyIds(i+1) /\ (Unique => Distinct(f[i+1]))
        OBVIOUS
    <2> DEFINE x == rows[i+1].id
    <2>1. /\ i \in 0..n /\ i + 1 \in 1..n /\ (i + 1) - 1 = i /\ f[i] \in Seq(Ids) /\ x \in Ids
          /\ ToSet(f[i]) = MyIds(i) /\ (Unique => Distinct(f[i]))
        BY <1>1, <1>2, <1>4
    <2>2. f[i+1] = IF rows[i+1].tenant = t THEN <<x>> \o f[i] ELSE f[i]
        BY <1>1, <2>1 DEF Reads
    <2>3. Mine(i+1) = IF rows[i+1].tenant = t THEN Mine(i) \cup {i+1} ELSE Mine(i)
        <3>1. \A k : k \in 1..(i+1) <=> k \in 1..i \/ k = i + 1
            BY <2>1
        <3> QED
            BY <3>1
    <2>4. CASE rows[i+1].tenant = t
        <3>1. MyIds(i+1) = {x} \cup MyIds(i)
            BY <2>3, <2>4
        <3>2. Unique => x \notin MyIds(i)
            <4>1. ASSUME Unique, NEW k \in Mine(i), rows[k].id = x PROVE FALSE
                <5>1. k \in 1..n /\ k # i + 1
                    BY <1>2, <2>1
                <5> QED
                    BY <2>1, <4>1, <5>1
            <4> QED
                BY <4>1
        <3> HIDE DEF x, MyIds, Unique
        <3>3. /\ ToSet(<<x>> \o f[i]) = {x} \cup ToSet(f[i])
              /\ Distinct(f[i]) /\ x \notin ToSet(f[i]) => Distinct(<<x>> \o f[i])
            <4>1. PICK q \in Seq(Ids), y \in Ids : q = f[i] /\ y = x
                BY <2>1
            <4>2. /\ ToSet(<<y>> \o q) = {y} \cup ToSet(q)
                  /\ Distinct(q) /\ y \notin ToSet(q) => Distinct(<<y>> \o q)
                BY PrependedSet
            <4> QED
                BY <4>1, <4>2
        <3> QED
            BY <2>1, <2>2, <2>4, <3>1, <3>2, <3>3
    <2>5. CASE rows[i+1].tenant # t
        BY <2>1, <2>2, <2>3, <2>5
    <2> QED
        BY <2>4, <2>5
<1>5. n \in S
    <2> HIDE DEF S
    <2> QED
        BY <1>2, <1>3, <1>4, SetInduction
<1>6. ToSet(f[n]) = MyIds(n) /\ (Unique => Distinct(f[n])) /\ f[n] \in Seq(Ids)
    BY <1>2, <1>5
<1> QED
    BY <1>1, <1>6

\* b is a with x put in at q.
Inserts(a, b, q, x) ==
    /\ q \in 1..Len(a)+1 /\ Len(b) = Len(a) + 1 /\ b[q] = x
    /\ \A k \in 1..Len(a) : k < q => b[k] = a[k]
    /\ \A k \in 1..Len(a) : k >= q => b[k + 1] = a[k]

LEMMA PrependInserts ==
    ASSUME NEW T, NEW x \in T, NEW q \in Seq(T) PROVE Inserts(q, <<x>> \o q, 1, x)
<1>1. Len(q) \in Nat /\ 1 \in 1..Len(q)+1
    OBVIOUS
<1>2. /\ Len(<<x>> \o q) = Len(q) + 1 /\ (<<x>> \o q)[1] = x
      /\ \A k \in 1..Len(q) : (<<x>> \o q)[k + 1] = q[k]
    BY Prepended
<1>3. \A k \in 1..Len(q) : ~(k < 1)
    BY <1>1
<1> QED
    BY <1>1, <1>2, <1>3 DEF Inserts

LEMMA PrependBoth ==
    ASSUME NEW T, NEW y \in T, NEW a \in Seq(T), NEW b \in Seq(T), NEW q, NEW x,
           Inserts(a, b, q, x)
    PROVE  Inserts(<<y>> \o a, <<y>> \o b, q + 1, x)
<1>1. PICK n \in Nat : n = Len(a)
    OBVIOUS
<1>2. /\ q \in 1..n+1 /\ Len(b) = n + 1 /\ b[q] = x
      /\ \A k \in 1..n : k < q => b[k] = a[k]
      /\ \A k \in 1..n : k >= q => b[k + 1] = a[k]
    BY <1>1 DEF Inserts
<1>3. PICK a2, b2 : a2 = <<y>> \o a /\ b2 = <<y>> \o b
    OBVIOUS
<1>4. /\ Len(a2) = n + 1 /\ a2[1] = y /\ \A k \in 1..n : a2[k + 1] = a[k]
    BY <1>1, <1>3, Prepended
<1>5. /\ Len(b2) = n + 2 /\ b2[1] = y /\ \A k \in 1..n+1 : b2[k + 1] = b[k]
    BY <1>2, <1>3, Prepended
<1>6. q + 1 \in 1..n+2 /\ q \in 1..n+1
    BY <1>2
<1>7. b2[q + 1] = x
    BY <1>2, <1>5
<1>8. ASSUME NEW k \in 1..n+1, k < q + 1 PROVE b2[k] = a2[k]
    <2>1. CASE k = 1
        BY <1>4, <1>5, <2>1
    <2>2. CASE k # 1
        <3>1. k - 1 \in 1..n /\ k - 1 \in 1..n+1 /\ k - 1 < q /\ (k - 1) + 1 = k
            BY <1>6, <1>8, <2>2
        <3>2. b2[(k - 1) + 1] = b[k - 1] /\ a2[(k - 1) + 1] = a[k - 1] /\ b[k - 1] = a[k - 1]
            BY <1>2, <1>4, <1>5, <3>1
        <3> QED
            BY <3>1, <3>2
    <2> QED
        BY <2>1, <2>2
<1>9. ASSUME NEW k \in 1..n+1, k >= q + 1 PROVE b2[k + 1] = a2[k]
    <2>1. k \in 1..n+1 /\ k - 1 \in 1..n /\ k - 1 >= q /\ (k - 1) + 1 = k
        BY <1>6, <1>9
    <2>2. b2[k + 1] = b[k] /\ a2[(k - 1) + 1] = a[k - 1] /\ b[(k - 1) + 1] = a[k - 1]
        BY <1>2, <1>4, <1>5, <2>1
    <2> QED
        BY <2>1, <2>2
<1> QED
    BY <1>3, <1>4, <1>5, <1>6, <1>7, <1>8, <1>9 DEF Inserts

\* A row more in the table is an id more for its tenant, and none for the others.
LEMMA NewestAdded ==
    ASSUME NEW rows \in Seq(EntryType), NEW rows2 \in Seq(EntryType), NEW p, NEW row \in EntryType,
           Inserts(rows, rows2, p, row), NEW t
    PROVE  IF row.tenant = t
           THEN \E q : Inserts(NewestOf(rows, t), NewestOf(rows2, t), q, row.id)
           ELSE NewestOf(rows2, t) = NewestOf(rows, t)
<1>1. PICK n \in Nat : n = Len(rows)
    OBVIOUS
<1>2. PICK f \in [0..n -> Seq(Ids)] : Reads(rows, t, f) /\ NewestOf(rows, t) = f[n]
    BY <1>1, NewestRuns
<1>3. /\ p \in 1..n+1 /\ Len(rows2) = n + 1 /\ rows2[p] = row
      /\ \A k \in 1..n : k < p => rows2[k] = rows[k]
      /\ \A k \in 1..n : k >= p => rows2[k + 1] = rows[k]
    BY <1>1 DEF Inserts
<1>4. PICK g \in [0..n+1 -> Seq(Ids)] : Reads(rows2, t, g) /\ NewestOf(rows2, t) = g[n + 1]
    BY <1>3, NewestRuns
<1>5. /\ f[0] = <<>>
      /\ \A i \in 1..n : f[i] = IF rows[i].tenant = t THEN <<rows[i].id>> \o f[i - 1] ELSE f[i - 1]
    BY <1>1, <1>2 DEF Reads
<1>6. /\ g[0] = <<>>
      /\ \A i \in 1..n+1 :
            g[i] = IF rows2[i].tenant = t THEN <<rows2[i].id>> \o g[i - 1] ELSE g[i - 1]
    BY <1>3, <1>4 DEF Reads
<1>7. /\ \A i \in 1..n : rows[i].id \in Ids
      /\ row.id \in Ids
    <2>1. \A i \in 1..n : rows[i] \in EntryType
        BY <1>1
    <2>2. \A e \in EntryType : e.id \in Ids
        BY DEF EntryType
    <2> QED
        BY <2>1, <2>2
<1> DEFINE Same(i) == IF row.tenant = t THEN \E q : Inserts(f[i], g[i + 1], q, row.id)
                      ELSE g[i + 1] = f[i]
           S1 == {i \in Nat : i < p => g[i] = f[i]}
           S2 == {j \in Nat : p - 1 + j <= n => Same(p - 1 + j)}
<1>8. p - 1 \in S1
    <2>1. 0 \in S1
        BY <1>5, <1>6
    <2>2. ASSUME NEW i \in Nat, i \in S1 PROVE i + 1 \in S1
        <3> SUFFICES ASSUME i + 1 < p PROVE g[i + 1] = f[i + 1]
            OBVIOUS
        <3>1. g[i] = f[i] /\ i + 1 \in 1..n /\ i + 1 \in 1..n+1 /\ (i + 1) - 1 = i
            BY <1>3, <2>2
        <3>2. rows2[i + 1] = rows[i + 1]
            BY <1>3, <3>1
        <3>3. f[i + 1] = IF rows[i + 1].tenant = t THEN <<rows[i + 1].id>> \o f[i] ELSE f[i]
            BY <1>5, <3>1
        <3>4. g[i + 1] = IF rows2[i + 1].tenant = t THEN <<rows2[i + 1].id>> \o g[i] ELSE g[i]
            BY <1>6, <3>1
        <3> QED
            BY <3>1, <3>2, <3>3, <3>4
    <2>3. p - 1 \in Nat
        BY <1>3
    <2> HIDE DEF S1
    <2> QED
        BY <2>1, <2>2, <2>3, SetInduction
<1>9. PICK o \in 0..n : o = p - 1
    BY <1>3
<1>10. g[o] = f[o] /\ f[o] \in Seq(Ids)
    BY <1>3, <1>8, <1>9
<1>11. 0 \in S2
    <2>1. g[o + 1] = IF row.tenant = t THEN <<row.id>> \o f[o] ELSE f[o]
        <3>1. o + 1 \in 1..n+1 /\ (o + 1) - 1 = o /\ o + 1 = p
            BY <1>3, <1>9
        <3> QED
            BY <1>3, <1>6, <1>10, <3>1
    <2>2. Inserts(f[o], <<row.id>> \o f[o], 1, row.id)
        BY <1>7, <1>10, PrependInserts
    <2>3. Same(o)
        BY <2>1, <2>2
    <2>4. p - 1 + 0 = o
        BY <1>9
    <2> HIDE DEF Same
    <2> QED
        BY <2>3, <2>4
<1>12. ASSUME NEW j \in Nat, j \in S2 PROVE j + 1 \in S2
    <2> SUFFICES ASSUME p - 1 + (j + 1) <= n PROVE Same(p - 1 + (j + 1))
        OBVIOUS
    <2>1. PICK i \in Nat : i = p - 1 + j
        BY <1>3
    <2>2. i + 1 = p - 1 + (j + 1) /\ i + 1 \in 1..n /\ i + 2 \in 1..n+1 /\ i + 1 >= p /\ i \in 0..n
          /\ (i + 1) - 1 = i /\ (i + 2) - 1 = i + 1 /\ i + 1 \in 0..n+1 /\ (i + 1) + 1 = i + 2
        BY <1>3, <2>1
    <2>3. Same(i)
        <3> HIDE DEF Same
        <3> QED
            BY <1>12, <2>1, <2>2
    <2>4. rows2[i + 2] = rows[i + 1]
        BY <1>3, <2>2
    <2>5. f[i] \in Seq(Ids) /\ g[i + 1] \in Seq(Ids) /\ rows[i + 1].id \in Ids
        BY <1>7, <2>2
    <2>6. /\ f[i + 1] = IF rows[i + 1].tenant = t THEN <<rows[i + 1].id>> \o f[i] ELSE f[i]
          /\ g[i + 2] = IF rows[i + 1].tenant = t THEN <<rows[i + 1].id>> \o g[i + 1] ELSE g[i + 1]
        BY <1>5, <1>6, <2>2, <2>4
    <2>7. \A q : Inserts(f[i], g[i + 1], q, row.id) =>
                   Inserts(<<rows[i + 1].id>> \o f[i], <<rows[i + 1].id>> \o g[i + 1], q + 1, row.id)
        BY <2>5, PrependBoth
    <2>8. Same(i + 1)
        BY <2>2, <2>3, <2>6, <2>7
    <2> HIDE DEF Same
    <2> QED
        BY <2>2, <2>8
<1>13. PICK m \in Nat : m = n - o
    BY <1>9
<1>14. m \in S2
    <2> HIDE DEF S2
    <2> QED
        BY <1>11, <1>12, SetInduction
<1>15. Same(n)
    <2>1. p - 1 + m = n
        BY <1>9, <1>13
    <2> HIDE DEF Same
    <2> QED
        BY <1>14, <2>1
<1> QED
    BY <1>2, <1>4, <1>15

-----------------------------------------------------------------------------
(* Replays                                                                  *)

\* Where a replay that has read all finds what was there before: the entries of
\* before stand in the list, in their order; those within the length of what was
\* read have been read, and with an entry all newer ones.
Found(list, before, all, at) ==
    /\ \A k \in 1..Len(before) : list[at[k]] = before[k]
    /\ \A j, k \in 1..Len(before) : j < k => at[j] < at[k]
    /\ \A k \in 1..Len(before) : at[k] <= Len(all) => before[k] \in ToSet(all)
    /\ \A j, k \in 1..Len(before) : j < k /\ before[k] \in ToSet(all) => before[j] \in ToSet(all)
ReplayOK(list, before, all) ==
    /\ before \in Seq(Ids) /\ all \in Seq(Ids) /\ Distinct(before)
    /\ Len(before) <= Len(list) /\ Len(all) <= Len(list) /\ ToSet(all) \subseteq ToSet(list)
    /\ \E at \in [1..Len(before) -> 1..Len(list)] : Found(list, before, all, at)

LEMMA ReplayBegins ==
    ASSUME NEW list \in Seq(Ids), Distinct(list) PROVE ReplayOK(list, list, <<>>)
<1> DEFINE at == [k \in 1..Len(list) |-> k]
<1>1. /\ <<>> \in Seq(Ids) /\ Len(<<>>) = 0 /\ Len(list) \in Nat /\ ToSet(<<>>) = {}
    BY DEF ToSet
<1>2. at \in [1..Len(list) -> 1..Len(list)] /\ \A k \in 1..Len(list) : at[k] = k
    OBVIOUS
<1> HIDE DEF at
<1>3. Found(list, list, <<>>, at)
    <2>1. \A k \in 1..Len(list) : ~(at[k] <= Len(<<>>))
        BY <1>1, <1>2
    <2> QED
        BY <1>1, <1>2, <2>1 DEF Found
<1> QED
    BY <1>1, <1>2, <1>3 DEF ReplayOK

\* An entry that arrives moves others back, never forward.
LEMMA ReplayInserts ==
    ASSUME NEW list \in Seq(Ids), NEW list2 \in Seq(Ids), NEW q \in Nat, NEW x,
           Inserts(list, list2, q, x), NEW before, NEW all, ReplayOK(list, before, all)
    PROVE  ReplayOK(list2, before, all)
<1>1. PICK n \in Nat, b \in Nat, r \in Nat : n = Len(list) /\ b = Len(before) /\ r = Len(all)
    BY DEF ReplayOK
<1>2. PICK at \in [1..b -> 1..n] : Found(list, before, all, at)
    BY <1>1 DEF ReplayOK
<1>3. /\ q \in 1..n+1 /\ Len(list2) = n + 1
      /\ \A k \in 1..n : k < q => list2[k] = list[k]
      /\ \A k \in 1..n : k >= q => list2[k + 1] = list[k]
    BY <1>1 DEF Inserts
<1> DEFINE Moved(i) == IF i < q THEN i ELSE i + 1
           at2 == [k \in 1..b |-> Moved(at[k])]
<1>4. /\ \A i \in 1..n : Moved(i) \in 1..n+1 /\ list2[Moved(i)] = list[i] /\ i <= Moved(i)
      /\ \A i, j \in 1..n : i < j => Moved(i) < Moved(j)
    <2>1. \A i \in 1..n : i < q \/ i >= q
        OBVIOUS
    <2> QED
        BY <1>3, <2>1
<1> HIDE DEF Moved
<1>5. /\ at2 \in [1..b -> 1..n+1]
      /\ \A k \in 1..b : at[k] \in 1..n /\ at2[k] = Moved(at[k])
    BY <1>4
<1> HIDE DEF at2
<1>6. Found(list2, before, all, at2)
    <2>1. \A k \in 1..b : list2[at2[k]] = list[at[k]]
        BY <1>4, <1>5
    <2>2. \A j, k \in 1..b : at[j] < at[k] => at2[j] < at2[k]
        BY <1>4, <1>5
    <2>3. ASSUME NEW k \in 1..b, at2[k] <= r PROVE at[k] <= r
        <3>1. at[k] \in 1..n /\ at2[k] \in 1..n+1 /\ at[k] <= at2[k]
            BY <1>4, <1>5
        <3> QED
            BY <2>3, <3>1
    <2> QED
        BY <1>1, <1>2, <2>1, <2>2, <2>3 DEF Found
<1>7. ToSet(list) \subseteq ToSet(list2)
    <2>1. DOMAIN list = 1..n /\ DOMAIN list2 = 1..n+1
        BY <1>1, <1>3
    <2>2. ASSUME NEW k \in 1..n PROVE \E j \in 1..n+1 : list2[j] = list[k]
        <3>1. k \in 1..n+1 /\ k + 1 \in 1..n+1
            OBVIOUS
        <3>2. k < q \/ k >= q
            BY <1>3
        <3> QED
            BY <1>3, <3>1, <3>2
    <2> QED
        BY <2>1, <2>2 DEF ToSet
<1>8. b <= n /\ r <= n
    BY <1>1 DEF ReplayOK
<1> QED
    BY <1>1, <1>3, <1>5, <1>6, <1>7, <1>8 DEF ReplayOK

\* A page continues where the number of entries read so far points.
LEMMA ReplayReads ==
    ASSUME NEW list \in Seq(Ids), Distinct(list), NEW before, NEW all, ReplayOK(list, before, all),
           NEW to \in Nat, Len(all) <= to, to <= Len(list)
    PROVE  LET read == all \o SubSeq(list, Len(all) + 1, to)
           IN  ReplayOK(list, before, read) /\ Len(read) = to
<1>1. PICK n \in Nat, b \in Nat, r \in Nat : n = Len(list) /\ b = Len(before) /\ r = Len(all)
    BY DEF ReplayOK
<1> DEFINE page == SubSeq(list, r + 1, to)
           read == all \o page
<1>2. /\ page \in Seq(Ids) /\ Len(page) = to - r
      /\ \A k \in 1..to - r : page[k] = list[r + k]
    <2>1. to \in Nat /\ r <= to /\ to <= n
        BY <1>1
    <2>2. CASE r = to
        BY <1>1, <2>1, <2>2
    <2>3. CASE r < to
        BY <1>1, <2>1, <2>3
    <2> QED
        BY <2>1, <2>2, <2>3
<1> HIDE DEF page
<1>3. /\ read \in Seq(Ids) /\ Len(read) = to
      /\ \A k \in 1..r : read[k] = all[k]
      /\ \A k \in r+1..to : read[k] = list[k]
    <2>1. all \in Seq(Ids) /\ r + (to - r) = to
        BY DEF ReplayOK
    <2>2. /\ read \in Seq(Ids) /\ Len(read) = r + (to - r)
          /\ \A k \in 1..r : read[k] = all[k]
          /\ \A k \in r+1..r+(to - r) : read[k] = page[k - r]
        BY <1>1, <1>2, <2>1, Concatenated
    <2>3. \A k \in r+1..to : k - r \in 1..to - r /\ r + (k - r) = k
        OBVIOUS
    <2> QED
        BY <1>2, <2>1, <2>2, <2>3
<1> HIDE DEF read
<1>4. ToSet(read) = ToSet(all) \cup {list[k] : k \in r+1..to}
    <2>1. DOMAIN read = 1..to /\ DOMAIN all = 1..r
        BY <1>1, <1>3 DEF ReplayOK
    <2>2. \A k : k \in 1..to <=> k \in 1..r \/ k \in r+1..to
        BY <1>1
    <2> QED
        BY <1>3, <2>1, <2>2 DEF ToSet
<1>5. ToSet(read) \subseteq ToSet(list)
    <2>1. DOMAIN list = 1..n /\ \A k \in r+1..to : k \in 1..n
        BY <1>1
    <2> QED
        BY <1>4, <2>1 DEF ToSet, ReplayOK
<1>6. PICK at \in [1..b -> 1..n] : Found(list, before, all, at)
    BY <1>1 DEF ReplayOK
<1>7. \A k \in 1..b : list[at[k]] = before[k] /\ at[k] \in 1..n
    BY <1>1, <1>6 DEF Found
<1>8. ASSUME NEW k \in 1..b, at[k] <= to PROVE before[k] \in ToSet(read)
    <2>1. CASE at[k] <= r
        BY <1>1, <1>4, <1>6, <2>1 DEF Found
    <2>2. CASE ~(at[k] <= r)
        <3>1. at[k] \in r+1..to
            BY <1>7, <1>8, <2>2
        <3> QED
            BY <1>4, <1>7, <3>1
    <2> QED
        BY <2>1, <2>2
<1>9. ASSUME NEW j \in 1..b, NEW k \in 1..b, j < k, before[k] \in ToSet(read)
      PROVE  before[j] \in ToSet(read)
    <2>1. CASE before[k] \in ToSet(all)
        BY <1>1, <1>4, <1>6, <1>9, <2>1 DEF Found
    <2>2. CASE before[k] \notin ToSet(all)
        <3>1. PICK i \in r+1..to : before[k] = list[i]
            BY <1>4, <1>9, <2>2
        <3>2. i \in 1..n /\ i = at[k]
            <4>1. i \in 1..n
                BY <1>1
            <4> QED
                BY <1>1, <1>7, <3>1, <4>1 DEF Distinct
        <3>3. at[j] < at[k]
            BY <1>1, <1>6, <1>9 DEF Found
        <3>4. at[j] <= to
            BY <1>7, <3>2, <3>3
        <3> QED
            BY <1>8, <3>4
    <2> QED
        BY <2>1, <2>2
<1>10. Found(list, before, read, at)
    <2>1. \A j, k \in 1..b : j < k => at[j] < at[k]
        BY <1>1, <1>6 DEF Found
    <2> QED
        BY <1>1, <1>3, <1>7, <1>8, <1>9, <2>1 DEF Found
<1>11. ReplayOK(list, before, read)
    BY <1>1, <1>3, <1>5, <1>10 DEF ReplayOK
<1> QED
    BY <1>1, <1>3, <1>11 DEF read, page

\* What ReplayCovers says of one replay.
Covered(before, read, grown) ==
    LET missed == {k \in 1..Len(before) : before[k] \notin ToSet(read)} IN
    /\ Cardinality(missed) <= grown
    /\ \A k \in missed : k..Len(before) \subseteq missed
    /\ Len(read) <= Cardinality(ToSet(read)) + grown

\* A replay that has read as many entries as there were, or all there are.
LEMMA ReplayEnds ==
    ASSUME NEW list \in Seq(Ids), NEW before, NEW read, ReplayOK(list, before, read),
           Len(read) >= Len(before) \/ Len(read) = Len(list)
    PROVE  Covered(before, read, Len(list) - Len(before))
<1>1. PICK n \in Nat, b \in Nat, r \in Nat : n = Len(list) /\ b = Len(before) /\ r = Len(read)
    BY DEF ReplayOK
<1>2. PICK at \in [1..b -> 1..n] : Found(list, before, read, at)
    BY <1>1 DEF ReplayOK
<1> DEFINE missed == {k \in 1..b : before[k] \notin ToSet(read)}
           tail == {list[k] : k \in r+1..n}
<1>3. b <= n /\ r <= n /\ (r >= b \/ r = n)
    BY <1>1 DEF ReplayOK
<1>4. /\ \A k \in 1..b : at[k] \in 1..n /\ list[at[k]] = before[k]
      /\ \A j, k \in 1..b : j < k => at[j] < at[k]
      /\ \A k \in 1..b : at[k] <= r => before[k] \in ToSet(read)
      /\ \A j, k \in 1..b : j < k /\ before[k] \in ToSet(read) => before[j] \in ToSet(read)
    BY <1>1, <1>2 DEF Found
<1>5. \A j, k \in 1..b : at[j] = at[k] => j = k
    <2>1. ASSUME NEW j \in 1..b, NEW k \in 1..b, at[j] = at[k], j # k PROVE FALSE
        <3>1. j < k \/ k < j
            BY <2>1
        <3>2. PICK i \in 1..n : i = at[j] /\ i = at[k]
            BY <1>4, <2>1
        <3>3. ~(i < i)
            OBVIOUS
        <3> QED
            BY <1>4, <3>1, <3>2, <3>3
    <2> QED
        BY <2>1
<1>6. /\ IsFiniteSet(r+1..n) /\ Cardinality(r+1..n) = n - r
    BY <1>3, FS_Interval
<1>7. Cardinality(missed) <= n - b
    <2> DEFINE f == [k \in missed |-> at[k]]
    <2>1. \A k \in missed : at[k] \in r+1..n
        <3>1. ASSUME NEW k \in missed PROVE at[k] \in r+1..n
            <4>1. k \in 1..b /\ at[k] \in 1..n /\ ~(at[k] <= r)
                BY <1>4
            <4> QED
                BY <4>1
        <3> QED
            BY <3>1
    <2>2. f \in Injection(missed, r+1..n)
        <3>1. f \in [missed -> r+1..n]
            BY <2>1
        <3>2. \A j, k \in missed : f[j] = f[k] => j = k
            BY <1>5
        <3> HIDE DEF f, missed
        <3> QED
            BY <3>1, <3>2 DEF Injection, IsInjective
    <2>3. Cardinality(missed) <= n - r /\ IsFiniteSet(missed)
        <3> HIDE DEF f, missed
        <3>1. Cardinality(missed) <= Cardinality(r+1..n) /\ IsFiniteSet(missed)
            BY <1>6, <2>2, FS_Injection
        <3> QED
            BY <1>6, <3>1
    <2>4. Cardinality(missed) \in Nat
        BY <2>3, FS_CardinalityType
    <2> HIDE DEF missed
    <2> QED
        BY <1>3, <2>3, <2>4
<1>8. ASSUME NEW k \in missed, NEW j \in k..b PROVE j \in missed
    <2>1. k \in 1..b /\ j \in 1..b /\ (j = k \/ k < j)
        OBVIOUS
    <2> QED
        BY <1>4, <2>1
<1>9. IsFiniteSet(ToSet(read)) /\ Cardinality(ToSet(read)) \in Nat
    <2>1. ToSet(read) = {read[k] : k \in 1..r}
        BY <1>1 DEF ToSet, ReplayOK
    <2>2. [k \in 1..r |-> read[k]] \in Surjection(1..r, ToSet(read))
        BY <2>1 DEF Surjection
    <2>3. IsFiniteSet(1..r)
        BY FS_Interval
    <2>4. IsFiniteSet(ToSet(read))
        BY <2>2, <2>3, FS_Surjection
    <2> QED
        BY <2>4, FS_CardinalityType
<1>10. IsFiniteSet(tail) /\ Cardinality(tail) \in Nat /\ Cardinality(tail) <= n - r
    <2>1. [k \in r+1..n |-> list[k]] \in Surjection(r+1..n, tail)
        BY DEF Surjection
    <2> HIDE DEF tail
    <2>2. IsFiniteSet(tail) /\ Cardinality(tail) <= Cardinality(r+1..n)
        BY <1>6, <2>1, FS_Surjection
    <2> QED
        BY <1>6, <2>2, FS_CardinalityType
<1>11. b <= Cardinality(ToSet(read)) + (n - r)
    <2> DEFINE all == ToSet(read) \cup tail
               f == [k \in 1..b |-> before[k]]
    <2>1. \A k \in 1..b : before[k] \in all
        <3>1. ASSUME NEW k \in 1..b, before[k] \notin ToSet(read) PROVE before[k] \in tail
            <4>1. at[k] \in 1..n /\ ~(at[k] <= r) /\ list[at[k]] = before[k]
                BY <1>4, <3>1
            <4>2. at[k] \in r+1..n
                BY <4>1
            <4> QED
                BY <4>1, <4>2
        <3> QED
            BY <3>1
    <2> HIDE DEF tail
    <2>2. f \in Injection(1..b, all)
        <3>1. f \in [1..b -> all]
            BY <2>1
        <3>2. \A j, k \in 1..b : f[j] = f[k] => j = k
            BY <1>1 DEF ReplayOK, Distinct
        <3> HIDE DEF f, all
        <3> QED
            BY <3>1, <3>2 DEF Injection, IsInjective
    <2>3. /\ IsFiniteSet(all) /\ Cardinality(all) \in Nat
          /\ Cardinality(all) <= Cardinality(ToSet(read)) + Cardinality(tail)
        <3>1. /\ IsFiniteSet(all)
              /\ Cardinality(all) = Cardinality(ToSet(read)) + Cardinality(tail)
                                      - Cardinality(ToSet(read) \cap tail)
            BY <1>9, <1>10, FS_Union
        <3>2. Cardinality(ToSet(read) \cap tail) \in Nat
            BY <1>9, FS_Intersection, FS_CardinalityType
        <3>3. Cardinality(all) \in Nat
            BY <3>1, FS_CardinalityType
        <3> QED
            BY <1>9, <1>10, <3>1, <3>2, <3>3
    <2> HIDE DEF f, all
    <2>4. Cardinality(1..b) <= Cardinality(all)
        BY <2>2, <2>3, FS_Injection
    <2>5. Cardinality(1..b) = b
        BY FS_Interval
    <2> QED
        BY <1>3, <1>9, <1>10, <2>3, <2>4, <2>5
<1>12. r <= Cardinality(ToSet(read)) + (n - b)
    BY <1>3, <1>9, <1>11
<1>13. missed = {k \in 1..Len(before) : before[k] \notin ToSet(read)}
    BY <1>1
<1> HIDE DEF missed
<1>14. \A k \in missed : k..b \subseteq missed
    BY <1>8
<1> QED
    BY <1>1, <1>7, <1>12, <1>13, <1>14 DEF Covered

UniqueIds == \A j, k \in 1..Len(entries) : entries[j].id = entries[k].id => j = k
ReplayJob(c) ==
    job[c].pc \in {"count", "page"} =>
        /\ ReplayOK(Newest(job[c].key), job[c].before, job[c].all)
        /\ job[c].pc = "page" => job[c].total \in Nat /\ Len(job[c].before) <= job[c].total
ReplayDone(r) ==
    /\ r.tenant \in Keys /\ ToSet(r.read) \subseteq Stored(r.tenant)
    /\ Covered(r.before, r.read, r.grown)
ReplayInv ==
    /\ UniqueIds
    /\ \A c \in Clients : ReplayJob(c)
    /\ \A r \in replays : ReplayDone(r)

LEMMA InitReplays == Init => ReplayInv
<1> SUFFICES ASSUME Init PROVE ReplayInv
    OBVIOUS
<1>1. UniqueIds
    BY DEF Init, UniqueIds
<1>2. ASSUME NEW c \in Clients PROVE ReplayJob(c)
    BY IdleIsJob DEF Init, ReplayJob
<1> QED
    BY <1>1, <1>2 DEF Init, ReplayInv

\* What a step does to the table.
TableStep ==
    \/ entries' = entries
    \/ \E row \in EntryType : \E p : Added(row, p) /\ ~Conflict(row.id)

LEMMA TableKeeps ==
    ASSUME ApiInv, UniqueIds, TableStep
    PROVE  /\ UniqueIds'
           /\ \A t : Stored(t) \subseteq Stored(t)'
           /\ \A t, before, all : ReplayOK(Newest(t), before, all) => ReplayOK(Newest(t)', before, all)
<1>1. CASE entries' = entries
    BY <1>1 DEF UniqueIds, Newest, Stored
<1>2. ASSUME NEW row \in EntryType, NEW p, Added(row, p), ~Conflict(row.id)
      PROVE  /\ UniqueIds'
             /\ \A t : Stored(t) \subseteq Stored(t)'
             /\ \A t, before, all :
                   ReplayOK(Newest(t), before, all) => ReplayOK(Newest(t)', before, all)
    <2>1. /\ entries \in Seq(EntryType) /\ entries' \in Seq(EntryType)
          /\ p \in 1..Len(entries') /\ entries'[p] = row /\ Len(entries) \in Nat
        BY <1>2 DEF Added, ApiInv, ApiTypes
    <2>2. Inserts(entries, entries', p, row)
        BY <1>2 DEF Added, Inserts
    <2>3. UniqueIds'
        <3>a. \A m \in 1..Len(entries') \ {p}, h \in 1..Len(entries') \ {p} :
                 m # h => \E i, l \in 1..Len(entries) :
                             i # l /\ entries'[m] = entries[i] /\ entries'[h] = entries[l]
            BY <1>2, RowsOfAdded
        <3>1. ASSUME NEW j \in 1..Len(entries'), NEW k \in 1..Len(entries'),
                     entries'[j].id = entries'[k].id, j # k
              PROVE  FALSE
            <4>1. CASE j = p \/ k = p
                <5>1. PICK i \in 1..Len(entries') : i # p /\ entries'[i].id = row.id
                    BY <2>1, <3>1, <4>1
                <5>2. PICK l \in 1..Len(entries) : entries'[i] = entries[l]
                    BY <1>2, <5>1, RowsOfAdded
                <5> QED
                    BY <1>2, <5>1, <5>2 DEF Conflict, StoredByAny
            <4>2. CASE j # p /\ k # p
                <5>1. PICK i \in 1..Len(entries), l \in 1..Len(entries) :
                          i # l /\ entries'[j] = entries[i] /\ entries'[k] = entries[l]
                    BY <3>a, <3>1, <4>2
                <5> QED
                    BY <3>1, <5>1 DEF UniqueIds
            <4> QED
                BY <4>1, <4>2
        <3> QED
            BY <3>1 DEF UniqueIds
    <2>4. \A t : Stored(t) \subseteq Stored(t)'
        BY <1>2, StoredGrows
    <2>5. ASSUME NEW t, NEW before, NEW all, ReplayOK(Newest(t), before, all)
          PROVE  ReplayOK(Newest(t)', before, all)
        <3>1. PICK a \in Seq(Ids) : a = Newest(t)
            BY <2>1, NewestReads DEF Newest
        <3>2. PICK b \in Seq(Ids) : b = Newest(t)'
            <4>1. NewestOf(entries', t) \in Seq(Ids)
                BY <2>1, NewestReads
            <4> QED
                BY <4>1 DEF Newest
        <3>3. IF row.tenant = t
              THEN \E q : Inserts(NewestOf(entries, t), NewestOf(entries', t), q, row.id)
              ELSE NewestOf(entries', t) = NewestOf(entries, t)
            <4>1. PICK r1 \in Seq(EntryType), r2 \in Seq(EntryType) : r1 = entries /\ r2 = entries'
                BY <2>1
            <4>2. Inserts(r1, r2, p, row)
                BY <2>2, <4>1
            <4>3. IF row.tenant = t
                  THEN \E q : Inserts(NewestOf(r1, t), NewestOf(r2, t), q, row.id)
                  ELSE NewestOf(r2, t) = NewestOf(r1, t)
                BY <4>2, NewestAdded
            <4> QED
                BY <4>1, <4>3
        <3>4. b = a \/ \E q : Inserts(a, b, q, row.id)
            BY <3>1, <3>2, <3>3 DEF Newest
        <3>5. ASSUME NEW q, Inserts(a, b, q, row.id) PROVE ReplayOK(b, before, all)
            <4>1. q \in Nat
                BY <3>5 DEF Inserts
            <4>2. ReplayOK(a, before, all)
                BY <2>5, <3>1
            <4> QED
                BY <3>5, <4>1, <4>2, ReplayInserts
        <3> QED
            BY <2>5, <3>1, <3>2, <3>4, <3>5
    <2> QED
        BY <2>3, <2>4, <2>5
<1> QED
    BY <1>1, <1>2 DEF TableStep

LEMMA ReplayFrame ==
    ASSUME ApiInv, ReplayInv, TableStep,
           \A d \in Clients : job'[d] = job[d] \/ ReplayJob(d)',
           \A r \in replays' : r \in replays \/ ReplayDone(r)'
    PROVE  ReplayInv'
<1>1. UniqueIds
    BY DEF ReplayInv
<1>2. UniqueIds'
    BY <1>1, TableKeeps
<1>3. ASSUME NEW d \in Clients, job'[d] = job[d] PROVE ReplayJob(d)'
    <2>1. ReplayJob(d)
        BY DEF ReplayInv
    <2>2. PICK t, before, all : t = job[d].key /\ before = job[d].before /\ all = job[d].all
        OBVIOUS
    <2>3. ReplayOK(Newest(t), before, all) => ReplayOK(Newest(t)', before, all)
        BY <1>1, TableKeeps
    <2>4. ReplayOK(Newest(job[d].key), job[d].before, job[d].all)
             => ReplayOK(Newest(job[d].key)', job'[d].before, job'[d].all)
        <3>1. Newest(t)' = NewestOf(entries', job'[d].key) /\ Newest(job[d].key)' = NewestOf(entries', job'[d].key)
            BY <1>3, <2>2 DEF Newest
        <3> QED
            BY <1>3, <2>2, <2>3, <3>1
    <2> QED
        BY <1>3, <2>1, <2>4 DEF ReplayJob
<1>4. ASSUME NEW r \in replays PROVE ReplayDone(r)'
    <2>1. ReplayDone(r)
        BY DEF ReplayInv
    <2>2. PICK t : t = r.tenant
        OBVIOUS
    <2>3. Stored(t) \subseteq Stored(t)'
        BY <1>1, TableKeeps
    <2>4. r.tenant' = r.tenant
        OBVIOUS
    <2> QED
        BY <2>1, <2>2, <2>3, <2>4 DEF ReplayDone
<1> QED
    BY <1>2, <1>3, <1>4 DEF ReplayInv

LEMMA MinOf ==
    ASSUME NEW a \in Nat, NEW b \in Nat
    PROVE  Min({a, b}) \in Nat /\ Min({a, b}) = IF a <= b THEN a ELSE b
<1> DEFINE m == IF a <= b THEN a ELSE b
<1>1. m \in {a, b} /\ \A y \in {a, b} : m <= y
    OBVIOUS
<1>2. \A x \in {a, b} : (\A y \in {a, b} : x <= y) => x = m
    OBVIOUS
<1> QED
    BY <1>1, <1>2 DEF Min

LEMMA PageLength ==
    ASSUME NEW T, NEW list \in Seq(T), NEW a \in Nat, NEW b \in Nat, a <= b, b <= Len(list)
    PROVE  Len(SubSeq(list, a + 1, b)) = b - a
<1>1. CASE a = b
    BY <1>1
<1>2. CASE a < b
    BY <1>2
<1> QED
    BY <1>1, <1>2

LEMMA ReplayStarts ==
    ASSUME ApiInv, ReplayInv, NEW c \in Clients, NEW k \in known, Replay(c, k) PROVE ReplayInv'
<1> DEFINE r == [Idle EXCEPT !.pc = "count", !.key = k, !.before = Newest(k)]
<1>1. /\ job \in [Clients -> Jobs] /\ entries \in Seq(EntryType)
    BY DEF ApiInv, ApiTypes
<1>2. job' = [job EXCEPT ![c] = r] /\ entries' = entries /\ replays' = replays
    BY DEF Replay, Begin, Work, apiHistory
<1>3. r.pc = "count" /\ r.key = k /\ r.before = Newest(k) /\ r.all = <<>>
    BY DEF Idle
<1> HIDE DEF r
<1>4. job'[c] = r /\ \A d \in Clients \ {c} : job'[d] = job[d]
    BY <1>1, <1>2, SetJob
<1>5. ReplayOK(Newest(k), Newest(k), <<>>)
    <2>1. Newest(k) \in Seq(Ids) /\ Distinct(Newest(k))
        BY <1>1, NewestReads DEF Newest, ReplayInv, UniqueIds
    <2> QED
        BY <2>1, ReplayBegins
<1>6. ReplayJob(c)'
    BY <1>2, <1>3, <1>4, <1>5 DEF ReplayJob, Newest
<1> QED
    BY <1>2, <1>4, <1>6, ReplayFrame DEF TableStep

LEMMA ReplayCounts ==
    ASSUME ApiInv, ReplayInv, NEW c \in Clients, Count(c) PROVE ReplayInv'
<1> DEFINE r == [job[c] EXCEPT !.pc = "page", !.total = Len(Newest(job[c].key))]
<1>1. /\ job \in [Clients -> Jobs] /\ entries \in Seq(EntryType) /\ IsJob(job[c])
    BY DEF ApiInv, ApiTypes, JobOK
<1>2. /\ job[c].pc = "count" /\ job' = [job EXCEPT ![c] = r]
      /\ entries' = entries /\ replays' = replays
    BY DEF Count, Work, apiHistory
<1>3. /\ r.pc = "page" /\ r.key = job[c].key /\ r.before = job[c].before /\ r.all = job[c].all
      /\ r.total = Len(Newest(job[c].key))
    BY <1>1 DEF IsJob
<1> HIDE DEF r
<1>4. job'[c] = r /\ \A d \in Clients \ {c} : job'[d] = job[d]
    BY <1>1, <1>2, SetJob
<1>5. ReplayOK(Newest(job[c].key), job[c].before, job[c].all)
    BY <1>2 DEF ReplayInv, ReplayJob
<1>6. r.total \in Nat /\ Len(job[c].before) <= r.total
    <2>1. Newest(job[c].key) \in Seq(Ids)
        BY <1>1, NewestReads DEF Newest
    <2> QED
        BY <1>3, <1>5, <2>1 DEF ReplayOK
<1>7. ReplayJob(c)'
    <2>1. job'[c].key = job[c].key
        BY <1>3, <1>4
    <2> QED
        BY <1>2, <1>3, <1>4, <1>5, <1>6, <2>1 DEF ReplayJob, Newest
<1> QED
    BY <1>2, <1>4, <1>7, ReplayFrame DEF TableStep

\* A page, and after the last one the record of what was read.
LEMMA ReplayPages ==
    ASSUME ApiInv, ReplayInv, NEW c \in Clients, Page(c) PROVE ReplayInv'
<1> DEFINE from == Len(job[c].all)
           list == Newest(job[c].key)
           to == Min({Len(list), from + Resolved(ReplayPageSize)})
           page == SubSeq(list, from + 1, to)
           all == job[c].all \o page
           next == [job[c] EXCEPT !.pc = "count", !.all = all]
           done == [tenant |-> job[c].key, read |-> all, before |-> job[c].before,
                    grown |-> Len(list) - Len(job[c].before)]
           ends == Len(all) >= job[c].total \/ Len(page) < ReplayPageSize
<1>1. /\ job \in [Clients -> Jobs] /\ entries \in Seq(EntryType) /\ IsJob(job[c])
      /\ job[c].pc = "page" /\ job[c].key \in Keys
    BY DEF ApiInv, ApiTypes, JobOK, Page, IsJob
<1>2. /\ entries' = entries
      /\ \/ ends /\ job' = [job EXCEPT ![c] = Idle] /\ replays' \in {replays, replays \cup {done}}
         \/ ~ends /\ job' = [job EXCEPT ![c] = next] /\ replays' = replays
    BY DEF Page, Work
<1>3. /\ ReplayOK(list, job[c].before, job[c].all)
      /\ job[c].total \in Nat /\ Len(job[c].before) <= job[c].total
    BY <1>1 DEF ReplayInv, ReplayJob
<1>4. list \in Seq(Ids) /\ Distinct(list) /\ ToSet(list) = Stored(job[c].key)
    BY <1>1, NewestReads DEF Newest, ReplayInv, UniqueIds, Stored
<1>5. /\ Len(list) \in Nat /\ from \in Nat /\ from <= Len(list) /\ Len(job[c].before) \in Nat
      /\ Len(job[c].before) <= Len(list)
    BY <1>3, <1>4 DEF ReplayOK
<1>6. ReplayPageSize \in Nat /\ Resolved(ReplayPageSize) = ReplayPageSize
    BY ApiAssumption, PagesAssumption DEF ApiAssumption, PagesAssumption, Resolved
<1>7. /\ to \in Nat /\ from <= to /\ to <= Len(list)
      /\ to = Len(list) \/ to = from + ReplayPageSize
    <2>1. to \in Nat /\ to = IF Len(list) <= from + ReplayPageSize THEN Len(list)
                              ELSE from + ReplayPageSize
        BY <1>5, <1>6, MinOf
    <2> HIDE DEF to, list, from
    <2> QED
        BY <1>5, <1>6, <2>1
<1> HIDE DEF to, list
<1>8. ReplayOK(list, job[c].before, all) /\ Len(all) = to
    <2>0. PICK l \in Seq(Ids) : l = list
        BY <1>4
    <2>1. PICK a, b : a = job[c].all /\ b = job[c].before
        OBVIOUS
    <2>2. Distinct(l) /\ ReplayOK(l, b, a) /\ to \in Nat /\ Len(a) <= to /\ to <= Len(l)
        BY <1>3, <1>4, <1>7, <2>0, <2>1
    <2>3. LET read == a \o SubSeq(l, Len(a) + 1, to) IN ReplayOK(l, b, read) /\ Len(read) = to
        BY <2>2, ReplayReads
    <2> QED
        BY <2>0, <2>1, <2>3
<1>9. Len(page) = to - from
    <2>1. PICK l \in Seq(Ids), a \in Nat, b \in Nat :
              l = list /\ a = from /\ b = to /\ a <= b /\ b <= Len(l)
        BY <1>4, <1>5, <1>7
    <2>2. Len(SubSeq(l, a + 1, b)) = b - a
        BY <2>1, PageLength
    <2> QED
        BY <2>1, <2>2
<1>10. ASSUME ends PROVE ReplayDone(done)
    <2>1. Len(all) >= Len(job[c].before) \/ Len(all) = Len(list)
        BY <1>3, <1>5, <1>6, <1>7, <1>8, <1>9, <1>10
    <2>2. Covered(job[c].before, all, Len(list) - Len(job[c].before))
        BY <1>4, <1>8, <2>1, ReplayEnds
    <2>3. ToSet(all) \subseteq Stored(job[c].key)
        BY <1>4, <1>8 DEF ReplayOK
    <2> QED
        BY <1>1, <2>2, <2>3 DEF ReplayDone
<1>11. next.pc = "count" /\ next.key = job[c].key /\ next.before = job[c].before /\ next.all = all
    BY <1>1 DEF IsJob
<1>12. Newest(job[c].key) = list
    BY DEF list
<1> HIDE DEF next, all, done, ends, page, from
<1>13. CASE job' = [job EXCEPT ![c] = next] /\ replays' = replays
    <2>1. job'[c] = next /\ \A d \in Clients \ {c} : job'[d] = job[d]
        BY <1>1, <1>13, SetJob
    <2>2. ReplayJob(c)'
        BY <1>2, <1>8, <1>11, <1>12, <2>1 DEF ReplayJob, Newest
    <2> QED
        BY <1>2, <1>13, <2>1, <2>2, ReplayFrame DEF TableStep
<1>14. CASE ends /\ job' = [job EXCEPT ![c] = Idle]
    <2>1. job'[c] = Idle /\ \A d \in Clients \ {c} : job'[d] = job[d]
        BY <1>1, <1>14, SetJob
    <2>2. ReplayJob(c)'
        BY <2>1, IdleIsJob DEF ReplayJob
    <2>3. ReplayDone(done)
        BY <1>10, <1>14
    <2>4. ASSUME NEW r \in replays' PROVE r \in replays \/ ReplayDone(r)'
        <3>1. r \in replays \/ r = done
            BY <1>2
        <3>2. r = done => ReplayDone(r)
            BY <2>3
        <3>3. ReplayDone(r) => ReplayDone(r)'
            BY <1>2 DEF ReplayDone, Stored
        <3> QED
            BY <3>1, <3>2, <3>3
    <2> QED
        BY <1>2, <2>1, <2>2, <2>4, ReplayFrame DEF TableStep
<1> QED
    BY <1>2, <1>13, <1>14

LEMMA RowTyped ==
    ASSUME ApiInv, NEW c \in Clients, NEW id \in Ids, NEW type \in {"raw", "prescribe", "report"}
    PROVE  Row(c, type, id) \in EntryType /\ Row(c, type, id).id = id
<1>1. calls[c] \in Nat /\ IsJob(job[c])
    BY DEF ApiInv, ApiTypes, JobOK
<1>2. job[c].key \in Keys /\ job[c].op \in Nat /\ job[c].idem \in Nat
    BY <1>1 DEF IsJob
<1> QED
    BY <1>1, <1>2 DEF Row, EntryType

\* Only SaveRaw and Ingest write, and neither an id that is there.
LEMMA SaveTable == ASSUME ApiInv, NEW c \in Clients, SaveRaw(c) PROVE TableStep
<1> DEFINE id == Head(job[c].todo)
           row == Row(c, "raw", id)
<1>1. IsJob(job[c]) /\ job[c].todo # <<>>
    BY DEF SaveRaw, ApiInv, JobOK
<1>2. id \in Ids
    <2>1. job[c].todo \in Seq(Ids)
        BY <1>1 DEF IsJob
    <2> QED
        BY <1>1, <2>1
<1>3. entries' = entries \/ (entries' = Append(entries, row) /\ ~Conflict(id))
    BY DEF SaveRaw
<1> HIDE DEF id
<1>4. PICK e \in EntryType : e = row /\ e.id = id
    BY <1>2, RowTyped
<1>5. CASE entries' = Append(entries, row) /\ ~Conflict(id)
    <2>1. entries' = Append(entries, e)
        BY <1>4, <1>5
    <2>2. Added(e, Len(entries) + 1)
        BY <2>1, AppendAdds
    <2> QED
        BY <1>4, <1>5, <2>2 DEF TableStep
<1> QED
    BY <1>3, <1>5 DEF TableStep

LEMMA IngestTable == ASSUME ApiInv, NEW c \in Clients, Ingest(c) PROVE TableStep
<1> DEFINE id == IF job[c].hook = "report" THEN Drawn ELSE MappedPrescriptionID(job[c].op)
           row == Row(c, job[c].hook, id)
<1>1. /\ job[c].pc = "ingest" /\ JobOK(c) /\ IsJob(job[c]) /\ Len(entries) \in Nat
    BY DEF Ingest, ApiInv, ApiTypes, JobOK
<1>2. /\ job[c].hook \in {"prescribe", "report"} /\ job[c].began \in 0..Len(entries)
      /\ job[c].op \in Nat
    BY <1>1 DEF JobOK, IsJob
<1>3. id \in Ids
    <2>1. 0 \in Keys
        BY ApiAssumption DEF Keys, ApiAssumption
    <2> QED
        BY <1>1, <1>2, <2>1 DEF Drawn, MappedPrescriptionID, Ids
<1>4. \/ entries' = entries
      \/ ~Conflict(id) /\ \E p \in job[c].began..Len(entries) : entries' = InsertAt(entries, p + 1, row)
    BY DEF Ingest
<1> HIDE DEF id
<1>5. PICK e \in EntryType : e = row /\ e.id = id
    BY <1>2, <1>3, RowTyped
<1>6. ASSUME ~Conflict(id), NEW p \in job[c].began..Len(entries), entries' = InsertAt(entries, p + 1, row)
      PROVE  TableStep
    <2>1. p + 1 \in 1..Len(entries)+1
        BY <1>1, <1>2
    <2>2. Added(e, p + 1)
        BY <1>5, <1>6, <2>1, InsertAdds
    <2> QED
        BY <1>5, <1>6, <2>2 DEF TableStep
<1> QED
    BY <1>4, <1>6 DEF TableStep

\* A step of a request that is no replay, or is over.
LEMMA ElseKeeps ==
    ASSUME ApiInv, ReplayInv, TableStep, NEW c \in Clients, NEW r, job' = [job EXCEPT ![c] = r],
           r.pc \notin {"count", "page"}, replays' = replays
    PROVE  ReplayInv'
<1>1. job'[c] = r /\ \A d \in Clients \ {c} : job'[d] = job[d]
    BY SetJob DEF ApiInv, ApiTypes
<1>2. ReplayJob(c)'
    BY <1>1 DEF ReplayJob
<1> QED
    BY <1>1, <1>2, ReplayFrame

LEMMA ReplayStep == ApiInv /\ ReplayInv /\ [ServerNext]_<<vars, resultVars, benching>> => ReplayInv'
<1> SUFFICES ASSUME ApiInv, ReplayInv, [ServerNext]_<<vars, resultVars, benching>> PROVE ReplayInv'
    OBVIOUS
<1>1. CASE UNCHANGED <<entries, job, replays>>
    BY <1>1, ReplayFrame DEF TableStep
<1>2. CASE Next
    <2>1. ASSUME NEW c \in Clients, NEW ip \in Ips, RequestKey(c, ip) PROVE ReplayInv'
        <3>1. PICK r : job' = [job EXCEPT ![c] = r] /\ r.pc \in {"idle", "create"}
            BY <2>1, IdleIsJob DEF RequestKey, Begin, Work, Idle
        <3>2. entries' = entries /\ replays' = replays
            BY <2>1 DEF RequestKey, apiHistory
        <3> QED
            BY <3>1, <3>2, ElseKeeps DEF TableStep
    <2>2. ASSUME NEW c \in Clients, RefuseKey(c) \/ CreateKey(c) \/ Unauthorized(c) \/ AnswerBatch(c)
          PROVE  ReplayInv'
        <3>1. job' = [job EXCEPT ![c] = Idle] /\ entries' = entries /\ replays' = replays
            BY <2>2 DEF RefuseKey, CreateKey, Unauthorized, AnswerBatch, Begin, Work, apiHistory
        <3> QED
            BY <3>1, IdleIsJob, ElseKeeps DEF TableStep
    <2>3. ASSUME NEW c \in Clients, NEW k \in known, NEW body \in Bodies, Send(c, k, body)
          PROVE  ReplayInv'
        <3> DEFINE ids == [i \in 1..Len(body) |-> EntryId(body[i])]
                   r == [Idle EXCEPT !.pc = "save", !.key = k, !.todo = ids, !.sent = ToSet(ids)]
        <3>1. job' = [job EXCEPT ![c] = r] /\ r.pc = "save"
            <4>1. r.pc = "save"
                BY DEF Idle
            <4> QED
                BY <2>3, <4>1 DEF Send, Begin, Work
        <3>2. entries' = entries /\ replays' = replays
            BY <2>3 DEF Send, apiHistory
        <3> HIDE DEF r
        <3> QED
            BY <3>1, <3>2, ElseKeeps DEF TableStep
    <2>4. ASSUME NEW c \in Clients, NEW k \in known, NEW hook \in {"prescribe", "report"},
                 NEW o \in Operations, NEW i \in Idems \cup {0}, Webhook(c, k, hook, o, i)
          PROVE  ReplayInv'
        <3> DEFINE r == [Idle EXCEPT !.pc = "ingest", !.key = k, !.hook = hook, !.op = o,
                                     !.idem = i, !.began = Len(entries)]
        <3>1. job' = [job EXCEPT ![c] = r] /\ r.pc = "ingest"
            <4>1. r.pc = "ingest"
                BY DEF Idle
            <4> QED
                BY <2>4, <4>1 DEF Webhook, Begin, Work
        <3>2. entries' = entries /\ replays' = replays
            BY <2>4 DEF Webhook, apiHistory
        <3> HIDE DEF r
        <3> QED
            BY <3>1, <3>2, ElseKeeps DEF TableStep
    <2>5. ASSUME NEW c \in Clients, (\E k \in known : Replay(c, k)) \/ Count(c) \/ Page(c)
          PROVE  ReplayInv'
        BY <2>5, ReplayStarts, ReplayCounts, ReplayPages
    <2>6. ASSUME NEW c \in Clients, SaveRaw(c) PROVE ReplayInv'
        <3>1. PICK r : job' = [job EXCEPT ![c] = r] /\ r.pc = "save"
            <4>1. IsJob(job[c]) /\ job[c].pc = "save"
                BY <2>6 DEF SaveRaw, ApiInv, JobOK
            <4>2. \A todo, accepted : [job[c] EXCEPT !.todo = todo, !.accepted = accepted].pc = "save"
                BY <4>1 DEF IsJob
            <4>3. \E todo, accepted :
                     job' = [job EXCEPT ![c] = [job[c] EXCEPT !.todo = todo, !.accepted = accepted]]
                BY <2>6 DEF SaveRaw, Work
            <4> QED
                BY <4>2, <4>3
        <3>2. replays' = replays
            BY <2>6 DEF SaveRaw, apiHistory
        <3> QED
            BY <2>6, <3>1, <3>2, SaveTable, ElseKeeps
    <2>7. ASSUME NEW c \in Clients, Ingest(c) PROVE ReplayInv'
        <3>1. job' = [job EXCEPT ![c] = Idle] /\ replays' = replays
            BY <2>7 DEF Ingest, Work, apiHistory
        <3> QED
            BY <2>7, <3>1, IdleIsJob, IngestTable, ElseKeeps
    <2>8. ASSUME NEW k \in Keys, RevokeKey(k) PROVE ReplayInv'
        BY <1>1, <2>8 DEF RevokeKey, apiHistory
    <2>9. CASE Restart
        <3>1. \A c \in Clients : ReplayJob(c)'
            BY <2>9, IdleIsJob DEF Restart, ReplayJob
        <3>2. entries' = entries /\ replays' = replays
            BY <2>9 DEF Restart
        <3> QED
            BY <3>1, <3>2, ReplayFrame DEF TableStep
    <2>10. CASE Tick
        BY <1>1, <2>10 DEF Tick, apiHistory
    <2> QED
        BY <1>2, <2>1, <2>2, <2>3, <2>4, <2>5, <2>6, <2>7, <2>8, <2>9, <2>10 DEF Next
<1> QED
    BY <1>1, <1>2 DEF ServerNext, vars, apiHistory

LEMMA ReplayAlways == ServerSpec => [](ApiInv /\ ReplayInv)
<1>1. ServerInit => ApiInv /\ ReplayInv
    BY InitApi, InitReplays DEF ServerInit
<1>2. ApiInv /\ ReplayInv /\ [ServerNext]_<<vars, resultVars, benching>> => (ApiInv /\ ReplayInv)'
    BY ApiStep, ReplayStep
<1> QED
    BY <1>1, <1>2, PTL DEF ServerSpec

\* TenantsApart: nothing is stored with a revoked key but by requests that were let
\* in before, no id stands for entries of two tenants, and a replay reads none of
\* another tenant's (internal/auth, internal/store, internal/analyticsvc).
THEOREM TenantsAreApart == ServerSpec => []TenantsApart
<1>1. ApiInv /\ ReplayInv => TenantsApart
    <2> SUFFICES ASSUME ApiInv, ReplayInv PROVE TenantsApart
        OBVIOUS
    <2>1. OwnEntries
        BY DEF ApiInv, OwnEntries, EntryOK, Revoked
    <2>2. \A t, u \in Keys : t # u => Stored(t) \cap Stored(u) = {}
        BY DEF ReplayInv, UniqueIds, Stored
    <2> QED
        BY <2>1, <2>2 DEF TenantsApart, ReplayInv, ReplayDone
<1> QED
    BY <1>1, ReplayAlways, PTL

\* ReplayCovers: what the pages of a replay can miss or repeat is bounded by what
\* arrived meanwhile (internal/analyticsvc collectReplayEntries).
THEOREM ReplaysCover == ServerSpec => []ReplayCovers
<1>1. ReplayInv => ReplayCovers
    BY DEF ReplayInv, ReplayDone, Covered, ReplayCovers
<1> QED
    BY <1>1, ReplayAlways, PTL

-----------------------------------------------------------------------------
(* The keys of an IP                                                        *)

\* What NewerThan keeps, time by time.
Keeps(times, cutoff, f) ==
    /\ f[0] = <<>>
    /\ \A i \in 1..Len(times) :
          f[i] = IF times[i] > cutoff THEN Append(f[i - 1], times[i]) ELSE f[i - 1]

\* T holds whatever NewerThan builds of times.
Extends(T, times) ==
    /\ Len(times) \in Nat /\ <<>> \in T
    /\ \A i \in 1..Len(times), q \in T : Append(q, times[i]) \in T

LEMMA NewerRuns ==
    ASSUME NEW T, NEW times, NEW cutoff, Extends(T, times)
    PROVE  \E f \in [0..Len(times) -> T] :
              Keeps(times, cutoff, f) /\ NewerThan(times, cutoff) = f[Len(times)]
<1>0. ASSUME NEW m \in Nat, NEW b \in T, NEW g \in [1..m -> [T -> T]]
      PROVE  \E f \in [0..m -> T] : f[0] = b /\ \A i \in 1..m : f[i] = g[i][f[i-1]]
    BY Iteration
<1> DEFINE n == Len(times)
           Run(f) == f = [i \in 0..n |-> IF i = 0 THEN <<>>
                                         ELSE IF times[i] > cutoff
                                              THEN Append(f[i - 1], times[i])
                                         ELSE f[i - 1]]
           step == [i \in 1..n |-> [q \in T |-> IF times[i] > cutoff
                                                       THEN Append(q, times[i]) ELSE q]]
           h == CHOOSE f : Run(f)
<1>1. n \in Nat /\ <<>> \in T
    BY DEF Extends
<1>2. step \in [1..n -> [T -> T]]
    BY DEF Extends
<1>3. \A i \in 1..n, q \in T :
          step[i][q] = IF times[i] > cutoff THEN Append(q, times[i]) ELSE q
    OBVIOUS
<1> HIDE DEF step
<1> HIDE DEF n
<1>5. PICK f \in [0..n -> T] : f[0] = <<>> /\ \A i \in 1..n : f[i] = step[i][f[i-1]]
    BY <1>0, <1>1, <1>2
<1> USE DEF n
<1>6. Keeps(times, cutoff, f)
    <2>1. \A i \in 1..n : i - 1 \in 0..n
        BY <1>1
    <2>2. \A i \in 1..n : f[i-1] \in T
        BY <2>1
    <2> QED
        BY <1>3, <1>5, <2>2 DEF Keeps
<1>7. Run(f)
    <2>1. \A i \in 0..n : i = 0 \/ i \in 1..n
        BY <1>1
    <2>2. \A i \in 0..n : f[i] = IF i = 0 THEN <<>>
                                 ELSE IF times[i] > cutoff THEN Append(f[i - 1], times[i])
                                 ELSE f[i - 1]
        BY <1>6, <2>1 DEF Keeps
    <2> HIDE DEF n
    <2> QED
        BY <2>2, <1>5
<1>8. Run(h)
    BY <1>7
<1> HIDE DEF h
<1>9. h[0] = <<>> /\ \A i \in 1..n : h[i] = IF times[i] > cutoff
                                             THEN Append(h[i - 1], times[i]) ELSE h[i - 1]
    <2>1. 0 \in 0..n /\ \A i \in 1..n : i \in 0..n /\ i # 0
        BY <1>1
    <2> HIDE DEF n
    <2> QED
        BY <1>8, <2>1
<1> DEFINE S == {i \in Nat : i <= n => h[i] = f[i]}
<1>10. 0 \in S
    BY <1>5, <1>9
<1>11. ASSUME NEW i \in Nat, i \in S PROVE i + 1 \in S
    <2> SUFFICES ASSUME i + 1 <= n PROVE h[i + 1] = f[i + 1]
        OBVIOUS
    <2>1. h[i] = f[i] /\ i + 1 \in 1..n /\ (i + 1) - 1 = i
        BY <1>1, <1>11
    <2> QED
        BY <1>6, <1>9, <2>1 DEF Keeps
<1>12. n \in S
    <2> HIDE DEF S
    <2> QED
        BY <1>1, <1>10, <1>11, SetInduction
<1>13. NewerThan(times, cutoff) = h[n]
    BY DEF NewerThan, h
<1> QED
    BY <1>1, <1>6, <1>12, <1>13

\* How many of the first i times are not before from.
UpTo(times, i, from) == {k \in 1..i : times[k] >= from}
Since(times, from) == Cardinality(UpTo(times, Len(times), from))

LEMMA UpToIsFinite ==
    ASSUME NEW times, NEW i \in Nat, NEW from
    PROVE  IsFiniteSet(UpTo(times, i, from)) /\ Cardinality(UpTo(times, i, from)) \in Nat
<1>1. IsFiniteSet(1..i)
    BY FS_Interval
<1>2. UpTo(times, i, from) \in SUBSET (1..i)
    BY DEF UpTo
<1> HIDE DEF UpTo
<1> QED
    BY <1>1, <1>2, FS_Subset, FS_CardinalityType

LEMMA UpToNext ==
    ASSUME NEW times, NEW i \in Nat, NEW from
    PROVE  Cardinality(UpTo(times, i + 1, from)) =
              Cardinality(UpTo(times, i, from)) + (IF times[i + 1] >= from THEN 1 ELSE 0)
<1>1. \A k : k \in 1..(i + 1) <=> k \in 1..i \/ k = i + 1
    OBVIOUS
<1>2. i + 1 \notin UpTo(times, i, from)
    BY DEF UpTo
<1>3. CASE times[i + 1] >= from
    <2>1. UpTo(times, i + 1, from) = UpTo(times, i, from) \cup {i + 1}
        BY <1>1, <1>3 DEF UpTo
    <2> QED
        BY <1>2, <1>3, <2>1, UpToIsFinite, FS_AddElement
<1>4. CASE ~(times[i + 1] >= from)
    <2>1. UpTo(times, i + 1, from) = UpTo(times, i, from)
        BY <1>1, <1>4 DEF UpTo
    <2> QED
        BY <1>4, <2>1, UpToIsFinite
<1> QED
    BY <1>3, <1>4

\* One more time is one more, unless it is before from.
LEMMA AppendedSince ==
    ASSUME NEW times \in Seq(Nat), NEW x \in Nat, NEW from \in Int
    PROVE  Since(Append(times, x), from) = Since(times, from) + (IF x >= from THEN 1 ELSE 0)
<1> DEFINE r == Append(times, x)
           n == Len(times)
<1>1. n \in Nat /\ Len(r) = n + 1 /\ r[n + 1] = x /\ \A k \in 1..n : r[k] = times[k]
    OBVIOUS
<1> HIDE DEF r, n
<1>2. UpTo(r, n, from) = UpTo(times, n, from)
    BY <1>1 DEF UpTo
<1>3. Cardinality(UpTo(r, n + 1, from)) =
          Cardinality(UpTo(r, n, from)) + (IF r[n + 1] >= from THEN 1 ELSE 0)
    BY <1>1, UpToNext
<1> QED
    BY <1>1, <1>2, <1>3 DEF Since, r, n

\* Nothing within the window is dropped, and nothing else is kept.
LEMMA NewerKeeps ==
    ASSUME NEW times \in Seq(Nat), NEW cutoff \in Int
    PROVE  /\ NewerThan(times, cutoff) \in Seq(Nat)
           /\ \A from \in Int : from > cutoff =>
                 Since(NewerThan(times, cutoff), from) = Since(times, from)
           /\ Len(NewerThan(times, cutoff)) = Since(NewerThan(times, cutoff), cutoff + 1)
<1> DEFINE n == Len(times)
<1>1. PICK f \in [0..n -> Seq(Nat)] : Keeps(times, cutoff, f) /\ NewerThan(times, cutoff) = f[n]
    <2>1. PICK X : X = Seq(Nat)
        OBVIOUS
    <2>2. <<>> \in X /\ n \in Nat /\ \A i \in 1..n, q \in X : Append(q, times[i]) \in X
        BY <2>1
    <2>3. \E f \in [0..n -> X] : Keeps(times, cutoff, f) /\ NewerThan(times, cutoff) = f[n]
        BY <2>2, NewerRuns DEF Extends
    <2> QED
        BY <2>1, <2>3
<1>2. n \in Nat /\ \A i \in 1..n : times[i] \in Nat
    OBVIOUS
<1> DEFINE Same(i) == \A from \in Int : from > cutoff =>
                          Since(f[i], from) = Cardinality(UpTo(times, i, from))
           S == {i \in Nat : i <= n => Same(i) /\ Len(f[i]) = Since(f[i], cutoff + 1)}
<1>3. 0 \in S
    <2>1. f[0] = <<>> /\ Len(<<>>) = 0 /\ 1..0 = {}
        BY <1>1 DEF Keeps
    <2>2. \A from : UpTo(f[0], 0, from) = {} /\ UpTo(times, 0, from) = {}
        BY <2>1 DEF UpTo
    <2>3. \A from : Since(f[0], from) = 0 /\ Cardinality(UpTo(times, 0, from)) = 0
        BY <2>1, <2>2, FS_EmptySet DEF Since
    <2> QED
        BY <2>1, <2>3
<1>4. ASSUME NEW i \in Nat, i \in S PROVE i + 1 \in S
    <2> SUFFICES ASSUME i + 1 <= n
                 PROVE  Same(i + 1) /\ Len(f[i + 1]) = Since(f[i + 1], cutoff + 1)
        OBVIOUS
    <2>1. /\ i \in 0..n /\ i + 1 \in 1..n /\ (i + 1) - 1 = i /\ times[i + 1] \in Nat
          /\ f[i] \in Seq(Nat) /\ Same(i) /\ Len(f[i]) = Since(f[i], cutoff + 1)
        BY <1>2, <1>4
    <2>2. f[i + 1] = IF times[i + 1] > cutoff THEN Append(f[i], times[i + 1]) ELSE f[i]
        BY <1>1, <2>1 DEF Keeps
    <2>3. \A from \in Int :
              Cardinality(UpTo(times, i + 1, from)) =
                 Cardinality(UpTo(times, i, from)) + (IF times[i + 1] >= from THEN 1 ELSE 0)
        BY UpToNext
    <2>4. PICK q, x : q = f[i] /\ x = times[i + 1]
        OBVIOUS
    <2>5. \A from \in Int : Since(Append(q, x), from) = Since(q, from) + (IF x >= from THEN 1 ELSE 0)
        BY <2>1, <2>4, AppendedSince
    <2>6. CASE x > cutoff
        <3>1. f[i + 1] = Append(q, x)
            BY <2>2, <2>4, <2>6
        <3>2. Same(i + 1)
            BY <2>1, <2>3, <2>4, <2>5, <3>1
        <3>3. Len(Append(q, x)) = Len(q) + 1
            BY <2>1, <2>4
        <3>4. Since(Append(q, x), cutoff + 1) = Since(q, cutoff + 1) + 1
            <4>1. x >= cutoff + 1 /\ cutoff + 1 \in Int
                BY <2>1, <2>4, <2>6
            <4> QED
                BY <2>5, <4>1
        <3> QED
            BY <2>1, <2>4, <3>1, <3>2, <3>3, <3>4
    <2>7. CASE ~(x > cutoff)
        <3>1. f[i + 1] = q
            BY <2>2, <2>4, <2>7
        <3>2. ASSUME NEW from \in Int, from > cutoff
              PROVE  Cardinality(UpTo(times, i + 1, from)) = Cardinality(UpTo(times, i, from))
            <4>1. ~(times[i + 1] >= from)
                BY <2>1, <2>4, <2>7, <3>2
            <4>2. Cardinality(UpTo(times, i, from)) \in Nat
                BY UpToIsFinite
            <4> QED
                BY <2>3, <4>1, <4>2
        <3> QED
            BY <2>1, <2>4, <3>1, <3>2
    <2> QED
        BY <2>6, <2>7
<1>5. n \in S
    <2> HIDE DEF S
    <2> QED
        BY <1>2, <1>3, <1>4, SetInduction
<1> QED
    BY <1>1, <1>2, <1>5 DEF Since

\* The keys an IP was given in from..to, and its requests for one that are
\* admitted and wait.
Given(ip, from, to) == {i \in issued : i.ip = ip /\ i.at \in from..to}
Waiting == {c \in Clients : job[c].pc = "create"}
Due(ip, from, to) == {c \in Waiting : job[c].ip = ip /\ job[c].at \in from..to}
Served(ip, from, to) == Cardinality(Given(ip, from, to)) + Cardinality(Due(ip, from, to))

KeyTypes ==
    /\ now \in Nat /\ history \in [Ips -> Seq(Nat)]
    /\ IsFiniteSet(issued) /\ \A i \in issued : i.at \in 0..now
    /\ IsFiniteSet(Waiting) /\ \A c \in Waiting : job[c].at \in 0..now
    /\ \A k \in known \ {0} : keys[k].status # "none"
\* The history has a time for whatever was taken within the window, and no
\* window, this or an earlier one, has more than its keys.
Rationed(ip) ==
    /\ \A from \in Int : from > now - Window => Served(ip, from, now) <= Since(history[ip], from)
    /\ \A t \in 0..now : Served(ip, t - Window + 1, t) <= KeysPerIP
KeyInv == KeyTypes /\ \A ip \in Ips : Rationed(ip)

Counted(ip, from, to) ==
    /\ IsFiniteSet(Given(ip, from, to)) /\ Cardinality(Given(ip, from, to)) \in Nat
    /\ IsFiniteSet(Due(ip, from, to)) /\ Cardinality(Due(ip, from, to)) \in Nat
    /\ Served(ip, from, to) \in Nat

LEMMA TakenIsCounted ==
    ASSUME NEW ip, NEW from, NEW to
    PROVE  (KeyTypes => Counted(ip, from, to)) /\ (KeyTypes' => Counted(ip, from, to)')
<1>1. ASSUME KeyTypes PROVE Counted(ip, from, to)
    <2>1. Given(ip, from, to) \in SUBSET issued /\ Due(ip, from, to) \in SUBSET Waiting
        BY DEF Given, Due
    <2>2. IsFiniteSet(Given(ip, from, to)) /\ IsFiniteSet(Due(ip, from, to))
        BY <1>1, <2>1, FS_Subset DEF KeyTypes
    <2> QED
        BY <2>2, FS_CardinalityType DEF Counted, Served
<1>2. ASSUME KeyTypes' PROVE Counted(ip, from, to)'
    <2>1. Given(ip, from, to)' \in SUBSET issued' /\ Due(ip, from, to)' \in SUBSET Waiting'
        BY DEF Given, Due
    <2>2. IsFiniteSet(Given(ip, from, to)') /\ IsFiniteSet(Due(ip, from, to)')
        BY <1>2, <2>1, FS_Subset DEF KeyTypes
    <2> QED
        BY <2>2, FS_CardinalityType DEF Counted, Served
<1> QED
    BY <1>1, <1>2

LEMMA SinceIsNat == ASSUME NEW times \in Seq(Nat), NEW from PROVE Since(times, from) \in Nat
<1>1. Len(times) \in Nat
    OBVIOUS
<1> QED
    BY <1>1, UpToIsFinite DEF Since

LEMMA InitKeys == Init => KeyInv
<1> SUFFICES ASSUME Init PROVE KeyInv
    OBVIOUS
<1>1. now = 0 /\ known = {0} /\ issued = {} /\ history = [i \in Ips |-> <<>>] /\ Waiting = {}
    BY IdleIsJob DEF Init, Waiting
<1>2. KeyTypes
    BY <1>1, FS_EmptySet DEF KeyTypes
<1>3. \A ip, from, to : Served(ip, from, to) = 0
    BY <1>1, FS_EmptySet DEF Served, Given, Due
<1>4. KeysPerIP \in Nat /\ Window \in Nat
    BY ApiAssumption DEF ApiAssumption
<1>5. \A ip \in Ips : \A from : Since(history[ip], from) \in Nat
    BY <1>2, SinceIsNat DEF KeyTypes
<1> QED
    BY <1>2, <1>3, <1>4, <1>5 DEF KeyInv, Rationed

\* Nothing is taken that was not.
Fewer == \A ip \in Ips, from, to \in Int : Served(ip, from, to)' <= Served(ip, from, to)

LEMMA FewerKeeps ==
    ASSUME KeyInv, KeyTypes', Fewer, history' = history, now' = now
    PROVE  KeyInv'
<1>1. now \in Nat /\ Window \in Nat /\ KeysPerIP \in Nat
    BY ApiAssumption DEF KeyInv, KeyTypes, ApiAssumption
<1>2. ASSUME NEW ip \in Ips PROVE Rationed(ip)'
    <2>1. \A from, to \in Int : Served(ip, from, to) \in Nat /\ Served(ip, from, to)' \in Nat
        BY TakenIsCounted DEF KeyInv, Counted
    <2>2. /\ \A from, to \in Int : Served(ip, from, to)' <= Served(ip, from, to)
          /\ \A from : Since(history[ip], from) \in Nat
          /\ Rationed(ip)
        BY SinceIsNat DEF Fewer, KeyInv, KeyTypes
    <2>3. ASSUME NEW from \in Int, from > now' - Window
          PROVE  Served(ip, from, now)' <= Since(history'[ip], from)
        BY <1>1, <2>1, <2>2, <2>3 DEF Rationed
    <2>4. ASSUME NEW t \in 0..now' PROVE Served(ip, t - Window + 1, t)' <= KeysPerIP
        <3>1. t \in Int /\ t - Window + 1 \in Int /\ t \in 0..now
            BY <1>1
        <3> QED
            BY <1>1, <2>1, <2>2, <3>1 DEF Rationed
    <2> QED
        BY <2>3, <2>4 DEF Rationed
<1> QED
    BY <1>2 DEF KeyInv

\* Requests may end, and other requests go on.
LEMMA KeysFrame ==
    ASSUME KeyInv, history' = history, now' = now, issued' = issued,
           \A c \in Clients : job'[c].pc = "create" => job'[c] = job[c],
           \A k \in known' \ {0} : keys'[k].status # "none"
    PROVE  KeyInv'
<1>1. Waiting' \in SUBSET Waiting /\ \A c \in Waiting' : job'[c] = job[c]
    BY DEF Waiting
<1>2. KeyTypes'
    <2>1. IsFiniteSet(Waiting')
        BY <1>1, FS_Subset DEF KeyInv, KeyTypes
    <2> QED
        BY <1>1, <2>1 DEF KeyInv, KeyTypes
<1>3. Fewer
    <2>1. ASSUME NEW ip \in Ips, NEW from \in Int, NEW to \in Int
          PROVE  Served(ip, from, to)' <= Served(ip, from, to)
        <3>1. Given(ip, from, to)' = Given(ip, from, to)
            BY DEF Given
        <3>2. Due(ip, from, to)' \in SUBSET Due(ip, from, to)
            BY <1>1 DEF Due
        <3>3. Counted(ip, from, to) /\ Counted(ip, from, to)'
            BY <1>2, TakenIsCounted DEF KeyInv
        <3>4. Cardinality(Due(ip, from, to)') <= Cardinality(Due(ip, from, to))
            BY <3>2, <3>3, FS_Subset DEF Counted
        <3> QED
            BY <3>1, <3>3, <3>4 DEF Served, Counted
    <2> QED
        BY <2>1 DEF Fewer
<1> QED
    BY <1>2, <1>3, FewerKeeps

\* An admitted request is remembered, and there was room for it.
LEMMA KeysAsked ==
    ASSUME ApiInv, KeyInv, NEW c \in Clients, NEW ip \in Ips, RequestKey(c, ip),
           ~(Len(Recent(ip)) >= KeysPerIP)
    PROVE  KeyInv'
<1> DEFINE r == [Idle EXCEPT !.pc = "create", !.ip = ip, !.at = now]
           recent == Recent(ip)
<1>1. /\ job' = [job EXCEPT ![c] = r] /\ job[c].pc = "idle"
      /\ history' = [history EXCEPT ![ip] = Append(recent, now)]
      /\ UNCHANGED <<keys, known, now, issued>>
    BY DEF RequestKey, Begin, Work, apiHistory
<1>2. r.pc = "create" /\ r.ip = ip /\ r.at = now
    BY DEF Idle
<1>3. now \in Nat /\ Window \in Nat \ {0} /\ KeysPerIP \in Nat /\ history \in [Ips -> Seq(Nat)]
    BY ApiAssumption DEF KeyInv, KeyTypes, ApiAssumption
<1>4. /\ recent \in Seq(Nat) /\ Len(recent) = Since(recent, now - Window + 1)
      /\ \A from \in Int : from > now - Window => Since(recent, from) = Since(history[ip], from)
    <2>1. PICK times \in Seq(Nat), cutoff \in Int : times = history[ip] /\ cutoff = now - Window
        BY <1>3
    <2> QED
        BY <2>1, NewerKeeps DEF Recent
<1> HIDE DEF r, recent
<1>5. Len(recent) < KeysPerIP /\ Len(recent) \in Nat
    <2>1. Len(recent) \in Nat
        BY <1>4
    <2> QED
        BY <1>3, <2>1 DEF recent
<1>6. job'[c] = r /\ \A d \in Clients \ {c} : job'[d] = job[d]
    BY <1>1, SetJob DEF ApiInv, ApiTypes
<1>7. Waiting' = Waiting \cup {c} /\ c \notin Waiting /\ Waiting \subseteq Clients
    BY <1>1, <1>2, <1>6 DEF Waiting
<1>8. \A from \in Int : Since(Append(recent, now), from) =
                        Since(recent, from) + (IF now >= from THEN 1 ELSE 0)
    <2>1. PICK times \in Seq(Nat), x \in Nat : times = recent /\ x = now
        BY <1>3, <1>4
    <2>2. \A from \in Int : Since(Append(times, x), from) =
                            Since(times, from) + (IF x >= from THEN 1 ELSE 0)
        BY AppendedSince
    <2> QED
        BY <2>1, <2>2
<1>9. KeyTypes'
    <2>1. IsFiniteSet(Waiting')
        BY <1>7, FS_AddElement DEF KeyInv, KeyTypes
    <2>2. \A d \in Waiting' : job'[d].at \in 0..now
        BY <1>2, <1>3, <1>6, <1>7 DEF KeyInv, KeyTypes, Waiting
    <2>3. history' \in [Ips -> Seq(Nat)]
        <3>1. Append(recent, now) \in Seq(Nat)
            BY <1>3, <1>4
        <3> QED
            BY <1>1, <1>3, <3>1
    <2> QED
        BY <1>1, <1>3, <2>1, <2>2, <2>3 DEF KeyInv, KeyTypes
<1>10. \A i, from, to : Counted(i, from, to) /\ Counted(i, from, to)' /\ Given(i, from, to)' = Given(i, from, to)
    <2>1. \A i, from, to : Given(i, from, to)' = Given(i, from, to)
        BY <1>1 DEF Given
    <2>2. \A i, from, to : Counted(i, from, to) /\ Counted(i, from, to)'
        BY <1>9, TakenIsCounted DEF KeyInv
    <2> QED
        BY <2>1, <2>2
<1>11. \A from, to \in Int : Served(ip, from, to)' = Served(ip, from, to) + (IF now \in from..to THEN 1 ELSE 0)
    <2>1. ASSUME NEW from \in Int, NEW to \in Int
          PROVE  Served(ip, from, to)' = Served(ip, from, to) + (IF now \in from..to THEN 1 ELSE 0)
        <3>1. Due(ip, from, to)' = IF now \in from..to THEN Due(ip, from, to) \cup {c} ELSE Due(ip, from, to)
            <4>1. CASE now \in from..to
                BY <1>2, <1>6, <1>7, <4>1 DEF Due
            <4>2. CASE now \notin from..to
                BY <1>2, <1>6, <1>7, <4>2 DEF Due
            <4> QED
                BY <4>1, <4>2
        <3>2. c \notin Due(ip, from, to)
            BY <1>7 DEF Due
        <3>3. Counted(ip, from, to) /\ Given(ip, from, to)' = Given(ip, from, to)
            BY <1>10
        <3>4. Cardinality(Due(ip, from, to) \cup {c}) = Cardinality(Due(ip, from, to)) + 1
            BY <3>2, <3>3, FS_AddElement DEF Counted
        <3> QED
            BY <3>1, <3>3, <3>4 DEF Served, Counted
    <2> QED
        BY <2>1
<1>12. \A i \in Ips \ {ip} : \A from, to : Served(i, from, to)' = Served(i, from, to)
    <2>1. \A i \in Ips \ {ip} : \A from, to : Due(i, from, to)' = Due(i, from, to)
        BY <1>2, <1>6, <1>7 DEF Due
    <2> QED
        BY <1>10, <2>1 DEF Served
<1>13. ASSUME NEW i \in Ips, i # ip PROVE Rationed(i)'
    <2>1. history'[i] = history[i] /\ now' = now /\ Rationed(i)
        BY <1>1, <1>3, <1>13 DEF KeyInv
    <2> QED
        BY <1>12, <1>13, <2>1 DEF Rationed
<1>14. Rationed(ip)'
    <2>0. PICK n : n = now
        OBVIOUS
    <2>1. history'[ip] = Append(recent, now) /\ now' = now /\ Rationed(ip)
        BY <1>1, <1>3 DEF KeyInv
    <2>2. \A from, to \in Int : Served(ip, from, to) \in Nat
        BY <1>10 DEF Counted
    <2>3. \A from \in Int : Since(recent, from) \in Nat
        BY <1>4, SinceIsNat
    <2>4. ASSUME NEW from \in Int, from > n - Window
          PROVE  Served(ip, from, n)' <= Since(Append(recent, now), from)
        <3>1. Served(ip, from, n) <= Since(recent, from)
            BY <1>4, <2>0, <2>1, <2>4 DEF Rationed
        <3>2. n \in Int /\ (n \in from..n <=> n >= from)
            BY <1>3, <2>0
        <3>3. Since(Append(recent, now), from) = Since(recent, from) + (IF n >= from THEN 1 ELSE 0)
            BY <1>8, <2>0
        <3>4. Served(ip, from, n)' = Served(ip, from, n) + (IF n \in from..n THEN 1 ELSE 0)
            BY <1>11, <2>0, <3>2
        <3>5. Served(ip, from, n) \in Nat /\ Since(recent, from) \in Nat
            BY <2>2, <2>3, <3>2
        <3> QED
            BY <3>1, <3>2, <3>3, <3>4, <3>5
    <2>5. ASSUME NEW t \in 0..n PROVE Served(ip, t - Window + 1, t)' <= KeysPerIP
        <3>1. t \in Nat /\ n \in Nat /\ t <= n /\ t \in Int /\ t - Window + 1 \in Int
            BY <1>3, <2>0
        <3>0. PICK from \in Int : from = t - Window + 1
            BY <3>1
        <3>2. Served(ip, from, t)' = Served(ip, from, t) + (IF n \in from..t THEN 1 ELSE 0)
            BY <1>11, <2>0, <3>1
        <3>3. Served(ip, from, t) \in Nat
            BY <2>2, <3>1
        <3>4. ASSUME t = n PROVE Served(ip, from, t)' <= KeysPerIP
            <4>1. from > n - Window /\ from = n - Window + 1
                BY <1>3, <3>0, <3>1, <3>4
            <4>2. Served(ip, from, t) <= Since(recent, from)
                BY <1>4, <2>0, <2>1, <3>4, <4>1 DEF Rationed
            <4>3. Since(recent, from) = Len(recent)
                BY <1>4, <2>0, <4>1
            <4> QED
                BY <1>3, <1>5, <3>2, <3>3, <4>2, <4>3
        <3>5. ASSUME t # n PROVE Served(ip, from, t)' <= KeysPerIP
            <4>1. n \notin from..t
                BY <1>3, <3>0, <3>1, <3>5
            <4>2. Served(ip, from, t) <= KeysPerIP
                BY <2>0, <2>1, <3>0 DEF Rationed
            <4> QED
                BY <3>2, <3>3, <4>1, <4>2
        <3>6. Served(ip, from, t)' <= KeysPerIP
            BY <3>4, <3>5
        <3> QED
            BY <3>0, <3>6
    <2> QED
        BY <2>0, <2>1, <2>4, <2>5 DEF Rationed
<1> QED
    BY <1>9, <1>13, <1>14 DEF KeyInv

\* A request that is answered with a key no longer waits for it.
LEMMA KeysCreated ==
    ASSUME ApiInv, KeyInv, NEW c \in Clients, CreateKey(c) PROVE KeyInv'
<1>1. PICK k \in Keys \ {0} :
          /\ keys' = [keys EXCEPT ![k].status = "active"]
          /\ issued' = issued \cup {[key |-> k, ip |-> job[c].ip, at |-> job[c].at]}
          /\ known' \subseteq known \cup {k}
    BY DEF CreateKey
<1> DEFINE new == [key |-> k, ip |-> job[c].ip, at |-> job[c].at]
<1>2. /\ job' = [job EXCEPT ![c] = Idle] /\ history' = history /\ now' = now
      /\ c \in Waiting
    BY DEF CreateKey, Work, Waiting
<1>3. job'[c] = Idle /\ \A d \in Clients \ {c} : job'[d] = job[d]
    BY <1>2, SetJob DEF ApiInv, ApiTypes
<1>4. Waiting' = Waiting \ {c} /\ Waiting \subseteq Clients
    BY <1>3, IdleIsJob DEF Waiting
<1>5. KeyTypes'
    <2>1. IsFiniteSet(Waiting') /\ IsFiniteSet(issued')
        BY <1>1, <1>4, FS_RemoveElement, FS_AddElement DEF KeyInv, KeyTypes
    <2>2. \A i \in issued' : i.at \in 0..now
        BY <1>1, <1>2 DEF KeyInv, KeyTypes
    <2>3. \A d \in Waiting' : job'[d].at \in 0..now
        BY <1>3, <1>4 DEF KeyInv, KeyTypes, Waiting
    <2>4. \A q \in known' \ {0} : keys'[q].status # "none"
        <3>1. keys \in [Keys -> [status: {"none", "active", "revoked"}, after: [Clients -> Nat]]]
              /\ known \subseteq Keys
            BY DEF ApiInv, ApiTypes
        <3>2. keys'[k].status = "active" /\ \A q \in Keys \ {k} : keys'[q] = keys[q]
            BY <1>1, <3>1
        <3> QED
            BY <1>1, <3>1, <3>2 DEF KeyInv, KeyTypes
    <2> QED
        BY <1>2, <2>1, <2>2, <2>3, <2>4 DEF KeyInv, KeyTypes
<1>6. Fewer
    <2>1. ASSUME NEW ip \in Ips, NEW from \in Int, NEW to \in Int
          PROVE  Served(ip, from, to)' <= Served(ip, from, to)
        <3>1. Counted(ip, from, to) /\ Counted(ip, from, to)'
            BY <1>5, TakenIsCounted DEF KeyInv
        <3>2. CASE job[c].ip = ip /\ job[c].at \in from..to
            <4>1. Given(ip, from, to)' = Given(ip, from, to) \cup {new}
                BY <1>1, <3>2 DEF Given
            <4>2. Due(ip, from, to)' = Due(ip, from, to) \ {c} /\ c \in Due(ip, from, to)
                BY <1>2, <1>3, <1>4, <3>2 DEF Due
            <4>3. Cardinality(Given(ip, from, to)') <= Cardinality(Given(ip, from, to)) + 1
                <5>1. PICK S, x : S = Given(ip, from, to) /\ x = new
                    OBVIOUS
                <5>2. IsFiniteSet(S) /\ Cardinality(S) \in Nat /\ Given(ip, from, to)' = S \cup {x}
                    BY <3>1, <4>1, <5>1 DEF Counted
                <5>3. Cardinality(S \cup {x}) = IF x \in S THEN Cardinality(S) ELSE Cardinality(S) + 1
                    BY <5>2, FS_AddElement
                <5> QED
                    BY <5>1, <5>2, <5>3
            <4>4. Cardinality(Due(ip, from, to)') = Cardinality(Due(ip, from, to)) - 1
                BY <3>1, <4>2, FS_RemoveElement DEF Counted
            <4> QED
                BY <3>1, <4>3, <4>4 DEF Served, Counted
        <3>3. CASE ~(job[c].ip = ip /\ job[c].at \in from..to)
            <4>1. Given(ip, from, to)' = Given(ip, from, to)
                BY <1>1, <3>3 DEF Given
            <4>2. Due(ip, from, to)' = Due(ip, from, to)
                BY <1>3, <1>4, <3>3 DEF Due
            <4> QED
                BY <3>1, <4>1, <4>2 DEF Served, Counted
        <3> QED
            BY <3>2, <3>3
    <2> QED
        BY <2>1 DEF Fewer
<1> QED
    BY <1>2, <1>5, <1>6, FewerKeeps

\* The window moves on: it has nothing new.
LEMMA KeysTick == ASSUME KeyInv, Tick PROVE KeyInv'
<1>1. now' = now + 1 /\ UNCHANGED <<keys, known, history, job, issued>>
    BY DEF Tick, apiHistory
<1>2. /\ now \in Nat /\ Window \in Nat \ {0} /\ KeysPerIP \in Nat
      /\ \A i \in issued : i.at \in 0..now /\ \A c \in Waiting : job[c].at \in 0..now
    BY ApiAssumption DEF KeyInv, KeyTypes, ApiAssumption
<1>3. Waiting' = Waiting
    BY <1>1 DEF Waiting
<1>4. KeyTypes'
    <2>1. \A x \in 0..now : x \in 0..now'
        BY <1>1, <1>2
    <2>2. \A c \in Waiting : job[c].at \in 0..now
        BY DEF KeyInv, KeyTypes
    <2>3. \A i \in issued : i.at \in 0..now
        BY DEF KeyInv, KeyTypes
    <2> QED
        BY <1>1, <1>2, <1>3, <2>1, <2>2, <2>3 DEF KeyInv, KeyTypes
<1>5. ASSUME NEW ip \in Ips PROVE Rationed(ip)'
    <2>1. PICK n \in Nat : n = now /\ now' = n + 1
        BY <1>1, <1>2
    <2>2. \A from, to : Served(ip, from, to)' = Served(ip, from, to)
        BY <1>1, <1>3 DEF Served, Given, Due
    <2>3. \A from \in Int : Served(ip, from, n + 1) = Served(ip, from, n)
        <3>1. ASSUME NEW from \in Int PROVE Served(ip, from, n + 1) = Served(ip, from, n)
            <4>1. \A x \in 0..n : x \in from..n+1 <=> x \in from..n
                BY <2>1
            <4>2. (\A i \in issued : i.at \in 0..n) /\ \A c \in Waiting : job[c].at \in 0..n
                BY <2>1 DEF KeyInv, KeyTypes
            <4>3. Given(ip, from, n + 1) = Given(ip, from, n) /\ Due(ip, from, n + 1) = Due(ip, from, n)
                BY <4>1, <4>2 DEF Given, Due
            <4> QED
                BY <4>3 DEF Served
        <3> QED
            BY <3>1
    <2>4. /\ \A from \in Int : from > n - Window => Served(ip, from, n) <= Since(history[ip], from)
          /\ \A t \in 0..n : Served(ip, t - Window + 1, t) <= KeysPerIP
        BY <2>1 DEF KeyInv, Rationed
    <2>5. PICK m : m = now' /\ m = n + 1
        BY <2>1
    <2>6. ASSUME NEW from \in Int, from > m - Window
          PROVE  Served(ip, from, m)' <= Since(history'[ip], from)
        <3>1. from > n - Window
            BY <1>2, <2>5, <2>6
        <3>2. Served(ip, from, m)' = Served(ip, from, m) /\ Served(ip, from, m) = Served(ip, from, n)
            BY <2>2, <2>3, <2>5
        <3> QED
            BY <1>1, <2>4, <3>1, <3>2
    <2>7. ASSUME NEW t \in 0..m PROVE Served(ip, t - Window + 1, t)' <= KeysPerIP
        <3>1. CASE t = n + 1
            <4>1. PICK from \in Int : from = t - Window + 1
                BY <1>2
            <4>2. from - 1 = n - Window + 1 /\ from > n - Window /\ from - 1 \in Int
                BY <1>2, <3>1, <4>1
            <4>3. Served(ip, from - 1, n) <= KeysPerIP
                BY <2>4, <4>2
            <4>4. Served(ip, from, n) <= Served(ip, from - 1, n)
                <5>1. from..n \subseteq from-1..n
                    OBVIOUS
                <5>2. Given(ip, from, n) \in SUBSET Given(ip, from - 1, n)
                    BY <5>1 DEF Given
                <5>3. Due(ip, from, n) \in SUBSET Due(ip, from - 1, n)
                    BY <5>1 DEF Due
                <5>4. Counted(ip, from, n) /\ Counted(ip, from - 1, n)
                    BY TakenIsCounted DEF KeyInv
                <5>5. Cardinality(Given(ip, from, n)) <= Cardinality(Given(ip, from - 1, n))
                    BY <5>2, <5>4, FS_Subset DEF Counted
                <5>6. Cardinality(Due(ip, from, n)) <= Cardinality(Due(ip, from - 1, n))
                    BY <5>3, <5>4, FS_Subset DEF Counted
                <5> QED
                    BY <5>4, <5>5, <5>6 DEF Served, Counted
            <4>5. Served(ip, from, n) \in Nat /\ Served(ip, from - 1, n) \in Nat
                BY TakenIsCounted DEF KeyInv, Counted
            <4>6. Served(ip, from, t)' = Served(ip, from, n)
                BY <2>2, <2>3, <3>1
            <4>7. Served(ip, from, t)' <= KeysPerIP
                BY <1>2, <4>3, <4>4, <4>5, <4>6
            <4> QED
                BY <4>1, <4>7
        <3>2. CASE t # n + 1
            <4>1. t \in 0..n
                BY <2>5, <3>2
            <4> QED
                BY <2>2, <2>4, <4>1
        <3> QED
            BY <3>1, <3>2
    <2> QED
        BY <2>5, <2>6, <2>7 DEF Rationed
<1> QED
    BY <1>4, <1>5 DEF KeyInv

\* A restart forgets the keys with the history.
LEMMA KeysRestart == ASSUME KeyInv, Restart PROVE KeyInv'
<1>1. /\ job' = [c \in Clients |-> Idle] /\ history' = [i \in Ips |-> <<>>] /\ issued' = {}
      /\ UNCHANGED <<keys, known, now>>
    BY DEF Restart
<1>2. Waiting' = {}
    BY <1>1, IdleIsJob DEF Waiting
<1>3. KeyTypes'
    BY <1>1, <1>2, FS_EmptySet DEF KeyInv, KeyTypes
<1>4. \A ip, from, to : Served(ip, from, to)' = 0
    BY <1>1, <1>2, FS_EmptySet DEF Served, Given, Due
<1>5. KeysPerIP \in Nat /\ Window \in Nat
    BY ApiAssumption DEF ApiAssumption
<1>6. \A ip \in Ips : \A from : Since(history'[ip], from) \in Nat
    BY <1>3, SinceIsNat DEF KeyTypes
<1>7. PICK n : n = now'
    OBVIOUS
<1>8. ASSUME NEW ip \in Ips PROVE Rationed(ip)'
    <2>1. \A from \in Int : Served(ip, from, n)' <= Since(history'[ip], from)
        BY <1>4, <1>6, <1>8
    <2>2. \A t \in 0..n : Served(ip, t - Window + 1, t)' <= KeysPerIP
        BY <1>4, <1>5
    <2> QED
        BY <1>7, <2>1, <2>2 DEF Rationed
<1> QED
    BY <1>3, <1>8 DEF KeyInv

LEMMA KeyStep == ApiInv /\ KeyInv /\ [ServerNext]_<<vars, resultVars, benching>> => KeyInv'
<1> SUFFICES ASSUME ApiInv, KeyInv, [ServerNext]_<<vars, resultVars, benching>> PROVE KeyInv'
    OBVIOUS
<1>0. \A k \in known \ {0} : keys[k].status # "none"
    BY DEF KeyInv, KeyTypes
<1>1. CASE UNCHANGED <<history, now, issued, job, known, keys>>
    BY <1>0, <1>1, KeysFrame
<1>2. ASSUME NEW c \in Clients, NEW r, job' = [job EXCEPT ![c] = r], r.pc # "create",
             UNCHANGED <<history, now, issued, known, keys>>
      PROVE  KeyInv'
    <2>1. job'[c] = r /\ \A d \in Clients \ {c} : job'[d] = job[d]
        BY <1>2, SetJob DEF ApiInv, ApiTypes
    <2> QED
        BY <1>0, <1>2, <2>1, KeysFrame
<1>3. Idle.pc # "create"
    BY IdleIsJob
<1>4. CASE Next
    <2>1. ASSUME NEW c \in Clients, NEW ip \in Ips, RequestKey(c, ip) PROVE KeyInv'
        <3>1. CASE Len(Recent(ip)) >= KeysPerIP
            BY <1>2, <1>3, <2>1, <3>1 DEF RequestKey, Begin, Work, apiHistory
        <3> QED
            BY <2>1, <3>1, KeysAsked
    <2>2. ASSUME NEW c \in Clients, RefuseKey(c) \/ Unauthorized(c) \/ AnswerBatch(c) \/ Ingest(c)
          PROVE  KeyInv'
        <3>1. /\ job' = [job EXCEPT ![c] = Idle]
              /\ UNCHANGED <<history, now, issued, known, keys>>
            BY <2>2 DEF RefuseKey, Unauthorized, AnswerBatch, Ingest, Begin, Work, apiHistory
        <3> QED
            BY <1>2, <1>3, <3>1
    <2>3. ASSUME NEW c \in Clients, CreateKey(c) PROVE KeyInv'
        BY <2>3, KeysCreated
    <2>4. ASSUME NEW c \in Clients, NEW k \in known, NEW body \in Bodies, Send(c, k, body)
          PROVE  KeyInv'
        <3> DEFINE ids == [i \in 1..Len(body) |-> EntryId(body[i])]
                   r == [Idle EXCEPT !.pc = "save", !.key = k, !.todo = ids, !.sent = ToSet(ids)]
        <3>1. r.pc = "save"
            BY DEF Idle
        <3>2. job' = [job EXCEPT ![c] = r] /\ UNCHANGED <<history, now, issued, known, keys>>
            BY <2>4 DEF Send, Begin, Work, apiHistory
        <3> HIDE DEF r
        <3> QED
            BY <1>2, <3>1, <3>2
    <2>5. ASSUME NEW c \in Clients, NEW k \in known, NEW hook \in {"prescribe", "report"},
                 NEW o \in Operations, NEW i \in Idems \cup {0}, Webhook(c, k, hook, o, i)
          PROVE  KeyInv'
        <3> DEFINE r == [Idle EXCEPT !.pc = "ingest", !.key = k, !.hook = hook, !.op = o,
                                     !.idem = i, !.began = Len(entries)]
        <3>1. r.pc = "ingest"
            BY DEF Idle
        <3>2. job' = [job EXCEPT ![c] = r] /\ UNCHANGED <<history, now, issued, known, keys>>
            BY <2>5 DEF Webhook, Begin, Work, apiHistory
        <3> HIDE DEF r
        <3> QED
            BY <1>2, <3>1, <3>2
    <2>6. ASSUME NEW c \in Clients, NEW k \in known, Replay(c, k) PROVE KeyInv'
        <3> DEFINE r == [Idle EXCEPT !.pc = "count", !.key = k, !.before = Newest(k)]
        <3>1. r.pc = "count"
            BY DEF Idle
        <3>2. job' = [job EXCEPT ![c] = r] /\ UNCHANGED <<history, now, issued, known, keys>>
            BY <2>6 DEF Replay, Begin, Work, apiHistory
        <3> HIDE DEF r
        <3> QED
            BY <1>2, <3>1, <3>2
    <2>7. ASSUME NEW c \in Clients, Count(c) PROVE KeyInv'
        <3> DEFINE r == [job[c] EXCEPT !.pc = "page", !.total = Len(Newest(job[c].key))]
        <3>1. r.pc = "page"
            BY DEF ApiInv, JobOK, IsJob
        <3>2. job' = [job EXCEPT ![c] = r] /\ UNCHANGED <<history, now, issued, known, keys>>
            BY <2>7 DEF Count, Work, apiHistory
        <3> HIDE DEF r
        <3> QED
            BY <1>2, <3>1, <3>2
    <2>8. ASSUME NEW c \in Clients, Page(c) PROVE KeyInv'
        <3>1. PICK all : \/ job' = [job EXCEPT ![c] = Idle]
                         \/ job' = [job EXCEPT ![c] = [job[c] EXCEPT !.pc = "count", !.all = all]]
            BY <2>8 DEF Page, Work
        <3> DEFINE r == [job[c] EXCEPT !.pc = "count", !.all = all]
        <3>2. r.pc = "count"
            BY DEF ApiInv, JobOK, IsJob
        <3>3. UNCHANGED <<history, now, issued, known, keys>>
            BY <2>8 DEF Page
        <3>4. job' = [job EXCEPT ![c] = Idle] \/ job' = [job EXCEPT ![c] = r]
            BY <3>1
        <3> HIDE DEF r
        <3> QED
            BY <1>2, <1>3, <3>2, <3>3, <3>4
    <2>9. ASSUME NEW c \in Clients, SaveRaw(c) PROVE KeyInv'
        <3>1. PICK todo, accepted :
                  job' = [job EXCEPT ![c] = [job[c] EXCEPT !.todo = todo, !.accepted = accepted]]
            BY <2>9 DEF SaveRaw, Work
        <3> DEFINE r == [job[c] EXCEPT !.todo = todo, !.accepted = accepted]
        <3>2. r.pc = "save"
            BY <2>9 DEF ApiInv, JobOK, IsJob, SaveRaw
        <3>3. UNCHANGED <<history, now, issued, known, keys>>
            BY <2>9 DEF SaveRaw, apiHistory
        <3>4. job' = [job EXCEPT ![c] = r]
            BY <3>1
        <3> HIDE DEF r
        <3> QED
            BY <1>2, <3>2, <3>3, <3>4
    <2>10. ASSUME NEW k \in Keys, RevokeKey(k) PROVE KeyInv'
        <3>1. UNCHANGED <<history, now, issued, known, job>> /\
              keys' = [keys EXCEPT ![k] = [status |-> "revoked", after |-> calls]]
            BY <2>10 DEF RevokeKey, apiHistory
        <3>2. \A q \in known \ {0} : keys'[q].status # "none"
            BY <1>0, <3>1 DEF ApiInv, ApiTypes
        <3> QED
            BY <3>1, <3>2, KeysFrame
    <2>11. CASE Restart
        BY <2>11, KeysRestart
    <2>12. CASE Tick
        BY <2>12, KeysTick
    <2> QED
        BY <1>4, <2>1, <2>2, <2>3, <2>4, <2>5, <2>6, <2>7, <2>8, <2>9, <2>10, <2>11, <2>12 DEF Next
<1> QED
    BY <1>1, <1>4 DEF ServerNext, vars, apiHistory

\* KeysSound: the server's state is typed, and no address is given more than its
\* number of keys in any window (internal/api/keys_handler.go).
THEOREM KeysAreSound == ServerSpec => []KeysSound
<1>1. ServerInit => ApiInv /\ KeyInv
    BY InitApi, InitKeys DEF ServerInit
<1>2. ApiInv /\ KeyInv /\ [ServerNext]_<<vars, resultVars, benching>> => (ApiInv /\ KeyInv)'
    BY ApiStep, KeyStep
<1>3. ApiInv /\ KeyInv => KeysSound
    <2> SUFFICES ASSUME ApiInv, KeyInv PROVE KeysSound
        OBVIOUS
    <2>1. TypeOK
        <3>1. \A c \in Clients : /\ job[c].pc \in Steps /\ job[c].key \in Keys
                                 /\ ToSet(job[c].todo) \cup job[c].accepted \subseteq Ids
            BY DEF ApiInv, JobOK, IsJob, ToSet
        <3>2. \A k \in 1..Len(entries) : entries[k].id \in Ids /\ entries[k].tenant \in Keys
            <4>1. \A k \in 1..Len(entries) : entries[k] \in EntryType
                BY DEF ApiInv, ApiTypes
            <4> QED
                BY <4>1 DEF EntryType
        <3> QED
            BY <3>1, <3>2 DEF TypeOK, ApiInv, ApiTypes, KeyInv, KeyTypes
    <2>2. ASSUME NEW ip \in Ips, NEW t \in 0..now
          PROVE  Cardinality({i \in issued : i.ip = ip /\ i.at \in t-Window+1..t}) <= KeysPerIP
        <3>1. PICK from \in Int : from = t - Window + 1
            BY ApiAssumption DEF KeyInv, KeyTypes, ApiAssumption
        <3>2. Served(ip, from, t) <= KeysPerIP
            BY <3>1 DEF KeyInv, Rationed
        <3>3. Counted(ip, from, t) /\ KeysPerIP \in Nat
            BY TakenIsCounted, ApiAssumption DEF KeyInv, ApiAssumption
        <3>4. Cardinality(Given(ip, from, t)) <= KeysPerIP
            BY <3>2, <3>3 DEF Served, Counted
        <3> QED
            BY <3>1, <3>4 DEF Given
    <2> QED
        BY <2>1, <2>2 DEF KeysSound, KeysLimited
<1> QED
    BY <1>1, <1>2, <1>3, PTL DEF ServerSpec

=============================================================================
