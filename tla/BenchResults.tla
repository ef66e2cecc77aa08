---------------------------- MODULE BenchResults ----------------------------
(***************************************************************************)
(* Benchmark results (bench_runs, bench_artifacts): one run or a batch is  *)
(* inserted with its artifacts in one READ COMMITTED transaction, and runs *)
(* are deleted and archived by single statements.                          *)
(*                                                                         *)
(* The id of a run is the primary key of all tenants together.  An INSERT of*)
(* an id that an open transaction has inserted waits for it to end; of     *)
(* transactions that wait in a circle PostgreSQL rolls one back.           *)
(***************************************************************************)
EXTENDS Naturals, Sequences, FiniteSets

CONSTANTS
    Uploaders,      \* clients, one request at a time
    Tenants,
    Runs, NoRun,    \* run ids; NoRun: no such row
    Types,          \* artifacts a run may have: transcript, tool_calls
    Uploads,        \* batches: sequences of run ids
    MaxUploads,     \* bound: requests
    MaxUploadFaults \* bound: failed statements and commits without an answer

ASSUME ResultsAssumption ==
    /\ NoRun \notin [tenant : Tenants, by : Nat, archived : BOOLEAN]
    /\ Uploads \subseteq Seq(Runs) /\ <<>> \notin Uploads
    /\ {MaxUploads, MaxUploadFaults} \subseteq Nat

VARIABLES
    runs,       \* bench_runs
    artifacts,  \* bench_artifacts: artifacts[r] holds which request sent each
    uploads,    \* history: the requests, a number each
    tx,         \* tx[c]: the transaction of c
    imported,   \* history: runs each committed request inserted
    uploadFaults

resultVars == <<runs, artifacts, uploads, tx, imported, uploadFaults>>

NoTx == [req |-> 0, todo |-> <<>>, rows |-> {}, extra |-> {}]

ResultsInit ==
    /\ runs = [r \in Runs |-> NoRun] /\ artifacts = [r \in Runs |-> {}]
    /\ uploads = <<>> /\ tx = [c \in Uploaders |-> NoTx]
    /\ imported = {} /\ uploadFaults = 0

UploadFault == uploadFaults < MaxUploadFaults /\ uploadFaults' = uploadFaults + 1
HasRun(r) == runs[r] # NoRun
Request(c) == uploads[tx[c].req]
Artifacts(r, n) == {[run |-> r, type |-> t, by |-> n] : t \in uploads[n].types}

\* IngestRun: one run, and its id must be new.  IngestRunBatch: any number.
Upload(c, t, single, body, types) ==
    /\ tx[c].req = 0 /\ Len(uploads) < MaxUploads
    /\ single => Len(body) = 1
    /\ uploads' = Append(uploads, [tenant |-> t, single |-> single, runs |-> body,
                                   types |-> types])
    /\ tx' = [tx EXCEPT ![c] = [req |-> Len(uploads) + 1, todo |-> body,
                                rows |-> {}, extra |-> {}]]
    /\ UNCHANGED <<runs, artifacts, imported, uploadFaults>>

\* Whose open transaction an INSERT of c waits for.
WaitsFor(c) ==
    {d \in Uploaders \ {c} : tx[c].todo # <<>> /\ Head(tx[c].todo) \in tx[d].rows}
Taken(c, r) == HasRun(r) \/ r \in tx[c].rows

\* ON CONFLICT DO NOTHING: a run that is there keeps what it has.
StoreAnyway(r, n) == Artifacts(r, n)
Skipped(r, n) == {}
InsertRun(c) ==
    /\ tx[c].todo # <<>> /\ WaitsFor(c) = {}
    /\ LET r == Head(tx[c].todo) n == tx[c].req
           Done(rows, extra) ==
               tx' = [tx EXCEPT ![c] = [req |-> n, todo |-> Tail(@.todo),
                                        rows |-> @.rows \cup rows, extra |-> @.extra \cup extra]]
       IN  IF ~Taken(c, r) THEN Done({r}, Artifacts(r, n))
           ELSE IF Request(c).single THEN tx' = [tx EXCEPT ![c] = NoTx]
           ELSE Done({}, Skipped(r, n))
    /\ UNCHANGED <<runs, artifacts, uploads, imported, uploadFaults>>

\* A statement fails, or the server ends, or this transaction is the one that
\* breaks a circle: nothing of it remains.
InCircle(c) ==
    \E S \in SUBSET Uploaders :
        c \in S /\ \A d \in S : \E e \in S : d \in WaitsFor(e) /\ WaitsFor(d) \subseteq S
Rollback(c) ==
    /\ tx[c].req # 0 /\ tx' = [tx EXCEPT ![c] = NoTx]
    /\ IF InCircle(c) THEN UNCHANGED uploadFaults ELSE UploadFault
    /\ UNCHANGED <<runs, artifacts, uploads, imported>>

\* An upsert of the artifacts beside the inserted rows.
Upserted(c, r) ==
    LET own == {a \in tx[c].extra : a.run = r}
    IN  {a \in artifacts[r] : \A b \in own : b.type # a.type} \cup own
Commit(c) ==
    /\ tx[c].req # 0 /\ tx[c].todo = <<>>
    /\ runs' = [r \in Runs |-> IF r \in tx[c].rows
                               THEN [tenant |-> Request(c).tenant, by |-> tx[c].req,
                                     archived |-> FALSE]
                               ELSE runs[r]]
    /\ artifacts' = [r \in Runs |-> IF runs'[r] = NoRun THEN {} ELSE Upserted(c, r)]
    /\ imported' = imported \cup {[req |-> tx[c].req, rows |-> tx[c].rows]}
    /\ tx' = [tx EXCEPT ![c] = NoTx]
    /\ UNCHANGED <<uploads, uploadFaults>>

\* The artifacts go with their run.
DeleteRun(t, r) ==
    /\ HasRun(r) /\ runs[r].tenant = t
    /\ runs' = [runs EXCEPT ![r] = NoRun] /\ artifacts' = [artifacts EXCEPT ![r] = {}]
    /\ UNCHANGED <<uploads, tx, imported, uploadFaults>>
\* By ids, by model or by time: any of the tenant's runs, at least one.
ArchiveRuns(t, ids) ==
    /\ \E r \in ids : HasRun(r) /\ runs[r].tenant = t /\ ~runs[r].archived
    /\ runs' = [r \in Runs |-> IF r \in ids /\ HasRun(r) /\ runs[r].tenant = t
                               THEN [runs[r] EXCEPT !.archived = TRUE] ELSE runs[r]]
    /\ UNCHANGED <<artifacts, uploads, tx, imported, uploadFaults>>
\* What a tenant can read: archived runs are not listed but can be read by id.
GetArtifact(t, r) == IF HasRun(r) /\ runs[r].tenant = t THEN artifacts[r] ELSE {}

ResultsNext ==
    \/ \E c \in Uploaders :
          \/ \E t \in Tenants, single \in BOOLEAN, body \in Uploads, types \in SUBSET Types :
                Upload(c, t, single, body, types)
          \/ InsertRun(c) \/ Rollback(c) \/ Commit(c)
    \/ \E t \in Tenants, r \in Runs : DeleteRun(t, r)
    \/ \E t \in Tenants, ids \in SUBSET Runs : ArchiveRuns(t, ids)

-----------------------------------------------------------------------------
\* "IngestRun atomically inserts a run and its artifacts", and a batch too: a run
\* has exactly the artifacts of the request that inserted it, however requests
\* interleave, repeat and fail; what a tenant reads it has sent; and a batch that
\* committed left none of its runs out, or another request had it stored.
RunsWhole ==
    /\ \A r \in Runs :
          artifacts[r] = IF HasRun(r) THEN Artifacts(r, runs[r].by) ELSE {}
    /\ \A t \in Tenants, r \in Runs : \A a \in GetArtifact(t, r) : uploads[a.by].tenant = t
    /\ \A i \in imported : \A k \in 1..Len(uploads[i.req].runs) :
          \E j \in imported : uploads[i.req].runs[k] \in j.rows

=============================================================================
