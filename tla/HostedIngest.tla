---------------------------- MODULE HostedIngest ----------------------------
(***************************************************************************)
(* The hosted ingest service (internal/ingest) over PostgreSQL, for one     *)
(* tenant.  A request runs in one READ COMMITTED transaction: claim the     *)
(* idempotency key, resolve the prescription of a report, read the last     *)
(* hash, insert the entry, finalize the claim, commit.                      *)
(*                                                                          *)
(* INSERT ... ON CONFLICT DO NOTHING waits for an uncommitted claim of the  *)
(* same key; a rolled back one is as if it had never been.  created_at is   *)
(* the time the transaction began.  A transaction holds a connection of the *)
(* pool from Begin to the end, and resolving a prescription takes a second  *)
(* one for the length of the query.                                         *)
(***************************************************************************)
EXTENDS Naturals, Sequences, FiniteSets

CONSTANTS
    MaxRequests,  \* bound: requests, retries included
    Keys, NoKey,  \* idempotency keys; NoKey: the request carries no claim
    NoClaim,      \* no webhook_events row
    Kinds,        \* subset of {"prescribe", "report"}
    SoftReports,  \* may a report be translated evidence (webhook service)?
    Conns,        \* pool size
    MaxFaults     \* bound: failed calls, lost commits, crashes

ASSUME IngestAssumption ==
    /\ MaxRequests \in Nat /\ MaxFaults \in Nat /\ Conns \in Nat \ {0}
    /\ NoKey \notin Keys /\ NoClaim \notin 0..MaxRequests
    /\ Kinds \subseteq {"prescribe", "report"}
    /\ SoftReports \subseteq BOOLEAN

VARIABLES
    rows,     \* committed evidence_entries, in commit order
    claims,   \* claims[k]: result_entry_id of the committed webhook_events row
    pc, tx,   \* each request's step, and its input and transaction state
    clock,    \* transactions begun
    arrived,  \* requests received
    acked,    \* ids of entries some client knows to be stored
    faults

vars == <<rows, claims, pc, tx, clock, arrived, acked, faults>>

-----------------------------------------------------------------------------
\* A request's number is also the ULID of the entry it builds.
Id      == 1..MaxRequests
NoHash  == 0
Row     == [id: Id, prev: Id \cup {NoHash}, at: Nat, kind: Kinds, key: Keys \cup {NoKey},
            ref: Id \cup {0}, soft: BOOLEAN]
Request == [kind: {"prescribe", "report"}, key: Keys \cup {NoKey}, ref: Id \cup {0},
            soft: BOOLEAN, at: Nat, prev: Id \cup {NoHash}, result: Id \cup {0}]
NoRequest == [kind |-> "prescribe", key |-> NoKey, ref |-> 0, soft |-> FALSE,
              at |-> 0, prev |-> NoHash, result |-> 0]

Working == {"claim", "duplicate", "resolve", "hash", "save", "commit"}
Claimed == {"resolve", "hash", "save", "commit"}
Ended   == {"accepted", "duplicate_ok", "refused", "failed", "missing"}

\* pgxpool: connections that no transaction holds.
LeakOnDuplicate(r) == pc[r] \in Working \cup {"duplicate_ok"}
InTx(r) == pc[r] \in Working
Free == Conns - Cardinality({r \in Id : InTx(r)})

\* The uncommitted webhook_events row of another transaction.
NeverBlocked(r) == FALSE
Blocked(r) == \E q \in Id \ {r} : pc[q] \in Claimed /\ tx[q].key = tx[r].key

Stored == {rows[i].id : i \in 1..Len(rows)}
RowOf(id) == rows[CHOOSE i \in 1..Len(rows) : rows[i].id = id]

\* SELECT hash ... ORDER BY created_at DESC, id DESC LIMIT 1
DirtyLastHash ==
    LET all == {<<rows[i].at, rows[i].id>> : i \in 1..Len(rows)} \cup
               {<<tx[r].at, r>> : r \in {q \in Id : pc[q] = "commit"}}
    IN  IF all = {} THEN NoHash
        ELSE (CHOOSE x \in all : \A y \in all : y[1] <= x[1])[2]
LastHash ==
    IF rows = <<>> THEN NoHash
    ELSE rows[CHOOSE i \in 1..Len(rows) :
                \A j \in 1..Len(rows) : rows[j].at <= rows[i].at].id

TypeOK ==
    /\ rows \in Seq(Row)
    /\ claims \in [Keys -> Id \cup {0, NoClaim}]
    /\ pc \in [Id -> {"unborn", "begin", "committed"} \cup Working \cup Ended]
    /\ tx \in [Id -> Request]
    /\ clock \in Nat
    /\ arrived \in 0..MaxRequests
    /\ acked \subseteq Id
    /\ faults \in 0..MaxFaults
    /\ Free \in 0..Conns

Init ==
    /\ rows = <<>>
    /\ claims = [k \in Keys |-> NoClaim]
    /\ pc = [r \in Id |-> "unborn"]
    /\ tx = [r \in Id |-> NoRequest]
    /\ clock = 0
    /\ arrived = 0
    /\ acked = {}
    /\ faults = 0

-----------------------------------------------------------------------------
Goto(r, step) == pc' = [pc EXCEPT ![r] = step]

\* A client sends a request, or repeats one with the same key.  A report names
\* an entry id the client has seen or made up.
Arrive ==
    /\ arrived < MaxRequests
    /\ arrived' = arrived + 1
    /\ \E kind \in Kinds, key \in Keys \cup {NoKey}, soft \in SoftReports :
       \E ref \in IF kind = "report" THEN 1..arrived ELSE {0} :
          tx' = [tx EXCEPT ![arrived + 1] =
                    [NoRequest EXCEPT !.kind = kind, !.key = key, !.ref = ref,
                                      !.soft = soft /\ kind = "report"]]
    /\ Goto(arrived + 1, "begin")
    /\ UNCHANGED <<rows, claims, clock, acked, faults>>

BeginIngestTx(r) ==
    /\ pc[r] = "begin"
    /\ Free > 0
    /\ clock' = clock + 1
    /\ tx' = [tx EXCEPT ![r].at = clock + 1]
    /\ Goto(r, "claim")
    /\ UNCHANGED <<rows, claims, arrived, acked, faults>>

AfterClaim(r) == IF tx[r].kind = "report" THEN "resolve" ELSE "hash"

\* claimIfNeeded
Claim(r) ==
    /\ pc[r] = "claim"
    /\ \/ /\ tx[r].key = NoKey
          /\ Goto(r, AfterClaim(r))
       \/ /\ tx[r].key # NoKey
          /\ ~Blocked(r)
          /\ Goto(r, IF claims[tx[r].key] = NoClaim THEN AfterClaim(r) ELSE "duplicate")
    /\ UNCHANGED <<rows, claims, tx, clock, arrived, acked, faults>>

\* loadDuplicateResult; the deferred Rollback ends the transaction.
LoadDuplicate(r) ==
    LET id == claims[tx[r].key]
    IN  /\ pc[r] = "duplicate"
        /\ IF id \in Stored
           THEN acked' = acked \cup {id} /\ Goto(r, "duplicate_ok")
           ELSE UNCHANGED acked /\ Goto(r, "missing")
        /\ tx' = [tx EXCEPT ![r].result = id]
        /\ UNCHANGED <<rows, claims, clock, arrived, faults>>

\* resolvePrescriptionForReport, on a connection of its own.
AnyEntry(r) == tx[r].ref \in Stored
Resolved(r) ==
    IF tx[r].ref \in Stored THEN RowOf(tx[r].ref).kind = "prescribe" ELSE tx[r].soft
Resolve(r) ==
    /\ pc[r] = "resolve"
    /\ Free > 0
    /\ Goto(r, IF Resolved(r) THEN "hash" ELSE "refused")
    /\ UNCHANGED <<rows, claims, tx, clock, arrived, acked, faults>>

\* saveEntry reads the last hash and builds the entry ...
ReadLastHash(r) ==
    /\ pc[r] = "hash"
    /\ tx' = [tx EXCEPT ![r].prev = LastHash]
    /\ Goto(r, "save")
    /\ UNCHANGED <<rows, claims, clock, arrived, acked, faults>>

\* ... inserts it, and finalizeClaim stores its id with the claim.
SaveWithoutResult(r) ==
    /\ pc[r] = "save"
    /\ Goto(r, "commit")
    /\ UNCHANGED <<rows, claims, tx, clock, arrived, acked, faults>>
Save(r) ==
    /\ pc[r] = "save"
    /\ tx' = [tx EXCEPT ![r].result = r]
    /\ Goto(r, "commit")
    /\ UNCHANGED <<rows, claims, clock, arrived, acked, faults>>

\* What a commit makes visible, all at once.
Publish(r) ==
    /\ rows' = Append(rows, [id |-> r, prev |-> tx[r].prev, at |-> tx[r].at,
                             kind |-> tx[r].kind, key |-> tx[r].key,
                             ref |-> tx[r].ref, soft |-> tx[r].soft])
    /\ claims' = IF tx[r].key = NoKey THEN claims
                 ELSE [claims EXCEPT ![tx[r].key] = tx[r].result]

Commit(r) ==
    /\ pc[r] = "commit"
    /\ Publish(r)
    /\ Goto(r, "committed")
    /\ UNCHANGED <<tx, clock, arrived, acked, faults>>

Respond(r) ==
    /\ pc[r] = "committed"
    /\ acked' = acked \cup {r}
    /\ Goto(r, "accepted")
    /\ UNCHANGED <<rows, claims, tx, clock, arrived, faults>>

-----------------------------------------------------------------------------
Fault == faults < MaxFaults /\ faults' = faults + 1

\* A query fails or the client disconnects: the transaction is rolled back.
Fail(r) ==
    /\ pc[r] \in Working \cup {"begin"}
    /\ Fault
    /\ Goto(r, "failed")
    /\ UNCHANGED <<rows, claims, tx, clock, arrived, acked>>

\* The connection breaks during COMMIT, after the server has committed.
LoseCommit(r) ==
    /\ pc[r] = "commit"
    /\ Fault
    /\ Publish(r)
    /\ Goto(r, "failed")
    /\ UNCHANGED <<tx, clock, arrived, acked>>

\* The API process dies: open transactions are rolled back, responses lost.
Crash ==
    /\ Fault
    /\ pc' = [r \in Id |-> IF pc[r] \in Working \cup {"begin", "committed"}
                           THEN "failed" ELSE pc[r]]
    /\ UNCHANGED <<rows, claims, tx, clock, arrived, acked>>

Proceed(r) ==
    \/ BeginIngestTx(r) \/ Claim(r) \/ LoadDuplicate(r) \/ Resolve(r)
    \/ ReadLastHash(r) \/ Save(r) \/ Commit(r) \/ Respond(r)

Next ==
    \/ Arrive
    \/ \E r \in Id : Proceed(r) \/ Fail(r) \/ LoseCommit(r)
    \/ Crash

Spec == Init /\ [][Next]_vars

\* The pool and the lock queues are FIFO, queries return.
FairSpec == Spec /\ \A r \in Id : SF_vars(Proceed(r))

-----------------------------------------------------------------------------
(* Properties.                                                              *)

\* An idempotency key stands for at most one stored entry, whatever retries,
\* lost commits and crashes there were (claimIfNeeded, finalizeClaim).
ExactlyOnce ==
    \A i, j \in 1..Len(rows) :
        (rows[i].key = rows[j].key /\ rows[i].key # NoKey) => i = j

\* No retry is answered "duplicate ingest claim missing result".
NeverMissing == \A r \in Id : pc[r] # "missing"

\* A report that is not translated evidence is stored after a prescription
\* with the id it names.
ReportsLinked ==
    \A i \in 1..Len(rows) :
        (rows[i].kind = "report" /\ ~rows[i].soft) =>
            \E j \in 1..(i - 1) : rows[j].id = rows[i].ref /\ rows[j].kind = "prescribe"

\* Every connection is held by a report that waits for one more, or by a
\* request that waits for the claim of such a report.
Exhausted ==
    /\ Free = 0
    /\ \A r \in Id : InTx(r) => pc[r] = "resolve" \/ (pc[r] = "claim" /\ Blocked(r))

\* In the end every request that has arrived is answered, unless the pool is
\* exhausted by reports that resolve their prescription on a second connection.
Answered == <>[](Exhausted \/ \A r \in Id : pc[r] \in Ended \cup {"unborn"})

\* The inductive strengthening of the safety properties above.  A request has
\* its kind from the moment it arrives; what is stored belongs to a request that
\* has committed, what a client knows is stored, and one stored entry began last.
Arrivals ==
    \A r \in Id : /\ pc[r] = "unborn" <=> r > arrived
                  /\ pc[r] # "unborn" => tx[r].kind \in Kinds

RowsEnded == \A i \in 1..Len(rows) : pc[rows[i].id] \in {"committed", "accepted", "failed"}

KnownStored ==
    /\ acked \subseteq Stored
    /\ \A r \in Id : pc[r] \in {"committed", "accepted"} => r \in Stored

LatestExists ==
    rows # <<>> => \E i \in 1..Len(rows) : \A j \in 1..Len(rows) : rows[j].at <= rows[i].at

LinksStored ==
    \A r \in Id : /\ pc[r] \in {"save", "commit"} => tx[r].prev \in Stored \cup {NoHash}
                  /\ pc[r] = "commit" => tx[r].result = r

\* A committed claim has a stored result; an open one has its key to itself.
ClaimsSound ==
    /\ \A k \in Keys : claims[k] # NoClaim => claims[k] \in Stored
    /\ \A i \in 1..Len(rows) : rows[i].key # NoKey => claims[rows[i].key] # NoClaim
    /\ \A r \in Id : pc[r] = "duplicate" =>
                       tx[r].key # NoKey /\ claims[tx[r].key] # NoClaim
    /\ \A r \in Id : (pc[r] \in Claimed /\ tx[r].key # NoKey) =>
                       claims[tx[r].key] = NoClaim
    /\ \A r, q \in Id :
          (pc[r] \in Claimed /\ pc[q] \in Claimed /\ tx[r].key = tx[q].key
              /\ tx[r].key # NoKey) => r = q

\* The entry a strict report was resolved to.
Prescribed(ref) == \E j \in 1..Len(rows) : rows[j].id = ref /\ rows[j].kind = "prescribe"
Resolutions ==
    \A r \in Id :
        (pc[r] \in {"hash", "save", "commit"} /\ tx[r].kind = "report" /\ ~tx[r].soft)
            => Prescribed(tx[r].ref)

IInv ==
    /\ TypeOK /\ Arrivals /\ RowsEnded /\ KnownStored /\ LatestExists
    /\ LinksStored /\ ClaimsSound /\ Resolutions
    /\ ExactlyOnce /\ NeverMissing /\ ReportsLinked

AbsLog == [i \in 1..Len(rows) |-> [id |-> rows[i].id, prev |-> rows[i].prev]]
Abstract == INSTANCE AppendLog WITH log <- AbsLog

\* In commit order the tenant's entries are the append-only log, and a client
\* is told of an entry only once it is there.
ImplementsAppendLog == Abstract!Spec
=============================================================================
