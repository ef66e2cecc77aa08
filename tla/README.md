# TLA+ models of evidra

evidra records what an infrastructure agent intends to do (a *prescription*)
and what came of it (a *report*), links the records into an evidence log,
derives *signals* and a *score* from the log, and offers the same protocol as a
command line, an MCP server, and a hosted API with a PostgreSQL store.  Around
the API it has webhooks, an Argo CD controller that turns reconciliations into
records, and a benchmark service.

This directory holds TLA+ models of the parts whose correctness depends on the
order of steps, the TLC instances that check them, and proofs of facts about
the evidence store, the session tracker, the front ends that record, the proxy,
the hosted ingest, the API server, the Argo CD controller, the benchmark
service, the signal detectors and the score that hold for every instance.  The models are
translated from the code; a comment in the code or a sentence of its
documentation is used only as the statement of a property.

Contents: 1 inventory, 2 the modules and the code, 3 the runs, 4 fairness,
5 proofs, 6 where code and documentation disagree, 7 abstractions and what is
not modelled, 8 what is left.

To check a run: `tlc -config StoreShared.cfg MCEvidenceStore`.  To check the
proofs: `tlapm EvidenceStoreProofs.tla`, and so for the other seven `*Proofs`
modules.  `PROJECT.json` names module,
configuration and properties of every run, the source lines of every
definition, and for every property a wrong variant of a definition under which
TLC finds the property violated.  Those variants are in the modules next to the
definition they vary (`NoLocking` next to `LockFree`), and no specification
uses them.

## 1 Inventory

| Component | State it keeps | Operations | What is hard about it |
|---|---|---|---|
| Evidence store `pkg/evidence`, `pkg/evlock` | segment files, manifest, flock, id cache per process | last hash, append (with rotation), find, scan, validate | several processes; a crash, an I/O error or a short write at every step; two critical sections per recorded entry |
| Lifecycle service `internal/lifecycle` | none of its own | Prescribe, Report | what a report may name; best-effort entries about failures |
| Session tracker `internal/assessment` | cached state per session, one manifest fingerprint | Observe, Snapshot | goroutines, scans outside the mutex, other processes on the same log |
| Signals and score `internal/signal`, `internal/score` | none (functions of the log and the time) | eight detectors, score, confidence, band | order and timestamps disagree; duplicates; unreported operations; clamping |
| MCP server `pkg/mcpserver` | tracker, retry counts per intent | prescribe, report, run_command, read tools | requests in parallel; a command that fails between its two records; a count that expires |
| Command line `cmd/evidra` | none | record, import, prescribe, report; scorecard, explain, compare | another process on the store; a batch of entries to the API at its end |
| Proxy `pkg/proxy` | pending calls, a file of its own | two relays | shared table, reused request ids, requests of the other side |
| Hosted ingest `internal/ingest` | webhook_events, evidence_entries | prescribe, report, with or without a claim | concurrent transactions, retries, lost commit answers, the connection pool |
| Forwarding `internal/api/forward_handler.go`, `pkg/client` | none | one entry, batches of entries | partial failure and repetition, lost answers |
| Automation emitter `internal/automationevent` | claims and entries, autocommitted | claim, save, release | two statements without a transaction |
| Argo CD controller `internal/gitops/argocd` | its place in a watch | list, watch, reduce, emit | lost watches, two replicas, errors that end it |
| Webhooks `internal/api/webhooks.go` | webhook_events, evidence_entries | translate a payload into an ingest request | two ways to name a claim; ids shared by all tenants |
| Benchmark triggers `internal/benchsvc` | jobs and subscribers in memory | create, update, stream | repeated and late callbacks, full channels, subscribing late |
| Benchmark runners `internal/benchsvc` | bench_infra, bench_jobs | register, poll, progress, complete, janitor | jobs that are taken away from slow runners, stale completions, dead runners |
| Benchmark results `internal/benchsvc` | bench_runs, bench_artifacts | upload one run or a batch, read, delete, archive | transactions that wait for each other; ids shared by all tenants |
| API keys, auth `internal/api`, `internal/auth`, `internal/store/keys.go` | keys, attempts per address | request, create, check, revoke | limit at its edge, a key revoked under a request |
| Analytics `internal/analytics`, `analyticsdb` | none | filters, replay page by page, scorecard | pages that move while they are read; what a filter cuts off |
| Canonicalization, risk, detectors `internal/canon`, `risk`, `detectors` | none | pure functions of manifests | data, not order |
| Export, prompts, telemetry, UI | none | read and print | – |

How they interact.  Every path that records goes through one of three doors:
the file store (command line, MCP server), the ingest transaction (API,
webhooks), or the emitter's autocommitted statements (Argo CD, forwarding).  The
proxy has a file of its own.  Each door
promises the same thing, `AppendLog`: entries are only added, a new entry names
one that is there as its predecessor, and whoever was told of an entry finds it.
The readers (tracker, detectors, score) take the log as it is: out of
timestamp order, with broken links, with duplicate reports, with reports that
name nothing.  The command line and the MCP server copy what they record to the
API if they have one, best effort.  The benchmark service shares the process and the database with
the API and nothing else.

What makes each part correct, in a sentence:

- store: what was acknowledged is there and is found; a sealed segment is never
  written; nothing written changes; a lost manifest update costs one link; the
  lock is always released;
- tracker: an answer is made of the session's entries, contains all the
  server's own, no report without its prescription, and never goes back;
- signals: every violation is accounted for once, whatever is counted as a
  loop, thrashing or a repair is one, and later entries do not change the
  verdict on earlier ones;
- front ends: a report names an entry of its session, an id that was given
  stands, a mutation is recorded with its exit code, the hosted copy has nothing
  the store has not;
- proxy: a mutation is in the file before upstream sees it, and its report has
  the outcome of its own call;
- analytics: a scorecard of a part says of an operation what the whole says, and
  the API counts what the command line counts as far as its order permits;
- API: the limit of keys holds, tenants stay apart, what was accepted is stored,
  a claim stands for one entry, a replay sees what was there;
- ingest: one entry per key, every retry is answered with it, no request waits
  for ever;
- controller: one record per event, prescriptions before reports, completions
  are recorded;
- results: a run has exactly the artifacts of the request that inserted it;
- triggers: counters and scenario list agree, a client that subscribed is told
  the end;
- runners: only a stale claim is taken away, only its owner ends a job, no job
  is left behind.

`PROJECT.json` lists every component with its status, and the hazards of the
code at their lines with the properties that cover them.  A hazard without a
property has a note.

## 2 The modules and the code

```
AppendLog  <--refines--  EvidenceStore   <--EXTENDS--  EvidenceStoreProofs
     ^-------refines--   HostedIngest    <--EXTENDS--  HostedIngestProofs
SessionTracker    <--EXTENDS--  SessionTrackerProofs   (a log that others append to, too)
Recorders, Proxy         <--EXTENDS--  EvidraMcp  (one binary)  <--EXTENDS--  EvidraMcpProofs
HostedApi, BenchResults  <--EXTENDS--  EvidraApi  (one server)  <--EXTENDS--  EvidraApiProofs
Signals, Score  <--EXTENDS--  Assessment  <--EXTENDS--  Analytics  <--EXTENDS--  AssessmentProofs
GitOpsController  <--EXTENDS--  GitOpsControllerProofs
BenchTrigger, BenchRunners  <--EXTENDS--  BenchServiceProofs
```

Each `MC*` module extends the module it is named for (`MCRecorders` extends
`EvidraMcp`, `MCHostedApi` extends `EvidraApi`, `MCAssessment` extends
`Analytics`) and gives the values of constants that a configuration cannot
write.  The modules stack: `Recorders` takes for granted of the store what
`EvidenceStore` shows, `HostedApi` of an ingest transaction what `HostedIngest`
shows.

**AppendLog** is the abstract specification: `log`, `acked`, `Write`, `Ack`.

**EvidenceStore** (`pkg/evidence`, `pkg/evlock`, and the way
`lifecycle.Service` uses them).  `segs[i]` is the file `evidence-<i>.jsonl`,
`manifest` is `manifest.json`, `lock` the holder of `.evidra.lock`.  A process
goes through the steps of one recording: `Begin`, `ReadLastHash`
(`LastHashAtPath`, in a critical section of its own), `Acquire`,
`LoadManifest` / `InitManifest` (`loadOrInitManifest`), `WriteLine`
(`appendEntryLine`), `Rotate` (counting and rotation in memory, the new file),
`CommitManifest` (`writeManifestAtomic`), `Finish` (release, cache, return).
`Find` is `FindEntryByIDAtPath` with its cache, `ValidateChain` is
`ValidateChainAtPath`.  `IOError` fails any file operation, `ShortWrite` leaves
a prefix of the line (which the next append continues, and which is valid JSON
if only the newline is missing), `Crash` kills the process; the kernel releases
the flock.  `Advisory` operations are the ones that ignore an error of
`LastHashAtPath` and go on with an empty hash.

**SessionTracker** (`internal/assessment/tracker.go`, and the calls of
`pkg/mcpserver`).  `objs` are the `sessionState` objects on the heap,
`sessions` the tracker's map to them, `manifest` its one fingerprint.  `Record`
and `RecordFailure` are the handlers up to `Observe`; `Check` is the first half
of `Snapshot` under the mutex, `Scan` the reading of the log without it,
`Install` the second half of `rebuildSession`, `Compute` and `Store` the
computation of the answer, which a rebuilt state does without the mutex: it
reads the entries first and writes the results later, and an entry observed in
between is in the state but not in its results.  `ExternalWrite` is the command
line or another server.  A goroutine takes a request of any session at any time;
`overlapped` remembers the sessions of which two requests were under way at once,
for the properties that speak of a client that waits for each answer.

**Recorders** (`pkg/mcpserver/server.go`, `run_command.go`, `retry_tracker.go`,
`internal/lifecycle`, `cmd/evidra/record.go`, `import.go`, `prescribe.go`,
`report.go`, `pkg/client`).  `job[c]` is the call a goroutine or a process is
in.  `RunCommand`, `PrescribeTool`, `ReportTool`, `CmdRecord`, `CmdImport`,
`CmdPrescribe` and `CmdReport` begin one; `CountRetry`, `AppendPrescription`,
`AppendFinding`, `Forward`, `Run`, `Find`, `AppendReport`, `Assess`, `Collect`
and `Send` are its steps in the order of the code, and `Refuse`, `FindFails`,
`Unknown` and `CanonicalizationFailure` the ways out of it, with the signal
entries they leave.  Each write has an outcome: `"ok"`, `"unread"` (the last
hash could not be read), `"refused"`, and `"torn"` (the entry is there, the
caller sees an error); `mode` decides what the caller makes of it.  `seen[i]`
is the history of counts the property is stated over.  `StopServer` and
`KillShell` are the crashes.

**Proxy** (`pkg/proxy`).  `line` is what the client relay has in its hand,
`hand` what the upstream relay has, `pending` the table.  The client relay
prescribes, tracks, and forwards (`Steps`), the upstream relay looks up, reports
and delivers.  Upstream answers in any order, asks the client with ids of its
own (`AskClient`), and may die.

**HostedIngest** (`internal/ingest/service.go` over `internal/store`).  One
transaction per request: `BeginIngestTx` takes a connection, `Claim` inserts
the key (waiting for an uncommitted row of the same key), `LoadDuplicate`
answers a retry, `Resolve` reads the prescription of a report on a second
connection, `ReadLastHash`, `Save` (with `finalizeClaim`), `Commit`, `Respond`.
`Fail`, `LoseCommit` (committed, but the client sees an error) and `Crash` are
the faults.  `created_at` is the time the transaction began, so the last hash
is that of the transaction that began last among the committed ones.

**HostedApi** (`internal/api`: `keys_handler.go`, `forward_handler.go`,
`webhooks.go`; `internal/auth`, `internal/store`, `internal/analyticsdb`,
`cmd/evidra-api/main.go`).  `keys`, `entries` and `claims` are tables, `history`
is the memory of the rate limiter, `job[c]` the request a goroutine serves.
`RequestKey` counts and `CreateKey` is the transaction, which may commit and
still fail (`known` are the keys somebody was told).  A tenant is authenticated
once, at the beginning: `RevokeKey` may come in between.  `SaveRaw` is one entry
of a batch, stored unless its id is, by whichever tenant (`EntryId`: the id is
the client's and the primary key of all tenants together); `Ingest` a webhook's transaction with its outcome only, inserted
into `entries` at the place of its `created_at`.  `Replay`, `Count` and `Page`
are the loop of the analytics service over `ListEntries`.

**BenchResults** (`internal/benchsvc/queries.go`, `handlers.go`).  `tx[c]` is
the open transaction of an upload: `InsertRun` takes the next run of the
request, waits (`WaitsFor`) for an open transaction that has inserted the same
id, and either fails, for a single run, or skips it, for a batch.  `InCircle`
and `Rollback` are PostgreSQL's answer to transactions that wait for each
other.  `Commit` may lose its answer.  `DeleteRun`, `ArchiveRuns` and
`GetArtifact` are single statements.

**EvidraMcp** and **EvidraApi** compose the two of a binary.  Their halves share
no state (a proxy has its own file; evidence and benchmark tables are apart), so
a behaviour of the composition is one of either, chosen at its beginning.

**GitOpsController** (`internal/gitops/argocd`, `internal/automationevent`).
`cluster` is what the Kubernetes API server has; `StartSync` and `FinishSync`
are Argo CD.  A replica lists (`Boot`), opens watches, takes objects from them
in order, and emits events by `Claim`, `Save`, and on an error `Release`, after
which `Run` returns and nothing starts it again but a new process; so it does when
the API server refuses the list or a watch (`Refused`).  `abandoned` is a history
variable: the events whose claim was left without an entry.  `notes` are
the annotations that decide on key, prescription and mode.

**BenchTrigger** (`executor.go`, `trigger_handler.go`, `local_executor.go`).
`Updated` and `Notify` are `TriggerStore.Update`; the local executor calls it
directly, the remote one's callbacks travel in `net` and may be repeated.
`Get`, `SendStatus`, `Subscribe`, `Receive`, `CheckDone`, `ChannelClosed` and
`Leave` are `handleTriggerStatus` for an event stream.

**BenchRunners** (`runner_handler.go`, `runner_janitor.go`, `queries.go`).  A
poll is two statements, `TouchRunner` and `ClaimJob`.  `doing` is what the
runner processes work on, an attempt for each claim, which the database does not
know.  A runner whose job was taken away goes on and reports (`Progress`,
`CompleteJob`); the server takes a completion from the owner at any time, however
far the attempt is, and again after the first.  The janitor is
`MarkUnhealthyRunners` and `ResetStaleJobs`.  `trigger` says whether a job is
in the in-memory trigger store, without which progress is answered 404.  The
initial states, steps and types of this module have `Queue` in their names, so
that it can be extended together with `BenchTrigger`.

**Signals**, **Score** and **Assessment** (`internal/signal`,
`internal/score`, `internal/assessment/assessment.go`, `internal/pipeline`).
Each detector is an operator from a sequence of entries (and the time, for
unreported prescriptions) to the set of entries it flags; the loops of the code
are recursive functions of how many entries have been passed, with the same
running state (`Judged`, `Chained`, `Thrashed`, `Repaired`).  Their order,
`ByTimestamp`, is stated by rank: the k-th entry is the one that k are not after.
`Score` is the default profile in exact integers: everything is multiplied by the
number of operations.  `Assessment` lets a session grow in every way the store
permits and asks what the detectors say at each moment.  An entry, prescription
or report, is stamped (`BuildEntry`) before its writer has the store's lock, so
its timestamp may lie up to `Skew` back and entries of several processes come out
of order; a report's is not before its prescription's, which was in the store
when the report looked it up.
The properties there are reference definitions of the signals, not the loops
again.

**Analytics** (`internal/analytics`, `internal/analyticsdb/adapter.go`).  A
filter keeps the places of a log and makes what it leaves out an entry that the
detectors skip (`Selected`), so that the verdicts of a part and of the whole can
be compared.  `FilterEntries` is the filter by actor and period,
`FilterSignalEntriesByToolAndScope` the one that follows reports to their
operation, `EvidenceEntriesFromStoredRows` the order in which the API has the
same entries: by timestamp and, among equal ones, by entry id.  Ids are ULIDs that
several processes draw, so their order need not be that of the log: the constant
`EntryIDs` has the ways in which they may compare.

## 3 The runs

All runs are exhaustive.  Faults are counted and bounded; everything else that
is bounded is named as a constant with a comment `bound:`.

A property that is a conjunction of several is named first and its parts in
brackets.

| Run | What it asks | Instance and why it is enough |
|---|---|---|
| `store_shared` | Do two writers with crashes, failed operations and ignored hash errors keep the store append-only? `SealedImmutable`, `ImplementsAppendLog` | 2 processes, 3 entries, 2 faults; the second line of a segment fills it, so a rotation happens, a crash can be in the middle of it, and the next writer works on what it left |
| `store_torn` | What does a lone writer lose if lines may be cut? `OneBreakPerFault`, `FindSeesAcked`, `LockReleased` | 5 entries of 2 or 3 bytes, 2 faults: up to two rotations, cut text that is unreadable and cut text that is valid JSON, and an append that continues it |
| `store_fork` | Is the chain valid whoever records? (violated, see 6) | 2 processes, 2 entries, no faults |
| `tracker` | What do overlapping requests see? `StatesSound` (`TypeOK`, `CacheCurrent`, `OwnCovered`, `AnswersApart`), `ExactAlone`, `AnswersLinked`, `AnswersMonotone` | 2 goroutines, 2 sessions, 1 entry of another writer, restarts, failures and busy stores; 3 requests and 4 entries let a rebuild be overtaken by a request of the other session and by one of its own |
| `tracker_stale` | Is every answer exact? (violated, see 6) | 1 goroutine, 1 session, 1 entry of another writer |
| `recorders` | What do the front ends leave behind? `ReportsLinked`, `AnswersStand`, `MutationsRecorded`, `RetriesSound` (`TypeOK`, `RetryCountExact`), `HostedComplete`; and as a proxy, `RelaysSound` (`OwnOutcomes`, `MutationsTracked`) | a goroutine with 2 calls and a command-line process with 1 on one store, 1 session or none, both write modes, TTL 0, 1 fault, 1 tick: what one prescribes the other reports, an attempt is repeated within the TTL and beyond it, and a batch sends what an earlier one lost.  Proxy: 2 calls under 1 id or 2, 1 request of upstream, 1 fault |
| `ingest` | Are retries safe? `ExactlyOnce`, `NeverMissing`, `ReportsLinked`, `ImplementsAppendLog`, `Answered` | 3 requests with one key or none, 2 connections, 1 fault: a retry meets its first attempt at every step, two reports exhaust the pool, a third waits |
| `api` | What do concurrent requests do to the server's tables? `KeysSound` (`TypeOK`, `KeysLimited`), `TenantsApart` (`OwnEntries`, and what replays read), `BatchesAccounted`, `WebhooksOnce`, `ReplayCovers`, `RunsWhole` | 2 clients with 2 calls each, 1 address with room for 1 key per window, 2 tenants beside the default one, batches of two entries and of one that does not decode, pages of 1 entry, 1 fault, 1 tick: the first entry of a batch may be stored already, a replay of two pages meets the insertions of the other client.  2 uploads of 2 runs in either order, so that they wait for each other, 1 fault |
| `assessment` | Are signals and scorecards what they claim to be? `AccountsExact` (`TypeOK`, `ProtocolAccounts`), `SequencesSound` (`LoopsSound`, `ThrashingSound`, `RepairsExact`), `ScorecardsFaithful` (`OperationsKept`, `PeriodsCharge`, `ActorsCharged`, `ReplayAgrees`), `VerdictsCausal`, `WaitingNeverHelps` | every session of 3 entries, of 4 that begins with two prescriptions or with one and its failure, and of 6 that begins with a repair, by 2 actors on 2 intents of one tool and different scopes and 2 artifacts, timestamps of prescriptions and reports up to one tick out of order, ids that rise with the log, that fall, and with neighbours exchanged; thresholds lowered to 2 and 3, the window and the TTL to 1, so that each of them is reached and exceeded |
| `argo` | Is an event recorded once and in order? `RecordsSound` (`TypeOK`, `OncePerEvent`, `PrescribedOnce`, `PrescribeFirst`), `CompletionRecorded` | 1 application annotated in each of the ways the reducer tells apart, 2 replicas, 2 operations, 1 fault: a closed watch, a refused list or watch, a failed query, a lost reply or a stop |
| `trigger` | Are clients told the end? `JobsSound` (`TypeOK`, `CountsAgree`), `EndsComplete`, `SubscribersEnd` | 2 scenarios send four updates, channels have one place so they are full early; one repeated callback; all three failures of an executor |
| `runners` | Who may take or end a job? `OnlyStaleTaken`, `EndedByOwner`, `ClaimedRequeued` | 2 runners, 1 job of 1 scenario, 2 claims: a job goes to another runner, or back to the first, which still works on its earlier claim; completions at any progress, and repeated |

What the passing runs show, and their limits, part by part.

*Store.*  A crash or a failed operation between writing a line and replacing
the manifest leaves a line the manifest does not count.  It stays in the log
(`AppendOnly`), the next entry links past it (so `OneBreakPerFault` allows a
break for each fault), and the file still implements the append-only log,
because the line's predecessor is there.  A line that was cut makes every later
scan fail at it, but an acknowledged entry is never answered with "not found",
which the lifecycle service would record as a violation (`FindSeesAcked`).
`OneBreakPerFault` is about one writer that does not ignore errors:
`store_fork` shows what two do without any fault.

*Tracker.*  A session's answers are exact, and its cached state is what a rebuild
would make (`CacheCurrent`), as long as nobody else writes to it (`ExactAlone`),
although the fingerprint is shared with sessions that other processes do write
to.  When they write to this one exactness fails, but never for what the server
itself recorded (`OwnCovered`).  These are stated until the first restart: after
one, the empty state that `Observe` creates for a session it does not know is
trusted if its first entry is a prescription.  `AnswersMonotone` begins anew with
each restart, and `AnswersLinked` holds across restarts.  The server does not keep
the requests of one session apart, and when two of them overlap each of these can
fail (see 6): a scan that began before the other request recorded is installed
after it.  So they speak of sessions whose client waits for each answer
(`Sequential`), whatever the requests of other sessions do; what overlapping
requests cannot do is to show an entry of another session (`AnswersApart`).

*Front ends.*  `ReportsLinked` holds whatever id a caller passes and whichever
write fails.  `AnswersStand` is about strict mode: a lenient server gives out
ids of entries it could not write.  `MutationsRecorded` is about calls that met
no fault, and has one exception: a command of run_command that a signal ended has
exit code -1,
whose report is refused, so its prescription stays alone.  `RetryCountExact`
says that the ticker is no part of the meaning: a count belongs to the first
attempt of the last TTL that began one.  `HostedComplete` is both directions of
the copy: the API never has what the store has not, and without a fault it has
everything when all calls have returned.

*Proxy.*  `OwnOutcomes` excepts calls whose id upstream has used for a request
of its own (`crossed`): the relay takes that request for the response.
`MutationsTracked` is stated without faults: write errors are ignored.

*Ingest.*  `Answered` has one exception, `Exhausted`: a report holds a
connection with its transaction and takes a second one to read its
prescription, so as many reports at once as the pool has connections wait for
each other until their contexts end.  `ImplementsAppendLog` holds although two
transactions may read the same last hash; links fork, but only to committed
entries.

*API.*  `KeysLimited` is stated until a restart, which forgets the attempts.
`BatchesAccounted` relates what a client was told to what is stored, and says
why sending a batch again is safe: an entry that an answer left out without any
failure has an id that is in the table.  It does not say whose: the id may be
another tenant's, and then the sender's entry is lost (§6).  `TenantsApart` says
what the one key for all is good for, that no id stands for entries of two
tenants, and that a replay over moving pages reads its own tenant's only.
`WebhooksOnce` is a one-to-one correspondence of claims and
entries, however a webhook is repeated and whichever transaction fails.
`ReplayCovers` bounds what moving pages can do: entries that arrive meanwhile
make as many others come twice, or the oldest be missed; never a gap.

*Benchmark results.*  `RunsWhole` covers two uploads of the same ids: what one
skips the other has stored, unless a delete came later, and a rolled-back
upload leaves no artifact.

*Triggers.*  `SubscribersEnd` is about streams that subscribed before the job
was done.  `CountsAgree` is about callbacks that are applied once and executors
that did not fail to start: a repeated callback counts twice, and a start that
timed out marks a job failed that goes on.

*Argo CD.*  `CompletionRecorded` holds under every fault and names the two ways in
which a completion is lost.  One is that a replica has claimed the event and stops
before its entry is stored: under a stop the claim stays and the event is a
duplicate for ever; after an error it is released, but a replica that met the
claim meanwhile has passed the event as a duplicate.  The other is that every
controller has ended, as each does after its first error, a refused list or watch
included, while its process goes on.  A single controller whose watch is closed
and cannot be opened again loses what comes after.
`OncePerEvent` excludes lost replies, `PrescribedOnce` does not: the id of a
mapped prescription is derived from the event, so a second insert fails.

*Scorecards.*  `OperationsKept`, `PeriodsCharge` and `ActorsCharged` state what
a filter changes, exactly.  A scorecard of a tool or scope judges an operation
as the whole does, except that the history an escalation is measured by is that
of the tool.  A period that begins between a prescription and its report makes
the report one of an unprescribed action.  The scorecard of an actor charges it
with overdue prescriptions that another actor has reported on.  `ReplayAgrees`
says how far the API counts what the command line counts, though its order is
another one: operations, drifts, large destructions and new scopes always; retry
loops, thrashing, repairs and protocol violations if the reports of each
prescription, and prescriptions of equal timestamps, have kept the order of the
log (`AsAppended`), for which TLC shows both parts to be needed; escalations not,
as their history is a matter of position and time.

*Signals.*  `ProtocolAccounts` gives each report its one verdict in closed form
(what the loop decides step by step), and the unreported prescriptions theirs.
`LoopsSound`, `ThrashingSound` and `RepairsExact` say that what is counted is
what the signal is named for.  The converse of `LoopsSound` does not hold: the
chain is greedy from its first failure, so failures at 0, 20, 40 and 50 minutes
with a window of 30 are cut into two chains of two, although the last three lie
within one window.

## 4 Fairness

Safety properties are checked without fairness.  The runs with liveness
properties use `FairSpec` (`QueueFairSpec` of `BenchRunners`):

- `EvidenceStore`: a recording that has begun goes on (`WF` of its steps, one
  goroutine of a process that is scheduled).  `evlock.Acquire` has a deadline,
  so a waiting process may also give up.  Nobody is obliged to begin, to crash
  or to fail.
- `HostedIngest`: strong fairness for each request's next step, because the
  pool and PostgreSQL's row locks serve waiters in order, so one that could go
  on again and again does.  Nothing obliges clients to send or faults to occur.
- `GitOpsController`: a process that is down is started again (a Deployment),
  and its controller's loop runs.  The API server may close or refuse watches,
  at most `MaxFaults` times, and nothing restarts a controller that has ended.
- `BenchTrigger`: goroutines are scheduled, a scenario ends (it runs under a
  context with a timeout), callbacks are answered.  A crash of the bench service
  is not obliged to happen, and the property excludes it.
- `BenchRunners`: time passes, so a job without progress grows stale; the
  janitor's ticker fires; a poll that has touched its runner claims; a runner
  that works reports, unless it dies.  Runners are not obliged to poll.

## 5 Proofs

Eight modules have proofs.  Each follows the same plan: an inductive invariant
that contains the properties and what they rest on, a lemma that every action
keeps it, and the temporal theorems from it.

### The evidence store

`EvidenceStoreProofs` proves, for every number of processes, entries and
faults, every segment limit, every line length, with and without short writes:

| Theorem | Statement |
|---|---|
| `TypeCorrect` | `Spec => []TypeOK` |
| `LockExclusion` | `Spec => []LockInv`: a process is between acquire and release exactly if it holds the flock |
| `InductiveInvariant` | `Spec => []IInv` |
| `SealedSegmentsImmutable` | `Spec => SealedImmutable` |
| `LogAppendOnly` | `Spec => AppendOnly` |
| `AckedEntriesFound` | `Spec => []FindSeesAcked` |
| `StoreImplementsLog` | if no write is cut short, `Spec => ImplementsAppendLog` |
| `LoneWriterBreaks` | if there is one process and it never goes on without the last hash, `Spec => []OneBreakPerFault` |

Assumptions: `ConstantsAssumption` (types of the constants, `NoProc` is no
process) and `NoManifestAssumption` (the absent manifest is no manifest).  TLC
evaluates both in every run of the store.  The hypotheses of the last two
theorems are the instances of the runs that check these properties: a cut line
joined by the next one is an entry no abstract log has, and two writers, or one
that ignores an error, break the chain without any fault (`store_fork`).

The argument.  Neither `SealedImmutable` nor `AppendOnly` is inductive: a
writer appends to the segment named by its own copy of the manifest, so one
must know that this copy is the file, or ahead of it by the rotation that is
not committed yet; and a writer that finds no manifest truncates the first
segment, so one must know that this segment is empty then.  `IInv` says so:

- `TypeOK`, and `LockInv`, which makes the steps of one append exclusive: while
  a process is inside, no other changes files or manifest;
- `OpsStarted`: whoever is not idle has an entry to record;
- `ManifestShape`: the current segment exists, sealed ones are before it, and
  no segment after it has a line; without a manifest no segment has a line;
- `WriterShape`: at `write` and `stat` the writer's copy equals the file; at
  `commit` it may be one rotation ahead, and then the same holds of its
  current segment (`CommitShape`).

A crash in the middle of a rotation leaves an empty segment that the manifest
does not name, which `ManifestShape` permits; the next rotation numbers its
segment after the last file and never meets a sealed one.  The lemmas about
single operators (`AppendTextType`, `AppendTextKeeps`, `CountedType`,
`RotatedType`) carry the facts about sequences; `NextTyping` and `NextShape`
have one step per action.  `FileStep` names what a step may do to the files
(nothing, create the first segment of a store without manifest, append to the
current segment, add an empty one), and both action properties follow from it.

`FindSeesAcked` needs `Traced`: an entry that was written, and so one that was
acknowledged, left a line at which a search stops, because the line has the id or
because it cannot be read.  No append takes it away; a search that finds nothing
has passed no such line.

The refinement and the chain are about `Log`, the concatenation of the
segments, which is a fold.  `LogOf`, `Runs` and `Flattens` describe it by
positions: an entry of the log is a line of a segment, after all lines of earlier
segments.  That the fold has this form is an induction over the number of
segments.  The library's induction theorem takes an operator, which the provers
cannot instantiate, so `SetInduction` states it of a set, from the
well-foundedness of `<`.  `LogWritten` then says what a write does to the log:
the line appended to the last segment with lines is the last of the log.  `RInv`
adds that every line of the log is whole (there are no cut
ones), that ids are not used again and that who is told of an entry has written
it.  `ChainInv` counts: a break is the trace of a fault, and `Owed` says when a
fault still has its break to come, namely while the manifest's last hash is not
that of the last line; the next append uses up what is owed.

### Hosted ingest

`HostedIngestProofs` proves, for every number of requests, keys, connections
and faults:

| Theorem | Statement |
|---|---|
| `InductiveInvariant` | `Spec => []IInv` |
| `TypeCorrect` | `Spec => []TypeOK`, with the bounds of the pool |
| `RetriesSafe` | `Spec => []ExactlyOnce`: one entry per key |
| `RetriesAnswered` | `Spec => []NeverMissing`: no entry is missing behind a committed claim |
| `ReportsFollow` | `Spec => []ReportsLinked` |
| `IngestImplementsAppendLog` | `Spec => ImplementsAppendLog` |

Assumption: `IngestAssumption` (types of the constants; no key is `NoKey`, no
entry is `NoClaim`, and 0, which a claim without result holds, is no entry
either).

The argument.  `ExactlyOnce` is not inductive: that a commit does not add a
second entry for its key follows from `ClaimsSound`, which says what the unique
index of `webhook_events` does over time.  A transaction that has claimed a key
finds no committed claim of it and is the only one that has it; a key with an
entry has a committed claim, and a committed claim has a stored result.
`RowsEnded` and `Arrivals` make an entry's request one that has ended, so ids
are not used again.  `Resolutions` carries what a report's resolution found to
its commit; entries are never removed, so it still holds there.
`LatestExists` is needed because `LastHash` chooses the row with the greatest
`created_at`: the choice is a stored row.  With `LinksStored` this gives the
refinement: `Commit` and `LoseCommit` are `Write`, `Respond` and
`LoadDuplicate` are `Ack`, every other step leaves the abstract variables
alone (`NextMaps`).

### The session tracker

`SessionTrackerProofs` proves, for every number of goroutines, sessions,
requests, entries, restarts and failures, however requests overlap:

| Theorem | Statement |
|---|---|
| `StatesStaySound` | `Spec => []StatesSound`: the types, `CacheCurrent`, `OwnCovered`, `AnswersApart` |
| `AnswersStayExact` | `Spec => []ExactAlone` |
| `ReportsStayLinked` | `Spec => []AnswersLinked` |
| `AnswersOnlyGrow` | `Spec => AnswersMonotone` |

Assumption: `ConstantsAssumption` (types).  Which sessions a property speaks of is
part of the property (`Sequential`, see 3), not a hypothesis of the theorem.

The argument.  `Sound` says what a state of a session holds: each of the
session's entries at most once, all of those this process recorded but one that
was recorded and is not yet observed, and all that was shown in an answer before;
while nobody else writes to the session, exactly a prefix of its entries.
`CacheCurrent` is not enough by itself, since a rebuild works for a while
without the mutex: `RequestSound` says for each step of a request what its scan
has in hand, up to the moment it is installed, and of the computation of an
answer that it goes by the session's own state.  `Answered` and `Honest` carry
this to what a client is told.  All three are about sessions without an overlap
(`Only`: the request is the session's only one).  Whatever overlaps, `Owned`
gives every `sessionState` one session that points to it, and `StateOf` says that
it holds entries of that session; a request that was overtaken may still write to
a state that is no longer in the map.  The two folds of the model, the rebuilding of a
state from the log (`Rebuilt`) and the reference answer (`Reference`), are
recursive functions over the length of the log.  `Iteration` shows, by
`SetInduction` as for the store, that such a recursion has a solution; the
lemmas about them say what one more entry adds: a rebuilt state holds the entries of the session, once each, and a
report is in it only after its prescription.  The log only grows
(`Grown`), so what was a prefix of it stays one.

### Benchmark runners

`BenchServiceProofs` proves, for every number of runners, jobs, scenarios and
claims:

| Theorem | Statement |
|---|---|
| `QueueInvHolds` | `QueueSpec => []QueueInv` |
| `QueueTypeCorrect` | `QueueSpec => []QueueTypeOK` |
| `TakenOnlyIfStale` | `QueueSpec => OnlyStaleTaken` |
| `EndedOnlyByOwner` | `QueueSpec => EndedByOwner` |

Assumption: `RunnersAssumption` (types; no runner is `NoRunner`).  `QueueInv` adds
to the types that a job in the queue has no owner (`QueuedUnowned`), which the
janitor's reset establishes by clearing `infra_id` with the status.  A poll
takes the oldest queued job, which exists because job numbers are well ordered
(`OldestExists`), and so takes it from nobody.

### The API server and benchmark results

`EvidraApiProofs` proves of the composed server, for every number of clients,
addresses, keys, tenants and faults, all bodies, pages and uploads:

| Theorem | Statement |
|---|---|
| `WebhooksAreRecordedOnce` | `ServerSpec => []WebhooksOnce` |
| `BatchesAreAccounted` | `ServerSpec => []BatchesAccounted` |
| `EntriesAreOwn` | `ServerSpec => []OwnEntries`, the stored half of `TenantsApart` |
| `TenantsAreApart` | `ServerSpec => []TenantsApart` |
| `ReplaysCover` | `ServerSpec => []ReplayCovers` |
| `KeysAreSound` | `ServerSpec => []KeysSound`: the types, and no window with more keys than the limit |
| `ResultsAreWhole` | `ServerSpec => []RunsWhole` |

Assumptions: `ApiAssumption` and `ResultsAssumption` (types of the constants;
`NoRun` is no row, no upload is empty), and `PagesAssumption` (a replay's page
is no larger than the store's clamp; both are 1000 in the code).  Without the
last one a replay ends after a page that the store cut, and `ReplayCovers` is
false.

The argument for evidence.  `ApiInv` is the types, `WebhooksOnce`,
`BatchesAccounted`, and two facts about what is under way: `JobOK`, that what a
request has accepted so far is stored for its tenant, that what it has not
stored it still has to do or, without faults, found there, whoever's it is, and
that a key revoked meanwhile let it in before; and `EntryOK`, that an entry of a
revoked key is of a call before.  Entries are inserted at the place of their `created_at`, not
appended, so the steps that insert are reduced to one statement, `Added(row, p)`:
the old rows are the new ones but for `p`, in order (`InsertAdds`,
`RowsOfAdded`).  `Later` says what a step may do to the tables (keys only go
from active to revoked, rows only come), and `JobKeeps` and `EntryKeeps` carry
`JobOK` and `EntryOK` over every step that is `Later`.

The argument for replays.  The list a tenant sees (`NewestOf`, newest first) is
a recursive function of the table.  One row more at the end is one more in
front; a row in the middle of the table is, by `Inserts` and `NewestAdded`, one
somewhere in the list, or none if it is another tenant's.  `ReplayOK` says of a
replay under way where the entries that were there at its beginning stand now:
in their order, those within the length of what was read have been read, and
with each of them all newer ones.  An insertion moves an entry from before the
offset to behind it, where the next page reads it again, and never the other way
round, so there is no gap.  `ReplayEnds`: a replay ends when it has read as many
entries as were counted, or all there are, and what it misses then is at the old
end and no more than what was inserted.

The argument for the limit of keys.  `KeysLimited` counts keys given within a
window of time, and the limiter counts attempts it remembers, which it also
forgets.  `KeyInv` relates them: `Served` is the keys given to an address in a
stretch of time together with its admitted requests that still wait for their
transaction, and the limiter remembers a time for each one served within the last
window (`Rationed`); `NewerKeeps` says that pruning drops only what is older.  A
request is admitted if fewer are remembered than the limit, so fewer were
served, and no window that ends now or earlier has more.

The argument for results.  `ResultsInv` is the types and `OpenTx`: what an open
transaction has inserted no other has and no stored row has, and its rows, the
runs it still has to insert and those another one has stored (`imported`) cover
its request; `RunsStored`: a stored row has the artifacts of the request that
inserted it; and `Complete`: what was imported covers its requests.  That
nobody else has an id is what makes a commit, which sets rows and artifacts of
several runs, disjoint from all others.

### The Argo CD controller

`GitOpsControllerProofs` proves, for every finite set of applications, every
number of replicas, operations and faults:

| Theorem | Statement |
|---|---|
| `TypeCorrect` | `Spec => []TypeOK` |
| `EventsOnce` | `Spec => []OncePerEvent` |
| `PrescriptionsOnce` | `Spec => []PrescribedOnce` |
| `PrescriptionsFirst` | `Spec => []PrescribeFirst` |
| `RecordsAreSound` | `Spec => []RecordsSound`, all of them |

Assumption: `ControllerAssumption` (types; the applications are finitely many).
`EventsOnce` needs that a claim has one holder: `Recording` says that a row's
key is claimed, `Alone` that a replica at `save` is the only one with its key
and that no row has it.  Both fail if a reply may be lost, which the property
excludes.  `PrescriptionsFirst` needs an order: `Placed` ties the objects in the
cluster to the operations begun, `InOrder` says that what a replica still has to
handle is in the order in which it came about and not beyond the cluster, and
`Passed` that a replica that recorded a report has only later states in front of
it, so no prescription of that operation comes after.

### Benchmark triggers

`BenchServiceProofs` proves of a trigger's job, for every number of scenarios,
streams and repeated callbacks, and every size of a channel:

| Theorem | Statement |
|---|---|
| `TypeCorrect` | `Spec => []TypeOK` |
| `EndedStreamsWereTold` | `Spec => []EndsComplete` |
| `JobsAreSound` | `Spec => []JobsSound` |

Assumption: `TriggerAssumption` (types).  `Progressing` (with `Ordered`) ties
status, executor and callbacks together; `Told` says what a stream that is past
each of its steps has seen.  For the counters the updates are numbered: scenario
`s` sends update `2s-1` when it starts and `2s` when it ends, and `Counting` says
that the updates applied are a prefix of that numbering and the callbacks in the
network the rest of those sent; with `FirstOnes` (the scenarios that have ended
are the first ones) and `Agree` (counters and list) it is inductive.

### The front ends that record

`EvidraMcpProofs` proves of the evidra-mcp binary, with the evidra commands
beside it, for every number of requests, processes, sessions, intents, calls and
faults, in both write modes:

| Theorem | Statement |
|---|---|
| `RetriesAreSound` | `BinarySpec => []RetriesSound` (with the types) |
| `ReportsAreLinked` | `BinarySpec => []ReportsLinked` |
| `AnswersAlwaysStand` | `BinarySpec => []AnswersStand` |
| `MutationsAreRecorded` | `BinarySpec => []MutationsRecorded` |
| `HostedIsComplete` | `BinarySpec => []HostedComplete` |

Assumption: `RecordersAssumption` (types; requests and shells are different
callers; a session that is passed is no number, for generated ones are; "none"
is not an exit code a command ends with).

The argument.  `Drawn` says that ids go up along the log and that nobody has one
that was not drawn, so an id names one entry (`Unique`); `Place` which steps a
tool goes through.  `Stored` says that what a call is about to use, the
prescription it found, the entry it forwards, the batch it collected, is in the
log.  With that a report is linked when it is appended, and links stay, because
the log only grows (`Grown`).  `Strict` is the stronger form of `AnswersStand`:
in strict mode the ids in a call, not only those it was given in an answer, are
stored, so a signal about an unknown prescription can only name no id at all.

`MutationsRecorded` needs two facts.  `Progress` follows a call that met no
fault: from the prescription on there is one with its id and a session its report
may be for, and from the report on one with its exit code.  `Private` says that
nobody else has the id that `run_command` prescribed, since its answer carries no
prescription id: that is why a command that a signal ended has no report at all.
(Callers report on ids they were given, or on one that is not in the store; one
that looks an id up in the log could still report on it.)

`HostedComplete` is about calls that are over; `Forwarded` says what holds
meanwhile: without faults an entry that is not at the API is one that some call
is about to send (`Awaited`), a request by its id, a process by its session or,
before it has collected, by a step that leads there (`StillSent`).
`RetriesSound` needs `Counts`: the tracker holds the count it gave last and the
time of the attempt that began it, or has forgotten a count that is too old
already.  That is where the cleanup's comparison matters: one that forgets at
the TTL and not beyond it breaks `Counts`.

### The proxy

`EvidraMcpProofs` proves of the proxy, for every number of calls, request ids, requests of
upstream and faults, and every order of answers:

| Theorem | Statement |
|---|---|
| `RelaysAreSound` | `BinarySpec => []RelaysSound` |

Assumption: `ProxyAssumption` (types).  The table of pending calls is shared by
the two relays and keyed by what the client chose.  `Waiting` says that a call in
the table has no report, is not in the hands of the relay of answers and its
answer has not reached the client; what that relay holds is the outcome of the
call's own answer, unless a request of upstream crossed it.  `IdsDiffer`: calls
whose answers the client does not have yet have different ids.  A client uses an
id again only after the answer, and by then the entry of the first call is out
of the table: that is the step at which the properties could fail.  `Places` says
who has a call (the relay of requests, upstream, the network, the relay of
answers or the client), `Reading` that the relay of requests works on the latest
one, and `Following` that without faults a call that was sent is prescribed and
waits in the table, is about to be reported, or is reported.

### Signals and the score

`AssessmentProofs` proves, for all actors, intents and artifacts, thresholds
and windows, and sessions of any length that grow as the
store permits:

| Theorem | Statement |
|---|---|
| `AccountsCorrect` | `Spec => []AccountsExact`: the types, the bounds of the score, and one verdict for each report and each overdue prescription |
| `SequencesCorrect` | `Spec => []SequencesSound`: retry loops, thrashing and repairs |
| `VerdictsLast` | `Spec => VerdictsCausal` |
| `SilenceNeverPays` | `Spec => WaitingNeverHelps` |
| `ScorecardsAreFaithful` | `Spec => []ScorecardsFaithful`: scorecards of a tool, a scope, a period, an actor, and from the API's rows |

Assumptions: `SignalsAssumption`, `ScoreAssumption` and `AssessmentAssumption`
(types of the constants; thresholds are positive; the entries a session begins
with are some that the store permits), and for the scorecards
`AnalyticsAssumption` (a scope, an actor and "all" are different values; an area
is a tool, an operation class and a scope, so intents of one area agree on the
tool and the scope; no two entries have one id).

The argument.  The inductive invariant is short, `Session(log, now)`: entries are
typed, none is of the future, and a report names a prescription before it or
nothing.  The work is in the detectors, which are loops.  `Iteration` shows, by
`SetInduction` as for the store, that such a recursion has a solution, so the
function that a detector defines takes the steps it is defined by.  Then what a
loop has found after k entries is stated without it and carried over one step:

- *protocol violations*: the events so far are the verdicts on the first k
  entries (`EventsUpto`), and the slots taken are the prescriptions of which a
  first report of their own actor is among them (`TakenUpto`, `JudgedNext`);
- *retry loops*: what is flagged is made of runs (`OfRuns`), and the open chain
  will be one if it is long enough: it begins with a failure, stays within the
  window, and no success is in it (`Chain`, `ChainedKeeps`);
- *thrashing*: the window is of failures, and since its first no entry that was
  passed succeeded (`ThrashedKeeps`);
- *repairs*: `failed` is the artifact of the last known attempt, if that failed
  (`RepairedKeeps`, `RepairsInAre`), which is why this signal is exact and not
  only sound.

`ByTimestampOrders` is what all but the first rest on: the order is a bijection
that follows the timestamps, since no two entries have the same rank
(`SortedByRank`, for any strict order of a finite set).  For the score,
`RatedBounds` keeps it between 0 and 100 whatever is counted, and `RatedFalls`
lets it only fall as violations come: the confidence ceiling falls and the
penalty does not.  `AssessedFalls` adds that time counts unreported prescriptions,
never fewer, and nothing else (`CountsNat`: the sets counted are finite).
`VerdictsStay` is about entries that do not look forward: the history of an
escalation and of a new scope lies before it in the log, where an appended entry
is not, even if its timestamp is older.

The argument for scorecards.  What a filter keeps, and the session as the API's
rows have it, are another sequence of entries, and the detectors are run on it
again.  `Mapped` says that a map takes the entries that are kept to those of the
other sequence, with their actors, intents, artifacts and timestamps, and reports
to ones of the same prescription, or of none if it is not there.  `Alike` adds
that prescriptions keep their order of time (`Earlier`, ties included) and the
reports of one prescription their order.  Positions are free otherwise, and so
are reports of different prescriptions.  `InStep` is the
induction that two scans of alike sequences take the same steps, and from it each
detector marks the images of what it marks in the whole session, if it looks only
at entries that are all there: `Whole` says that of the groups by actor and area
(`KeysKept`, `LoopsAlike`, `ThrashingAlike`, `RepairsAlike`, `VerdictAlike`).

- *a tool or a scope* keeps its areas whole, and reports follow their
  prescription (`KeptOfAction`); an escalation looks at other areas of the tool,
  and is shown by itself (`EscalationKept`);
- *a period* and *an actor* cut groups, so only what is charged to an operation is
  compared (`ChargedAlike`): a report whose prescription is left out becomes one
  without, and a prescription whose report is left out one that nobody reported;
- *the API's rows* are the session sorted by time and id (`OlderStrict`,
  `PlacesAre`), in which an entry with an older timestamp comes earlier than it was
  recorded.  They are `Mapped` whatever the ids (`RowsMapped`), which is enough for
  what looks at entries one by one and for new scopes, of which there is one for
  each actor and area but the first (`NewScopeCount`, `CountsKept`).  If they are
  `AsAppended` they are `Alike` (`RowsAlike`), and the other numbers agree, with
  one violation for each entry that is charged (`ViolationCount`, `CountsAgree`).

Periods need `InTime`: a report is not stamped before its prescription (`Stamped`,
the step).  The invariant is `Session`, the range of `now`, and `InTime`.

### Only model-checked

- All liveness (`LockReleased`, `Answered`, `CompletionRecorded`,
  `SubscribersEnd`, `ClaimedRequeued`): temporal properties under fairness are
  beyond the prover.
- `OneBreakPerFault` with operations that ignore an error is not checked and not
  true; `ImplementsAppendLog` is checked and proved without short writes only.

The converse: `TypeOK`, `LockInv` and `AppendOnly` of the store and the
inductive invariants are proved and have no run of their own in this list.

## 6 Where code and documentation disagree

Two runs expect a violation; each quotes what the repository says.

- `store_fork` / `ChainValid`: two processes that record at once link to the
  same predecessor, and `ValidateChainAtPath` rejects the store.  The package
  comment promises a "hash-linked chain".
- `tracker_stale` / `AnswersExact`: another process writes to a session before the
  server records its first entry of it.  `Observe` makes a state of the server's
  entry alone and, as no fingerprint is known yet, takes the manifest over, which
  counts both entries; the next snapshot finds nothing changed and answers without
  the first.  `TestTrackerRebuildsAfterExternalWrite` has the external write after
  a first snapshot.

Met while reading or checking, and left without a run:

- the first progress callback turns a job to running, and the janitor looks only
  at claimed ones, so a job whose runner dies later is never given back; the
  contract (`docs/contracts/BENCH_RUNNER_CONTROL_PLANE_V1.md:182`) says that it
  looks at `last_progress_at`.  `ClaimedRequeued` is about claimed jobs;
- retry, thrashing and repair detection take the last report's exit code; the
  data model (`docs/system-design/EVIDRA_CORE_DATA_MODEL_V1.md:129`) says "First
  report wins";
- the store's chain also breaks after a crash between line and manifest (see
  `OneBreakPerFault`), and the ingest chain forks under concurrency;
- after a restart of the MCP server a session whose first new entry is a
  prescription is assessed without its past; a snapshot of one session refreshes
  the fingerprint that all sessions share, so the next one of another session does
  not notice an external entry; a snapshot computed without the mutex races with
  `Observe`; with two overlapping requests of one session an
  entry that one of them records while the other scans is counted twice or not at
  all until the next foreign write, and a report can be shown without its
  prescription;
- a controller that is refused a list or a watch ends for good
  (`internal/gitops/argocd/controller.go:57-59`, `90-96`), while the process, and
  its health check, go on; an emitter that stops between claim and save never
  records its event; an
  Argo CD operation without an operation id that syncs the same revision again
  is a duplicate of the first; an explicit annotation of a prescription that is
  not stored ends the controller;
- a completion names the runner and the job, not the claim, and is accepted at any
  progress and more than once (`internal/benchsvc/queries.go:875-893`): a runner
  that lost a job and claimed it again can end it with its first attempt;
- a stream that subscribes after the last update waits for ever; a bench
  service that dies leaves its job running; one that answers too late revives a
  failed job; the completion of a runner's job does not reach the trigger
  store, so its streams do not end;
- an automatic report of run_command has the actor "proxy" and its prescription
  the agent's, so each is counted as a report by another actor
  (`internal/signal/protocol_violation.go:82`); a command that a signal ended has
  no report; one that was cancelled before it started is reported as exit 1; a
  prescription that could not be written is ignored even in strict mode; a
  mutation behind a global flag (`kubectl -n x apply`) is classified "unknown"
  and not recorded;
- an actor's scorecard charges it with overdue prescriptions that another actor
  reported on, while the signal specification
  (`docs/system-design/EVIDRA_SIGNAL_SPEC_V1.md`) has a wrong-actor report not
  also emit a stalled operation;
- the proxy takes a request of upstream with the id of a pending call for its
  response; write errors are ignored; when upstream ends, `Run` still waits for
  the client;
- `evidence_entries.id` is one key for all tenants and the id mapped from a
  webhook's operation has no tenant in it: a second tenant's start of the same
  operation id fails for ever, while its completion is stored; so does a client's
  entry whose `entry_id` another tenant has used: `SaveRaw` fails, the batch says
  "save failed" without saying why, and sending it again never helps
  (`BatchesAccounted` is stated accordingly);
- a start and a completion that carry the same given idempotency key are one
  claim; the static key is no key for webhooks; a key request counts against the
  limit before its body is read; a commit that fails after it took effect leaves
  a key nobody knows; no route revokes a key;
- the API sorts entries by timestamp and entry id, the command line has them in
  log order (`internal/analyticsdb/adapter.go:27-36`): where two processes' reports
  on one prescription, or prescriptions of one timestamp, change places, another
  report is the first or the last one, and the two may count other violations,
  loops and repairs (`ReplayAgrees` says when they agree);
- a replay pages by OFFSET without a snapshot (`ReplayCovers` bounds the
  effect); a page size above the store's clamp would end it after one page; one
  stored payload that does not decode fails every scorecard of its tenant;
- run ids are one key for all tenants, so a batch silently skips an id of
  another tenant's, and a single upload that lost its answer is refused when
  repeated; `UpsertScenarios` is not one transaction;
- the comment of `risk.RiskLevel` has unknown combinations default to high, the
  code returns medium; the TTL is ten minutes in documents and five in
  `DefaultTTLMs`.

## 7 Abstractions, and what is not modelled

- Hashes, ULIDs and signatures are perfect: an id stands for the hash of its
  entry.  Bytes matter only as far as a line fills a segment or is cut.  The
  reader's limit of 64 KB per line is left out.
- `GitOpsController` keeps no `created_at` and no `previous_hash`: its
  statements are autocommitted, and what concurrent reading of the last hash
  does is `HostedIngest`'s subject.  There, the pool has as few connections as
  show the effect.
- `BenchRunners` abstracts times to "silent" and "stale", which may come at any
  moment.
- `Signals` abstracts intents (digest, tool, operation class, scope and
  severity are functions of the intent) and artifacts (digest and shape).
  `sort.Slice` is stable for up to twelve elements, more than a modelled
  session has; for longer groups with equal timestamps the code leaves the
  order open, and what is proved of loops, thrashing and repairs is about log
  order among equal timestamps.  Demotions of violations, which nothing counts, are left out.
- `Recorders` takes the store as atomic appends that may fail or be torn, which
  is what `EvidenceStore` implements; which manifests fail to canonicalize, how
  a command is classified and how it ends are inputs.
- `HostedApi` keeps the outcome of an ingest transaction; key `k > 0` is the one
  key of tenant `k`, as each key request creates a tenant.
- `BenchResults` keeps, of a run, who sent it; scores and other columns are data.
- `Score` leaves out rounding and custom profiles.
- Windows locking and the growth of the lookup cache are left out.

Not modelled, with the reason in `PROJECT.json`: canonicalization and risk
detectors (parsing and predicates over data), score comparison, leaderboards and
the model registry (single statements or reports), export, metrics, prompts,
user interface (reads and prints), routing without state and configuration.

## 8 What is left

Modules, in the order of importance:

1. The composition of `BenchRunners` with `BenchTrigger`: a job has a row and a
   place in the memory of a process, and they end separately.
2. `SessionTracker` answering with `Signals` instead of sets of entries, so that
   an answer's score, not only its entries, is compared with the log's.
3. `Risk` and profiles: the matrix and custom profiles as operators, checked
   against their documents.
4. Of the lifecycle, the identifiers and signatures that validation refuses.

Proofs: every safety invariant and action property of the runs has a theorem,
the two that are found violated excepted.  Left is the chain of the store when a
writer goes on without the last hash: how many breaks it then has.
