----------------------------- MODULE HostedApi -----------------------------
(***************************************************************************)
(* The API server around the ingest transaction: key issue and its rate     *)
(* limit, authentication, forward and batch, the webhooks, and the replay   *)
(* that reads a tenant's entries page by page for a scorecard.              *)
(*                                                                          *)
(* A handler is a goroutine: what it authenticated, counted or read before  *)
(* may have changed when it goes on.  Of the ingest transaction only its    *)
(* outcome is kept; HostedIngest models it.  Key 0 is the static key of the *)
(* default tenant 0; key k > 0 is the only key of tenant k.                 *)
(***************************************************************************)
EXTENDS Integers, Sequences, FiniteSets, SequencesExt

CONSTANTS
    Clients,        \* who calls, one request at a time
    Ips,            \* client addresses
    KeysPerIP,      \* keyIssueRateLimitPerIP
    Window,         \* keyIssueRateLimitWindow
    Bodies,         \* what a tenant may send: sequences of entries, by number
    Undecodable,    \* the numbers of those that are JSON but no evidence entry
    Operations,     \* what webhooks report on
    Idems,          \* idempotency keys a webhook may carry
    MaxLimit,       \* the largest page ListEntries returns
    ReplayPageSize, \* analyticsReplayPageSize
    MaxCalls, MaxKeys, MaxFaults, MaxTime  \* bounds

ASSUME ApiAssumption ==
    /\ {KeysPerIP, Window, MaxLimit, ReplayPageSize} \subseteq Nat \ {0}
    /\ {MaxKeys, MaxFaults, MaxTime} \subseteq Nat /\ MaxCalls \in [Clients -> Nat]
    /\ Undecodable \cup Operations \cup Idems \subseteq Nat \ {0}
    /\ Bodies \subseteq Seq(Nat \ {0}) /\ <<>> \notin Bodies
\* A longer page would come back short, and end the replay.
ASSUME PagesAssumption == ReplayPageSize <= MaxLimit

VARIABLES
    keys,     \* keys[k]: its status and, once revoked, the calls each client had made
    known,    \* keys whose plaintext a client has
    history,  \* per IP the times of admitted key requests
    entries,  \* evidence_entries, by created_at
    claims,   \* webhook_events
    job,      \* job[c]: the request of c
    now, calls, faults,
    issued,   \* history, since the start: the keys created, for whom and when admitted
    answers,  \* history: answered batches
    replays   \* history: ended replays, with what was there before and what they read

apiHistory == <<issued, answers, replays>>
vars == <<keys, known, history, entries, claims, job, now, calls, faults, apiHistory>>

-----------------------------------------------------------------------------
Keys == 0..MaxKeys
NoKey == [status |-> "none", after |-> [c \in Clients |-> 0]]

\* Clients name what they forward; a webhook's prescription is named by a hash of
\* the operation; other ids are drawn.  None of the names knows the tenant.
EntryId(n) == [from |-> "client", n |-> n]
MappedPrescriptionID(o) == [from |-> "mapped", n |-> o]
Drawn == [from |-> "drawn", n |-> Len(entries)]
Ids == [from : {"client", "mapped", "drawn"}, n : Nat]

Steps == {"idle", "create", "save", "ingest", "count", "page"}
Idle == [pc |-> "idle", key |-> 0, ip |-> CHOOSE i \in Ips : TRUE, at |-> 0,
         todo |-> <<>>, sent |-> {}, accepted |-> {}, hook |-> "none", op |-> 0, idem |-> 0,
         began |-> 0, total |-> 0, before |-> <<>>, all |-> <<>>]

\* ListEntries: a tenant's entries, newest first
NewestOf(rows, t) ==
    LET read[n \in 0..Len(rows)] ==
            IF n = 0 THEN <<>>
            ELSE IF rows[n].tenant = t THEN <<rows[n].id>> \o read[n - 1]
            ELSE read[n - 1]
    IN  read[Len(rows)]
Newest(t) == NewestOf(entries, t)
Stored(t) == {entries[k].id : k \in {j \in 1..Len(entries) : entries[j].tenant = t}}
StoredByAny == {entries[k].id : k \in 1..Len(entries)}

Init ==
    /\ keys = [k \in Keys |-> NoKey] /\ known = {0}
    /\ history = [i \in Ips |-> <<>>]
    /\ entries = <<>> /\ claims = {}
    /\ job = [c \in Clients |-> Idle]
    /\ now = 0 /\ calls = [c \in Clients |-> 0] /\ faults = 0
    /\ issued = {} /\ answers = {} /\ replays = {}

Fault == faults < MaxFaults /\ faults' = faults + 1
Work(c, r) == job' = [job EXCEPT ![c] = r]
Begin(c, r) ==
    /\ job[c].pc = "idle" /\ calls[c] < MaxCalls[c]
    /\ calls' = [calls EXCEPT ![c] = @ + 1]
    /\ Work(c, r)

-----------------------------------------------------------------------------
(* Keys                                                                     *)

NewerThan(times, cutoff) ==
    LET kept[n \in 0..Len(times)] ==
            IF n = 0 THEN <<>>
            ELSE IF times[n] > cutoff THEN Append(kept[n - 1], times[n])
            ELSE kept[n - 1]
    IN  kept[Len(times)]
PrunedEarly(ip) == NewerThan(history[ip], now)
Recent(ip) == NewerThan(history[ip], now - Window)

\* handleKeys, with the invite secret: an attempt counts whatever comes of it.
RequestKey(c, ip) ==
    /\ IF Len(Recent(ip)) >= KeysPerIP
       THEN Begin(c, Idle) /\ UNCHANGED history
       ELSE /\ Begin(c, [Idle EXCEPT !.pc = "create", !.ip = ip, !.at = now])
            /\ history' = [history EXCEPT ![ip] = Append(Recent(ip), now)]
    /\ UNCHANGED <<keys, known, entries, claims, now, faults, apiHistory>>
RefuseKey(c) ==
    /\ job[c].pc = "create" /\ Work(c, Idle)
    /\ UNCHANGED <<keys, known, history, entries, claims, now, calls, faults, apiHistory>>
\* The transaction of CreateKey; its commit may be lost, or its answer.
CreateKey(c) ==
    /\ job[c].pc = "create" /\ Work(c, Idle)
    /\ \E k \in Keys \ {0} :
          /\ \A i \in 1..k-1 : keys[i].status # "none"
          /\ keys[k].status = "none"
          /\ keys' = [keys EXCEPT ![k].status = "active"]
          /\ issued' = issued \cup {[key |-> k, ip |-> job[c].ip, at |-> job[c].at]}
          /\ \/ known' = known \cup {k} /\ UNCHANGED faults
             \/ Fault /\ UNCHANGED known
    /\ UNCHANGED <<history, entries, claims, now, calls, answers, replays>>
\* RevokeKey has no route: an operator calls it.
RevokeKey(k) ==
    /\ keys[k].status = "active"
    /\ keys' = [keys EXCEPT ![k] = [status |-> "revoked", after |-> calls]]
    /\ UNCHANGED <<known, history, entries, claims, job, now, calls, faults, apiHistory>>

LookupAny(k) == keys[k].status # "none"
LookupKey(k) == keys[k].status = "active"
\* authMw: the static key or one of the store's
Authenticated(k) == k = 0 \/ LookupKey(k)
\* A key that is not valid, or cannot be looked up, gets the same answer.
Unauthorized(c) ==
    /\ \/ \E k \in known : ~Authenticated(k) /\ UNCHANGED faults
       \/ Fault
    /\ Begin(c, Idle)
    /\ UNCHANGED <<keys, known, history, entries, claims, now, apiHistory>>

-----------------------------------------------------------------------------
(* Forward and batch                                                        *)

Send(c, k, body) ==
    /\ Authenticated(k)
    /\ LET ids == [i \in 1..Len(body) |-> EntryId(body[i])]
       IN  Begin(c, [Idle EXCEPT !.pc = "save", !.key = k,
                                 !.todo = ids, !.sent = ToSet(ids)])
    /\ UNCHANGED <<keys, known, history, entries, claims, now, faults, apiHistory>>

Row(c, type, id) ==
    [id |-> id, tenant |-> job[c].key, type |-> type, op |-> job[c].op,
     idem |-> job[c].idem, call |-> [client |-> c, n |-> calls[c]]]
\* SaveRaw: the id is the primary key of all tenants together.
Conflict(id) == id \in StoredByAny

StopAtError(rest, ok) == IF ok THEN rest ELSE <<>>
Continue(rest, ok) == rest
SaveRaw(c) ==
    /\ job[c].pc = "save" /\ job[c].todo # <<>>
    /\ LET id == Head(job[c].todo) rest == Tail(job[c].todo)
           Saved(ok) == Work(c, [job[c] EXCEPT
                                   !.todo = Continue(rest, ok),
                                   !.accepted = IF ok THEN @ \cup {id} ELSE @])
           Insert == entries' = Append(entries, Row(c, "raw", id))
       IN  \/ ~Conflict(id) /\ Insert /\ Saved(TRUE) /\ UNCHANGED faults
           \/ Conflict(id) /\ Saved(FALSE) /\ UNCHANGED <<entries, faults>>
           \/ Fault /\ Saved(FALSE) /\ UNCHANGED entries
           \/ Fault /\ ~Conflict(id) /\ Saved(FALSE) /\ Insert
    /\ UNCHANGED <<keys, known, history, claims, now, calls, apiHistory>>
AnswerBatch(c) ==
    /\ job[c].pc = "save" /\ job[c].todo = <<>> /\ Work(c, Idle)
    /\ answers' = answers \cup {[tenant |-> job[c].key, sent |-> job[c].sent,
                                 accepted |-> job[c].accepted, clean |-> faults = 0]}
    /\ UNCHANGED <<keys, known, history, entries, claims, now, calls, faults>>
    /\ UNCHANGED <<issued, replays>>

-----------------------------------------------------------------------------
(* Webhooks, with the secret of their source                                *)

\* The tenant is looked up by its key; the static key is not one.
WebhookTenant(k) == LookupKey(k)
Webhook(c, k, hook, o, idem) ==
    /\ WebhookTenant(k)
    /\ Begin(c, [Idle EXCEPT !.pc = "ingest", !.key = k, !.hook = hook, !.op = o,
                             !.idem = idem, !.began = Len(entries)])
    /\ UNCHANGED <<keys, known, history, entries, claims, now, faults, apiHistory>>

\* webhook_events: a key the sender gives stands for itself, and without one the
\* claim is named after the operation and what happened to it.
Claim(t, hook, o, idem) ==
    IF idem # 0 THEN [tenant |-> t, key |-> <<"given", idem>>]
    ELSE [tenant |-> t, key |-> <<hook, o>>]
ClaimOf(e) == Claim(e.tenant, e.type, e.op, e.idem)
Own(c) == Claim(job[c].key, job[c].hook, job[c].op, job[c].idem)
NeverClaimed(c) == FALSE
Claimed(c) == Own(c) \in claims

\* The transaction: created_at is when it began.  A start whose id another
\* webhook has taken is rolled back with its claim; a completion is translated
\* evidence, and is stored with or without its start.
Ingest(c) ==
    /\ job[c].pc = "ingest" /\ Work(c, Idle)
    /\ LET id == IF job[c].hook = "report" THEN Drawn ELSE MappedPrescriptionID(job[c].op)
       IN  IF Claimed(c) \/ Conflict(id) THEN UNCHANGED <<entries, claims, faults>>
           ELSE \/ /\ \E p \in job[c].began..Len(entries) :
                         entries' = InsertAt(entries, p + 1, Row(c, job[c].hook, id))
                   /\ claims' = claims \cup {Own(c)} /\ UNCHANGED faults
                \/ Fault /\ UNCHANGED <<entries, claims>>
    /\ UNCHANGED <<keys, known, history, now, calls, apiHistory>>

-----------------------------------------------------------------------------
(* Replay: ListEntries counts and then reads, newest first, page by page.   *)

Smaller(limit) == IF limit >= MaxLimit THEN MaxLimit - 1 ELSE limit
Resolved(limit) == IF limit > MaxLimit THEN MaxLimit ELSE limit
Decodes(id) == id.from = "client" => id.n \notin Undecodable

Replay(c, k) ==
    /\ Authenticated(k)
    /\ Begin(c, [Idle EXCEPT !.pc = "count", !.key = k, !.before = Newest(k)])
    /\ UNCHANGED <<keys, known, history, entries, claims, now, faults, apiHistory>>
Count(c) ==
    /\ job[c].pc = "count"
    /\ Work(c, [job[c] EXCEPT !.pc = "page", !.total = Len(Newest(job[c].key))])
    /\ UNCHANGED <<keys, known, history, entries, claims, now, calls, faults, apiHistory>>
\* One row that does not decode, and there is no scorecard.
Page(c) ==
    /\ job[c].pc = "page"
    /\ LET from == Len(job[c].all)
           list == Newest(job[c].key)
           to   == Min({Len(list), from + Resolved(ReplayPageSize)})
           page == SubSeq(list, from + 1, to)
           all  == job[c].all \o page
       IN  IF Len(all) >= job[c].total \/ Len(page) < ReplayPageSize
           THEN /\ Work(c, Idle)
                /\ replays' = IF \A k \in 1..Len(all) : Decodes(all[k])
                              THEN replays \cup
                                   {[tenant |-> job[c].key, read |-> all,
                                     before |-> job[c].before,
                                     grown |-> Len(list) - Len(job[c].before)]}
                              ELSE replays
           ELSE Work(c, [job[c] EXCEPT !.pc = "count", !.all = all]) /\ UNCHANGED replays
    /\ UNCHANGED <<keys, known, history, entries, claims, now, calls, faults>>
    /\ UNCHANGED <<issued, answers>>

-----------------------------------------------------------------------------
\* The process ends with its requests; its memory of key requests goes too.
Restart ==
    /\ Fault
    /\ job' = [c \in Clients |-> Idle] /\ history' = [i \in Ips |-> <<>>] /\ issued' = {}
    /\ UNCHANGED <<keys, known, entries, claims, now, calls, answers, replays>>
Tick ==
    /\ now < MaxTime /\ now' = now + 1 /\ \E i \in Ips : history[i] # <<>>
    /\ UNCHANGED <<keys, known, history, entries, claims, job, calls, faults, apiHistory>>

Next ==
    \/ \E c \in Clients :
          \/ \E ip \in Ips : RequestKey(c, ip)
          \/ RefuseKey(c) \/ CreateKey(c) \/ Unauthorized(c)
          \/ \E k \in known :
                \/ \E body \in Bodies : Send(c, k, body)
                \/ \E hook \in {"prescribe", "report"}, o \in Operations :
                      \E i \in Idems \cup {0} : Webhook(c, k, hook, o, i)
                \/ Replay(c, k)
          \/ SaveRaw(c) \/ AnswerBatch(c) \/ Ingest(c) \/ Count(c) \/ Page(c)
    \/ \E k \in Keys : RevokeKey(k)
    \/ Restart \/ Tick

Spec == Init /\ [][Next]_vars

-----------------------------------------------------------------------------
\* The state of the server and of its database.
TypeOK ==
    /\ \A k \in Keys : keys[k].status \in {"none", "active", "revoked"}
    /\ known \subseteq Keys /\ \A k \in known \ {0} : keys[k].status # "none"
    /\ \A c \in Clients : /\ job[c].pc \in Steps /\ job[c].key \in Keys
                          /\ ToSet(job[c].todo) \cup job[c].accepted \subseteq Ids
    /\ \A k \in 1..Len(entries) : entries[k].id \in Ids /\ entries[k].tenant \in Keys
\* No IP gets more than its number of keys in any window, however its requests
\* interleave with each other and with time.  A restart forgets them.
KeysLimited ==
    \A ip \in Ips, t \in 0..now :
        Cardinality({i \in issued : i.ip = ip /\ i.at \in t-Window+1..t}) <= KeysPerIP
\* Both: the type invariant and the limit of keyIssueRateLimitPerIP.
KeysSound == TypeOK /\ KeysLimited

\* What the tenant of a revoked key has is of calls that were let in before.
OwnEntries ==
    \A k \in 1..Len(entries) :
        LET e == entries[k] IN
        keys[e.tenant].status = "revoked" =>
            e.call.n <= keys[e.tenant].after[e.call.client]
\* No id stands for entries of two tenants, so a replay, which reads a tenant's
\* entries while others store theirs, reads none of another's.
TenantsApart ==
    /\ OwnEntries
    /\ \A t, u \in Keys : t # u => Stored(t) \cap Stored(u) = {}
    /\ \A r \in replays : ToSet(r.read) \subseteq Stored(r.tenant)

\* What a batch is told to be accepted is stored for its tenant; and unless
\* something failed, what it is told to be an error is an id that has been stored:
\* for this tenant or, the answer does not say which, for another.
BatchesAccounted ==
    \A a \in answers :
        /\ a.accepted \subseteq Stored(a.tenant)
        /\ a.clean => a.sent \subseteq StoredByAny

\* However webhooks are repeated and interleaved, a claim stands for exactly one
\* entry of its tenant: what is answered as a duplicate has been recorded, once.
WebhooksOnce ==
    /\ \A k \in 1..Len(entries) :
          entries[k].type # "raw" =>
             /\ ClaimOf(entries[k]) \in claims
             /\ \A j \in 1..Len(entries) \ {k} :
                   entries[j].type # "raw" => ClaimOf(entries[j]) # ClaimOf(entries[k])
    /\ \A m \in claims : \E k \in 1..Len(entries) :
          entries[k].type # "raw" /\ ClaimOf(entries[k]) = m

\* A replay sees each of the entries that were there when it began, once.  Each
\* entry stored meanwhile moves the pages: it can make one entry come twice and
\* one, the oldest that is left, be missed.
ReplayCovers ==
    \A r \in replays :
        LET missed == {k \in 1..Len(r.before) : r.before[k] \notin ToSet(r.read)} IN
        /\ Cardinality(missed) <= r.grown
        /\ \A k \in missed : k..Len(r.before) \subseteq missed
        /\ Len(r.read) <= Cardinality(ToSet(r.read)) + r.grown

=============================================================================
