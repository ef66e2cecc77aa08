--------------------------- MODULE SessionTracker ---------------------------
(***************************************************************************)
(* The assessment tracker of one MCP server process: a cache of per-session *)
(* signal state over the shared evidence log, checked against the manifest  *)
(* (records_total, last_hash) before it is used.                            *)
(*                                                                          *)
(* A request appends its entry, then calls Observe under Tracker.mu; a      *)
(* report goes on to Snapshot, which checks the manifest under mu, scans    *)
(* the log without mu when the cache cannot be used, installs the result    *)
(* under mu, and computes the answer from it without mu.  The CLI and other *)
(* servers append to the same log without telling this process.             *)
(***************************************************************************)
EXTENDS Naturals, Sequences, SequencesExt

CONSTANTS
    Threads,      \* requests the server handles at the same time
    Sessions,
    Restarts,     \* may the server be restarted?
    Failures,     \* may a request fail and leave an entry about the failure?
    Busy,         \* may LoadManifest or the scan fail with evidence_store_busy?
    MaxRequests,  \* bound: requests started
    MaxLog,       \* bound: entries in the log
    MaxExternal   \* bound: entries of other processes

ASSUME ConstantsAssumption ==
    /\ Sessions # {}
    /\ Restarts \in BOOLEAN
    /\ Failures \in BOOLEAN /\ Busy \in BOOLEAN
    /\ MaxRequests \in Nat /\ MaxLog \in Nat /\ MaxExternal \in Nat

VARIABLES
    log,       \* the evidence log, every reader sees it whole
    pc, req,   \* the step each request is at, and what it carries
    objs,      \* every sessionState allocated; pointers are indices
    sessions,  \* Tracker.sessions: pointers into objs, 0 for nil
    manifest,  \* Tracker.manifest, or Unknown when not manifestKnown
    answers,   \* the last snapshot this process answered for a session
    requests,  \* requests started
    restarted, \* has the server been restarted?
    overlapped \* sessions of which this process has handled two requests at once

vars == <<log, pc, req, objs, sessions, manifest, answers, requests, restarted, overlapped>>
history == <<requests, restarted, overlapped>>
tracker == <<objs, sessions, manifest>>

-----------------------------------------------------------------------------
Index == 1..MaxLog
Entry == [s: Sessions, kind: {"prescribe", "report", "failure"}, ref: Index \cup {0},
          own: BOOLEAN]
Unknown == <<>>
State == [seen: Seq(Index), invalid: BOOLEAN, dirty: BOOLEAN, results: Seq(Index)]
newSessionState == [seen |-> <<>>, invalid |-> FALSE, dirty |-> FALSE, results |-> <<>>]
NoAnswer == [got |-> <<>>, since |-> 0]
NoReq == [s |-> CHOOSE s \in Sessions : TRUE, entry |-> 0, ptr |-> 0, since |-> 0,
          found |-> newSessionState]

\* loadTrackerFingerprint; an entry's index stands for its hash.
Current   == IF log = <<>> THEN Unknown ELSE <<Len(log), Len(log)>>

\* sessionState.observeEntry for entry i: a report of a prescription that the
\* state has not seen makes the state invalid.
Prescriptions(st) == {i \in ToSet(st.seen) : log[i].kind = "prescribe"}
observeEntry(st, i) ==
    IF log[i].kind = "failure" THEN st
    ELSE [st EXCEPT !.seen = Append(@, i), !.dirty = TRUE,
              !.invalid = @ \/ (log[i].kind = "report" /\ log[i].ref \notin Prescriptions(st))]

\* filterEntries: rebuildSession observes the entries of its session.
Member(s, i) == log[i].s = s

SkipFirst(s) ==
    LET state[i \in 0..Len(log)] ==
            IF i = 0 THEN newSessionState
            ELSE IF Member(s, i) /\ \E j \in 1..(i - 1) : Member(s, j)
                 THEN observeEntry(state[i - 1], i)
            ELSE state[i - 1]
    IN  state[Len(log)]

\* ForEachEntryAtPath with an empty state: the state after each entry.
Rebuilt(s) ==
    LET state[i \in 0..Len(log)] ==
            IF i = 0 THEN newSessionState
            ELSE IF Member(s, i) THEN observeEntry(state[i - 1], i)
            ELSE state[i - 1]
    IN  state[Len(log)]

\* What every answer should be made of, at a point n of the log.
Assessed(s, i) == Member(s, i) /\ log[i].kind # "failure"
Reference(s, n) ==
    LET entries[i \in 0..n] ==
            IF i = 0 THEN <<>>
            ELSE IF Assessed(s, i) THEN Append(entries[i - 1], i)
            ELSE entries[i - 1]
    IN  entries[n]

TypeOK ==
    /\ log \in Seq(Entry) /\ Len(log) <= MaxLog
    /\ pc \in [Threads -> {"idle", "observe", "check", "scan",
                           "install", "compute", "store"}]
    /\ \A t \in Threads : /\ req[t].s \in Sessions
                          /\ req[t].entry \in 0..Len(log)
                          /\ req[t].ptr \in 0..Len(objs)
                          /\ req[t].found \in State
    /\ objs \in Seq(State)
    /\ sessions \in [Sessions -> 0..Len(objs)]
    /\ manifest = Unknown \/ manifest \in Nat \X Index
    /\ \A s \in Sessions : ToSet(answers[s].got) \subseteq 1..Len(log)
    /\ requests \in 0..MaxRequests
    /\ restarted \in BOOLEAN
    /\ overlapped \subseteq Sessions

Init ==
    /\ log = <<>>
    /\ pc = [t \in Threads |-> "idle"]
    /\ req = [t \in Threads |-> NoReq]
    /\ objs = <<>>
    /\ sessions = [s \in Sessions |-> 0]
    /\ manifest = Unknown
    /\ answers = [s \in Sessions |-> NoAnswer]
    /\ requests = 0
    /\ restarted = FALSE
    /\ overlapped = {}

-----------------------------------------------------------------------------
Goto(t, step) == pc' = [pc EXCEPT ![t] = step]

\* The request returns; its locals are gone.
Return(t) == Goto(t, "idle") /\ req' = [req EXCEPT ![t] = NoReq]

\* A report may name any entry of its session: lifecycle.Report checks the
\* session of what FindEntryByID returns, not its type.
Entries(s, own) ==
    {[s |-> s, kind |-> "prescribe", ref |-> 0, own |-> own]} \cup
    {[s |-> s, kind |-> "report", ref |-> i, own |-> own] :
        i \in {j \in 1..Len(log) : log[j].s = s}}

Begin(t) ==
    /\ pc[t] = "idle"
    /\ requests < MaxRequests
    /\ requests' = requests + 1
    /\ UNCHANGED restarted

\* The server handles a request of session s, whatever it is handling already.
Enter(s) ==
    overlapped' = IF \E u \in Threads : pc[u] # "idle" /\ req[u].s = s
                  THEN overlapped \cup {s} ELSE overlapped

\* PrescribeCtx or ReportCtx: lifecycle has persisted the entry.
Record(t) ==
    /\ Begin(t)
    /\ Len(log) < MaxLog
    /\ \E s \in Sessions : \E e \in Entries(s, TRUE) :
          /\ Enter(s)
          /\ log' = Append(log, e)
          /\ req' = [req EXCEPT ![t] = [NoReq EXCEPT !.s = s, !.entry = Len(log) + 1]]
    /\ Goto(t, "observe")
    /\ UNCHANGED <<tracker, answers>>

\* A report that was not persisted (best-effort writes) is still answered.
RecordLost(t) ==
    /\ Begin(t)
    /\ \E s \in Sessions :
          /\ Enter(s)
          /\ req' = [req EXCEPT ![t] = [NoReq EXCEPT !.s = s]]
    /\ Goto(t, "check")
    /\ UNCHANGED <<log, tracker, answers>>

\* A report of an unknown prescription or an artifact that does not parse
\* leaves a signal or canonicalization_failure entry, which Observe never sees.
RecordFailure(t) ==
    /\ Failures
    /\ Begin(t)
    /\ Len(log) < MaxLog
    /\ \E s \in Sessions :
          log' = Append(log, [s |-> s, kind |-> "failure", ref |-> 0, own |-> TRUE])
    /\ UNCHANGED <<pc, req, tracker, answers, overlapped>>

\* Tracker.Observe: a session without state gets an empty one.
Observed(t) == IF log[req[t].entry].kind = "report"
               THEN Goto(t, "check") /\ UNCHANGED req ELSE Return(t)
ResyncObserve(t) ==
    LET s == req[t].s
        i == req[t].entry
        fresh == sessions[s] = 0
    IN  /\ pc[t] = "observe"
        /\ sessions' = IF fresh THEN [sessions EXCEPT ![s] = Len(objs) + 1] ELSE sessions
        /\ objs' = IF fresh THEN Append(objs, newSessionState)
                   ELSE [objs EXCEPT ![sessions[s]] = observeEntry(@, i)]
        /\ manifest' = Current
        /\ Observed(t)
        /\ UNCHANGED <<log, answers, history>>
Observe(t) ==
    LET s == req[t].s
        i == req[t].entry
        fresh == sessions[s] = 0
    IN  /\ pc[t] = "observe"
        /\ sessions' = IF fresh THEN [sessions EXCEPT ![s] = Len(objs) + 1] ELSE sessions
        /\ objs' = IF fresh THEN Append(objs, observeEntry(newSessionState, i))
                   ELSE [objs EXCEPT ![sessions[s]] = observeEntry(@, i)]
        /\ IF manifest # Unknown
           THEN manifest' = <<manifest[1] + 1, i>>
           ELSE manifest' \in {Current} \cup (IF Busy THEN {Unknown} ELSE {})
        /\ Observed(t)
        /\ UNCHANGED <<log, answers, history>>

Answer(t, results, since) ==
    answers' = [answers EXCEPT ![req[t].s] = [got |-> results, since |-> since]]

\* sessionState.snapshot under mu: recompute the results when dirty.
Clean(st) == IF st.dirty THEN [st EXCEPT !.results = st.seen, !.dirty = FALSE] ELSE st

\* The first half of Tracker.Snapshot.
TrustInvalid(st) == TRUE
Usable(st) == ~st.invalid

Check(t) ==
    LET p       == sessions[req[t].s]
        changed == manifest # Unknown /\ manifest # Current
    IN  /\ pc[t] = "check"
        /\ manifest' = Current
        /\ IF p # 0 /\ Usable(objs[IF p = 0 THEN 1 ELSE p]) /\ ~changed
           THEN /\ objs' = [objs EXCEPT ![p] = Clean(@)]
                /\ Answer(t, Clean(objs[p]).results, Len(log))
                /\ Return(t)
           ELSE /\ req' = [req EXCEPT ![t].since = Len(log)]
                /\ Goto(t, "scan")
                /\ UNCHANGED <<objs, answers>>
        /\ UNCHANGED <<log, sessions, history>>

\* rebuildSession: ForEachEntryAtPath under the store lock, not under mu.
Scan(t) ==
    /\ pc[t] = "scan"
    /\ req' = [req EXCEPT ![t].found = Rebuilt(req[t].s)]
    /\ Goto(t, "install")
    /\ UNCHANGED <<log, tracker, answers, history>>

\* The second half of rebuildSession, under mu; when the manifest cannot be
\* read the state is installed all the same and the request fails.
Install(t) ==
    /\ pc[t] = "install"
    /\ objs' = Append(objs, req[t].found)
    /\ sessions' = [sessions EXCEPT ![req[t].s] = Len(objs) + 1]
    /\ \/ /\ manifest' = Current
          /\ req' = [req EXCEPT ![t].ptr = Len(objs) + 1,
                                ![t].found = newSessionState]
          /\ Goto(t, "compute")
       \/ Busy /\ Return(t) /\ UNCHANGED manifest
    /\ UNCHANGED <<log, answers, history>>

\* rebuilt.snapshot(profile) runs without mu: it reads the entries, computes
\* for a while, and then stores the results and clears the dirty flag.
Compute(t) ==
    /\ pc[t] = "compute"
    /\ req' = [req EXCEPT ![t].found = Clean(objs[req[t].ptr])]
    /\ Goto(t, "store")
    /\ UNCHANGED <<log, tracker, answers, history>>

Store(t) ==
    /\ pc[t] = "store"
    /\ objs' = [objs EXCEPT ![req[t].ptr].results = req[t].found.results,
                            ![req[t].ptr].dirty = FALSE]
    /\ Answer(t, req[t].found.results, req[t].since)
    /\ Return(t)
    /\ UNCHANGED <<log, sessions, manifest, history>>

\* The store is busy: Snapshot returns the error.
Fail(t) ==
    /\ Busy
    /\ pc[t] \in {"check", "scan"}
    /\ Return(t)
    /\ UNCHANGED <<log, tracker, answers, history>>

ExternalWrite ==
    /\ Len(log) < MaxLog
    /\ Cardinality({i \in 1..Len(log) : ~log[i].own}) < MaxExternal
    /\ \E s \in Sessions : \E e \in Entries(s, FALSE) : log' = Append(log, e)
    /\ UNCHANGED <<pc, req, tracker, answers, history>>

Restart ==
    /\ Restarts
    /\ restarted' = TRUE
    /\ pc' = [t \in Threads |-> "idle"]
    /\ req' = [t \in Threads |-> NoReq]
    /\ objs' = <<>>
    /\ sessions' = [s \in Sessions |-> 0]
    /\ manifest' = Unknown
    /\ answers' = [s \in Sessions |-> NoAnswer]
    /\ overlapped' = {}
    /\ UNCHANGED <<log, requests>>

Request(t) ==
    \/ Record(t) \/ RecordLost(t) \/ RecordFailure(t) \/ Observe(t) \/ Check(t)
    \/ Scan(t) \/ Install(t) \/ Compute(t) \/ Store(t) \/ Fail(t)

Next ==
    \/ \E t \in Threads : Request(t)
    \/ ExternalWrite
    \/ Restart

Spec == Init /\ [][Next]_vars

-----------------------------------------------------------------------------
(* Properties.                                                              *)

\* "Immediate session assessment": an answer is made of exactly the session's
\* entries, in log order, up to a point that is not before the request's
\* manifest check (Snapshot).
Exact(s) == \E n \in answers[s].since..Len(log) : answers[s].got = Reference(s, n)
AnswersExact == \A s \in Sessions : Exact(s)

\* The server has run since the log began, and nobody else has written to the
\* session.
Alone(s) == ~restarted /\ \A i \in 1..Len(log) : log[i].s = s => log[i].own

\* The client has waited for each answer before its next request.  Requests of
\* the other sessions overlap as they like.
Sequential == Sessions \ overlapped

\* Whatever is written to other sessions, by requests that overlap or by other
\* processes, whatever fails and whatever store is busy, a session that the
\* server has to itself is answered exactly (Observe, Snapshot).
ExactAlone == \A s \in Sequential : Alone(s) => Exact(s)

\* The cached state of a session that the server has to itself is what a rebuild
\* would make, but for an entry that is recorded and not yet observed: the
\* fingerprint that all sessions share need not report anything for it.
CacheCurrent ==
    \A s \in Sequential :
        (Alone(s) /\ sessions[s] # 0 /\ ~\E t \in Threads : pc[t] = "observe" /\ req[t].s = s) =>
            Clean(objs[sessions[s]]).results = Reference(s, Len(log))

Once(seq, i) == Cardinality({k \in 1..Len(seq) : seq[k] = i}) = 1

\* Whatever other processes write, an answer contains each entry this server
\* had recorded for the session before, exactly once.
OwnCovered ==
    ~restarted =>
        \A s \in Sequential : \A i \in 1..answers[s].since :
            (log[i].s = s /\ log[i].own /\ log[i].kind # "failure") =>
                Once(answers[s].got, i)

\* Even requests of one session that overlap, which may miss entries or count
\* them twice, never show an entry of another session.
AnswersApart == \A s \in Sessions : \A i \in ToSet(answers[s].got) : Assessed(s, i)

\* A report is never assessed without its prescription, even when the
\* prescription is older than this server process or came from another one:
\* a state that lacks it is invalid and rebuilt.
AnswersLinked ==
    \A s \in Sequential : \A i \in ToSet(answers[s].got) :
        (log[i].kind = "report" /\ log[log[i].ref].kind = "prescribe") =>
            log[i].ref \in ToSet(answers[s].got)

\* What one answer showed, the session's later answers show too, until the
\* server is restarted (again).
AnswersMonotone ==
    [][Restart \/
         \A s \in Sequential : ToSet(answers[s].got) \subseteq ToSet(answers'[s].got)]_vars

\* The state of one server: its types, the cached states against the log, the
\* entries it recorded itself and no others (Snapshot, Observe).
StatesSound == TypeOK /\ CacheCurrent /\ OwnCovered /\ AnswersApart
=============================================================================
