----------------------------- MODULE Recorders -----------------------------
(***************************************************************************)
(* The front ends that record into one evidence store: the tools of an MCP *)
(* server (run_command, the prescribe tools, report) and the evidra         *)
(* commands (record, import, prescribe, report), all through               *)
(* lifecycle.Service, and the best-effort copy of their entries at the      *)
(* hosted API.                                                              *)
(*                                                                          *)
(* Requests are goroutines of one server process, shells are processes of   *)
(* their own.  The store is what AppendLog promises and EvidenceStore       *)
(* implements: an append is atomic; one that fails may leave its entry.     *)
(***************************************************************************)
EXTENDS Integers, Sequences, FiniteSets

CONSTANTS
    Requests, Shells,   \* who calls: goroutines of the server, command-line processes
    Sessions,           \* session ids that callers pass
    NoSession,          \* no session id is passed
    Intents,            \* intent digest and resource shape
    Modes,              \* EVIDRA_EVIDENCE_WRITE_MODE: "strict", "best_effort"
    Tools,              \* the tools the server offers
    Commands,           \* what run_command is asked to run
    Outcomes,           \* what a report says
    TTL,                \* of the retry tracker
    Exited,             \* how commands end
    MaxCalls,           \* bound: MaxCalls[c] calls of c
    MaxFaults,          \* bound: failed operations and crashes
    MaxTime             \* bound: the clock

Callers == Requests \cup Shells
Exits   == {"zero", "positive", "negative", "none"}
Outcome == [verdict: {"success", "failure", "error", "declined"}, exit: Exits,
            why: BOOLEAN]   \* declined with trigger and reason

ASSUME RecordersAssumption ==
    /\ Requests \cap Shells = {} /\ NoSession \notin Sessions \cup Int
    /\ Sessions \cap Int = {} /\ Intents # {} /\ Outcomes \subseteq Outcome
    /\ Modes \subseteq {"strict", "best_effort"}
    /\ Tools \subseteq {"run_command", "prescribe_smart", "prescribe_full", "report"}
    /\ Commands \subseteq {"refused", "read", "mutation", "underived", "unquoted"}
    /\ Exited \subseteq {"zero", "positive", "negative"}
    /\ MaxCalls \in [Callers -> Nat] /\ {TTL, MaxFaults, MaxTime} \subseteq Nat

VARIABLES
    mode,    \* the write mode
    log,     \* the entries of the store
    fresh,   \* ids drawn so far; the last one's id
    job,     \* job[c]: the call c works on
    retry,   \* RetryTracker.entries
    now,     \* the clock of the retry tracker
    hosted,  \* ids of the entries at the API
    calls, faults,
    seen,    \* history, since the server's start: the counts returned for an intent
    told,    \* history: the ids callers were given in successful answers
    ran      \* history: commands that ran to their end in a call that returned

vars == <<mode, log, fresh, job, retry, now, hosted, calls, faults, seen, told, ran>>
history == <<seen, told, ran>>

-----------------------------------------------------------------------------
(* A generated session is named by the id of the entry it is generated for. *)
NoOutcome == [verdict |-> "declined", exit |-> "none", why |-> FALSE]

Entry == [id: Nat, session: Sessions \cup Nat, ref: Nat, exit: Exits,
          type: {"prescribe", "report", "finding", "canonicalization_failure", "signal"}]
Job   == [tool: {"none", "run_command", "prescribe", "report", "record"},
          pc: {"idle", "count", "append", "finding", "forward", "run", "answer", "find",
               "append_report", "forward_report", "assess", "collect", "send"},
          session: Sessions \cup {NoSession} \cup Nat, intent: Intents,
          kind: {"read", "mutation", "unquoted"},
          findings: BOOLEAN, outcome: Outcome, id: Nat, rid: Nat, batch: SUBSET Nat,
          clean: BOOLEAN]
Idle  == [tool |-> "none", pc |-> "idle", session |-> NoSession,
          intent |-> CHOOSE i \in Intents : TRUE, kind |-> "mutation", findings |-> FALSE,
          outcome |-> NoOutcome, id |-> 0, rid |-> 0, batch |-> {}, clean |-> TRUE]

Ids == {log[k].id : k \in 1..Len(log)}
\* get_event and the resource evidra://event/<id>
GetEvent(id) == id \in Ids
Forgotten == [i \in Intents |-> [first |-> 0, count |-> 0]]

TypeOK ==
    /\ mode \in Modes /\ log \in Seq(Entry) /\ fresh \in Nat
    /\ job \in [Callers -> Job]
    /\ retry \in [Intents -> [first: Nat, count: Nat]]
    /\ now \in Nat /\ hosted \subseteq Nat
    /\ calls \in [Callers -> Nat] /\ faults \in 0..MaxFaults

Init ==
    /\ mode \in Modes /\ log = <<>> /\ fresh = 0
    /\ job = [c \in Callers |-> Idle]
    /\ retry = Forgotten /\ now = 0 /\ hosted = {}
    /\ calls = [c \in Callers |-> 0] /\ faults = 0
    /\ seen = [i \in Intents |-> <<>>] /\ told = {} /\ ran = {}

-----------------------------------------------------------------------------
(* appendEntry and lastHash.  The hash of the last entry cannot be read, or  *)
(* the append fails without ("refused") or with ("torn") the entry written. *)
Results == {"ok", "unread", "refused", "torn"}

\* best_effort goes on after a failed write, and says so.
Lenient == mode = "best_effort"
AcceptedAlways(how) == TRUE
Accepted(how) == how = "ok" \/ Lenient
Written(how) == how \in {"ok", "torn"} \/ (how = "unread" /\ Lenient)
WithoutError(how) == how = "ok" \/ Lenient
Persisted(how) == how = "ok" \/ (how = "unread" /\ Lenient)

Fault(how) ==
    /\ how # "ok" => faults < MaxFaults
    /\ faults' = IF how = "ok" THEN faults ELSE faults + 1

\* BuildEntry draws the id; a generated session belongs to the entry.
NewEntry(type, session, ref, exit) ==
    [id |-> fresh + 1, type |-> type, ref |-> ref, exit |-> exit,
     session |-> IF session = NoSession THEN fresh + 1 ELSE session]
AppendEntry(e, kept) ==
    /\ fresh' = fresh + 1
    /\ log' = IF kept THEN Append(log, e) ELSE log

Work(c, r) == job' = [job EXCEPT ![c] = r]
On(c, how, pc) == [job[c] EXCEPT !.pc = pc, !.clean = @ /\ how = "ok"]

\* The call returns; who had a command run is told what came of it.
Return(c, how) ==
    /\ Work(c, Idle)
    /\ ran' = IF /\ job[c].tool \in {"run_command", "record"} /\ job[c].kind # "read"
                 /\ job[c].outcome.exit # "none"
              THEN ran \cup {[tool |-> job[c].tool, id |-> job[c].id,
                              exit |-> job[c].outcome.exit,
                              clean |-> job[c].clean /\ how = "ok"]}
              ELSE ran
Give(id) == told' = told \cup {id}

Begin(c, r) ==
    /\ job[c].pc = "idle" /\ calls[c] < MaxCalls[c]
    /\ calls' = [calls EXCEPT ![c] = @ + 1]
    /\ Work(c, r)

VerdictFromExitCode(e) ==
    CASE e = "zero" -> "success" [] e = "negative" -> "error"
      [] e = "positive" -> "failure"
Ended(e) == [verdict |-> VerdictFromExitCode(e), exit |-> e, why |-> FALSE]
ValidDecision(o) ==
    IF o.verdict = "declined" THEN o.exit = "none" /\ o.why
    ELSE ~o.why /\ o.exit # "none" /\ o.verdict = VerdictFromExitCode(o.exit)

-----------------------------------------------------------------------------
(* Calls                                                                    *)

Allowed(kind)   == kind # "refused"
\* What ClassifyCommand does not know counts as a read.
Mutating(kind)  == kind \notin {"refused", "read"}
Derivable(kind) == kind # "underived"              \* its resource can be parsed
Parses(kind)    == kind # "unquoted"               \* its quotes are closed

\* run_command: a command that is not allowed or cannot be described is answered
\* at once, and a read is not recorded.
RunCommand(c) ==
    /\ "run_command" \in Tools
    /\ \E kind \in Commands, i \in Intents :
          Begin(c, IF Allowed(kind) /\ Derivable(kind)
                   THEN [Idle EXCEPT !.tool = "run_command", !.intent = i, !.kind = kind,
                                     !.pc = IF Mutating(kind) THEN "count" ELSE "run"]
                   ELSE Idle)
    /\ UNCHANGED <<mode, log, fresh, retry, now, hosted, faults, history>>

\* A prescription of an artifact that cannot be parsed: prescribe_full or a
\* command leaves an entry that says so, unless that fails too.
CanonicalizationFailure(c) ==
    /\ c \in Shells \/ "prescribe_full" \in Tools
    /\ \E s \in Sessions \cup {NoSession}, how \in {"ok", "refused", "torn"} :
          /\ Begin(c, Idle) /\ Fault(how)
          /\ AppendEntry(NewEntry("canonicalization_failure", s, 0, "none"),
                         how # "refused")
    /\ UNCHANGED <<mode, retry, now, hosted, history>>

\* prescribe_smart and prescribe_full; preparePrescribeInput refuses one that
\* names neither an artifact nor a resource.
Prepared(resource) == resource # "missing"
PrescribeTool(c) ==
    /\ Tools \cap {"prescribe_smart", "prescribe_full"} # {}
    /\ \E i \in Intents, s \in Sessions \cup {NoSession},
          resource \in {"given", "missing"} :
          Begin(c, IF Prepared(resource)
                   THEN [Idle EXCEPT !.tool = "prescribe", !.pc = "count", !.intent = i,
                                     !.session = s]
                   ELSE Idle)
    /\ UNCHANGED <<mode, log, fresh, retry, now, hosted, faults, history>>

\* Anyone may report on any id that was given out, and on others; the command
\* checks the decision before it asks the service.
Report(id, s, o) ==
    [Idle EXCEPT !.tool = "report", !.pc = "find", !.id = id, !.session = s, !.outcome = o]
ReportTool(c) ==
    /\ "report" \in Tools
    /\ \E id \in told \cup {0}, s \in Sessions \cup {NoSession}, o \in Outcomes :
          Begin(c, Report(id, s, o))
    /\ UNCHANGED <<mode, log, fresh, retry, now, hosted, faults, history>>
CmdReport(c) ==
    /\ \E id \in told \cup {0}, s \in Sessions \cup {NoSession}, o \in Outcomes :
          Begin(c, IF ValidDecision(o) THEN Report(id, s, o) ELSE Idle)
    /\ UNCHANGED <<mode, log, fresh, retry, now, hosted, faults, history>>

\* The command prescribe, and import with the exit code of its input, which
\* records what record does
CmdPrescribe(c) ==
    \E s \in Sessions \cup {NoSession}, f \in BOOLEAN :
        /\ Begin(c, [Idle EXCEPT !.tool = "prescribe", !.pc = "append", !.session = s,
                                 !.findings = f])
        /\ UNCHANGED <<mode, log, fresh, retry, now, hosted, faults, history>>
CmdImport(c) ==
    \E s \in Sessions \cup {NoSession}, e \in Exited :
        /\ Begin(c, [Idle EXCEPT !.tool = "record", !.pc = "append", !.session = s,
                                 !.outcome = Ended(e)])
        /\ UNCHANGED <<mode, log, fresh, retry, now, hosted, faults, history>>

\* record runs the command before anything is recorded; one whose intent is not
\* known, or that cannot be started, is not recorded at all.
Recordable(e) == e # "none"
CmdRecord(c) ==
    \E s \in Sessions \cup {NoSession}, e \in Exited \cup {"none"} :
        /\ Begin(c, IF Recordable(e)
                    THEN [Idle EXCEPT !.tool = "record", !.pc = "append", !.session = s,
                                      !.outcome = Ended(e)]
                    ELSE Idle)
        /\ UNCHANGED <<mode, log, fresh, retry, now, hosted, faults, history>>

-----------------------------------------------------------------------------
(* Prescribe                                                                *)

\* RetryTracker.Record, before anything is stored.
Expired(r) == r.count = 0 \/ now > r.first + TTL
Counted(r) ==
    IF Expired(r) THEN [first |-> now, count |-> 1] ELSE [r EXCEPT !.count = @ + 1]

CountRetry(c) ==
    /\ job[c].pc = "count"
    /\ LET i == job[c].intent IN
          /\ retry' = [retry EXCEPT ![i] = Counted(@)]
          /\ seen' = [seen EXCEPT
                ![i] = Append(@, [at |-> now, count |-> Counted(retry[i]).count])]
    /\ Work(c, On(c, "ok", "append"))
    /\ UNCHANGED <<mode, log, fresh, now, hosted, calls, faults, told, ran>>

\* The ticker and the time it goes by; an answer must not depend on when it fires.
NoCount == [first |-> 0, count |-> 0]
CleanedEarly(r) == IF r.count > 0 /\ now >= r.first + TTL THEN NoCount ELSE r
Cleaned(r)      == IF r.count > 0 /\ now > r.first + TTL THEN NoCount ELSE r
Cleanup ==
    /\ retry' = [i \in Intents |-> Cleaned(retry[i])]
    /\ retry' # retry
    /\ UNCHANGED <<mode, log, fresh, job, now, hosted, calls, faults, history>>
\* Time matters from the first count on.
Tick ==
    /\ now < MaxTime /\ now' = now + 1 /\ \E i \in Intents : retry[i].count > 0
    /\ UNCHANGED <<mode, log, fresh, job, retry, hosted, calls, faults, history>>

\* The pipeline of a prescription: an error ends the call, except that
\* run_command goes on without a prescription.
AfterPrescription(c) ==
    CASE job[c].tool = "prescribe" -> "answer" [] job[c].tool = "run_command" -> "run"
      [] OTHER -> "find"

AppendPrescription(c) ==
    /\ job[c].pc = "append"
    /\ \E how \in Results :
          LET e == NewEntry("prescribe", job[c].session, 0, "none") IN
          /\ Fault(how) /\ AppendEntry(e, Written(how))
          /\ \/ /\ Accepted(how)
                /\ LET next == IF Persisted(how) /\ c \in Requests THEN "forward"
                               ELSE IF Persisted(how) /\ job[c].findings THEN "finding"
                               ELSE AfterPrescription(c)
                   IN  Work(c, [On(c, how, next) EXCEPT
                                  !.id = e.id,
                                  !.session = IF job[c].tool = "prescribe" THEN e.session
                                              ELSE @])
                /\ UNCHANGED ran
             \/ /\ ~Accepted(how) /\ job[c].tool = "run_command"
                /\ Work(c, On(c, how, "run"))
                /\ UNCHANGED ran
             \/ /\ ~Accepted(how) /\ job[c].tool # "run_command"
                /\ Return(c, how)
    /\ UNCHANGED <<mode, retry, now, hosted, calls, seen, told>>

\* writeFindingsEvidence: an entry that fails is left out.
AppendFinding(c) ==
    /\ job[c].pc = "finding"
    /\ \E how \in Results :
          /\ Fault(how)
          /\ AppendEntry(NewEntry("finding", job[c].session, 0, "none"), Written(how))
    /\ Work(c, On(c, "ok", AfterPrescription(c)))
    /\ UNCHANGED <<mode, retry, now, hosted, calls, history>>

\* tryForwardEntry: the server sends an entry once.
Forward(c) ==
    /\ job[c].pc \in {"forward", "forward_report"}
    /\ LET id == IF job[c].pc = "forward" THEN job[c].id ELSE job[c].rid IN
          \/ hosted' = hosted \cup {id} /\ UNCHANGED faults
          \/ faults < MaxFaults /\ faults' = faults + 1 /\ UNCHANGED hosted
    /\ Work(c, On(c, "ok", IF job[c].pc = "forward" THEN AfterPrescription(c)
                           ELSE "assess"))
    /\ UNCHANGED <<mode, log, fresh, retry, now, calls, history>>

\* The command of run_command.  "positive" is also the exit code of one that
\* cannot be started, "negative" that of one that a signal ends.
AlwaysSuccess(e) == "success"
AutoVerdict(e) == IF e = "zero" THEN "success" ELSE "failure"
Run(c) ==
    /\ job[c].pc = "run"
    /\ \E e \in IF Parses(job[c].kind) THEN Exited ELSE {"none"} :
          Work(c, [job[c] EXCEPT
                     !.pc = IF job[c].id # 0 /\ e # "none" THEN "find" ELSE "answer",
                     !.outcome = [verdict |-> AutoVerdict(e), exit |-> e, why |-> FALSE]])
    /\ UNCHANGED <<mode, log, fresh, retry, now, hosted, calls, faults, history>>

Answer(c) ==
    /\ job[c].pc = "answer"
    /\ \/ job[c].tool = "run_command" /\ Return(c, "ok") /\ UNCHANGED told
       \/ /\ job[c].tool = "prescribe" /\ c \in Requests
          /\ Return(c, "ok") /\ Give(job[c].id)
       \/ /\ job[c].tool = "prescribe" /\ c \in Shells
          /\ Work(c, On(c, "ok", "collect")) /\ Give(job[c].id) /\ UNCHANGED ran
    /\ UNCHANGED <<mode, log, fresh, retry, now, hosted, calls, faults, seen>>

-----------------------------------------------------------------------------
(* Report                                                                   *)

AnySession(c, e) == TRUE
SameSession(c, e) == job[c].session \in {NoSession, e.session}

\* loadReportPrescription takes any entry with the id.
Refuse(c) ==
    /\ job[c].pc = "find"
    /\ \/ ~ValidDecision(job[c].outcome)
       \/ \E k \in 1..Len(log) : log[k].id = job[c].id /\ ~SameSession(c, log[k])
    /\ Return(c, "ok")
    /\ UNCHANGED <<mode, log, fresh, retry, now, hosted, calls, faults, seen, told>>
FindFails(c) ==
    /\ job[c].pc = "find" /\ ValidDecision(job[c].outcome)
    /\ Fault("unread") /\ Return(c, "unread")
    /\ UNCHANGED <<mode, log, fresh, retry, now, hosted, calls, seen, told>>
\* writeUnknownPrescriptionSignal
Unknown(c) ==
    /\ job[c].pc = "find" /\ ValidDecision(job[c].outcome) /\ ~GetEvent(job[c].id)
    /\ \E how \in Results \ {"unread"} :
          /\ Fault(how) /\ Return(c, how)
          /\ AppendEntry(NewEntry("signal", job[c].session, job[c].id, "none"),
                         how # "refused")
    /\ UNCHANGED <<mode, retry, now, hosted, calls, seen, told>>
Find(c) ==
    /\ job[c].pc = "find" /\ ValidDecision(job[c].outcome)
    /\ \E k \in 1..Len(log) :
          /\ log[k].id = job[c].id /\ SameSession(c, log[k])
          /\ Work(c, [job[c] EXCEPT !.pc = "append_report",
                              !.session = IF @ = NoSession THEN log[k].session ELSE @])
    /\ UNCHANGED <<mode, log, fresh, retry, now, hosted, calls, faults, history>>

AppendReport(c) ==
    /\ job[c].pc = "append_report"
    /\ \E how \in Results :
          LET e == NewEntry("report", job[c].session, job[c].id, job[c].outcome.exit) IN
          /\ Fault(how) /\ AppendEntry(e, Written(how))
          /\ \/ /\ Accepted(how) /\ UNCHANGED ran
                /\ Work(c, [On(c, how, IF Persisted(how) /\ c \in Requests
                                       THEN "forward_report" ELSE "assess")
                            EXCEPT !.rid = e.id])
             \/ ~Accepted(how) /\ Return(c, how)
    /\ UNCHANGED <<mode, retry, now, hosted, calls, seen, told>>

\* The answer carries an assessment: if that fails the call fails, and what is
\* stored stays.
Assess(c) ==
    /\ job[c].pc = "assess"
    /\ \/ /\ faults < MaxFaults /\ faults' = faults + 1
          /\ Return(c, "ok") /\ UNCHANGED told
       \/ /\ UNCHANGED faults
          /\ CASE job[c].tool = "run_command" -> Return(c, "ok") /\ UNCHANGED told
               [] job[c].tool = "report" /\ c \in Requests ->
                    Return(c, "ok") /\ Give(job[c].rid)
               [] job[c].tool = "report" /\ c \in Shells ->
                    Work(c, On(c, "ok", "collect")) /\ Give(job[c].rid) /\ UNCHANGED ran
               [] OTHER -> /\ Work(c, On(c, "ok", "collect")) /\ UNCHANGED ran
                           /\ told' = told \cup {job[c].id, job[c].rid}
    /\ UNCHANGED <<mode, log, fresh, retry, now, hosted, calls, seen>>

-----------------------------------------------------------------------------
(* forwardEvidence: a command sends its whole session each time.            *)
Collect(c) ==
    /\ job[c].pc = "collect"
    /\ LET mine == {k \in 1..Len(log) : log[k].session = job[c].session}
       IN  Work(c, [job[c] EXCEPT !.pc = "send", !.batch = {log[k].id : k \in mine}])
    /\ UNCHANGED <<mode, log, fresh, retry, now, hosted, calls, faults, history>>

\* handleBatch: an entry that is there already is an error, the others go in.
Saved(batch) == hosted \cup batch
Send(c) ==
    /\ job[c].pc = "send"
    /\ Return(c, "ok")
    /\ \/ hosted' = Saved(job[c].batch) /\ UNCHANGED faults
       \/ /\ faults < MaxFaults /\ faults' = faults + 1
          /\ \E n \in 0..fresh : hosted' = Saved({id \in job[c].batch : id <= n})
    /\ UNCHANGED <<mode, log, fresh, retry, now, calls, seen, told>>

-----------------------------------------------------------------------------
\* The server dies with its requests and counts, a command by itself.
StopServer ==
    /\ faults < MaxFaults /\ faults' = faults + 1
    /\ \E c \in Requests : job[c] # Idle
    /\ job' = [c \in Callers |-> IF c \in Requests THEN Idle ELSE job[c]]
    /\ retry' = Forgotten /\ seen' = [i \in Intents |-> <<>>]
    /\ UNCHANGED <<mode, log, fresh, now, hosted, calls, told, ran>>
KillShell(c) ==
    /\ faults < MaxFaults /\ faults' = faults + 1
    /\ job[c] # Idle /\ Work(c, Idle)
    /\ UNCHANGED <<mode, log, fresh, retry, now, hosted, calls, history>>

Step(c) ==
    \/ CanonicalizationFailure(c) \/ AppendPrescription(c) \/ Answer(c)
    \/ Refuse(c) \/ FindFails(c) \/ Unknown(c) \/ Find(c) \/ AppendReport(c) \/ Assess(c)

Next ==
    \/ \E c \in Requests :
          RunCommand(c) \/ PrescribeTool(c) \/ ReportTool(c)
          \/ CountRetry(c) \/ Run(c) \/ Forward(c) \/ Step(c)
    \/ \E c \in Shells :
          \/ CmdPrescribe(c) \/ CmdImport(c) \/ CmdRecord(c) \/ CmdReport(c)
          \/ AppendFinding(c) \/ Collect(c) \/ Send(c) \/ Step(c) \/ KillShell(c)
    \/ Cleanup \/ Tick \/ StopServer

Spec == Init /\ [][Next]_vars

-----------------------------------------------------------------------------
\* A report names an entry that was stored before it, of the same session:
\* whatever ids and sessions callers pass, and whichever writes fail.
ReportsLinked ==
    \A k \in 1..Len(log) : log[k].type = "report" =>
        \E j \in 1..k-1 : log[j].id = log[k].ref /\ log[j].session = log[k].session

\* In strict mode an id that a caller was given can be looked up from then on,
\* and nobody is accused of reporting an unprescribed action for it.
AnswersStand ==
    ~Lenient => /\ \A id \in told : GetEvent(id)
                /\ \A k \in 1..Len(log) : log[k].type = "signal" => log[k].ref \notin told

\* "Mutations are automatically recorded as evidence": one whose call met no
\* fault has its prescription and a report with its exit code.  A command of
\* run_command that a signal ended has its prescription only.
MutationsRecorded ==
    \A r \in ran : r.clean =>
        LET reports == {k \in 1..Len(log) : log[k].type = "report" /\ log[k].ref = r.id}
        IN
        /\ \E k \in 1..Len(log) : log[k].type = "prescribe" /\ log[k].id = r.id
        /\ IF r.tool = "run_command" /\ r.exit = "negative" THEN reports = {}
           ELSE \E k \in reports : log[k].exit = r.exit

\* The retry count of a prescription goes by the first attempt of the last TTL
\* that began a count, whenever the ticker fires.
RetryCountExact ==
    \A i \in Intents : \A n \in 1..Len(seen[i]) :
        LET start == n - 1 - (seen[i][n-1].count - 1) IN
        seen[i][n].count =
            IF n = 1 \/ (n > 1 /\ seen[i][n].at > seen[i][start].at + TTL) THEN 1
            ELSE seen[i][n-1].count + 1

\* The API has only what the store has, and unless something failed it has all
\* prescriptions and reports when every call has returned.
HostedComplete ==
    /\ hosted \subseteq Ids
    /\ (faults = 0 /\ \A c \in Callers : job[c] = Idle) =>
          \A k \in 1..Len(log) :
              log[k].type \in {"prescribe", "report"} => log[k].id \in hosted

\* The types of the state, and the retry counts in it.
RetriesSound == TypeOK /\ RetryCountExact
=============================================================================
