--------------------------- MODULE EvidraMcpProofs ---------------------------
(***************************************************************************)
(* Proofs about the evidra-mcp binary: its recording half, for every number *)
(* of requests, processes, sessions, calls and faults, and its proxy half,  *)
(* for every number of calls, ids, requests of upstream and faults.         *)
(***************************************************************************)
EXTENDS EvidraMcp, TLAPS

-----------------------------------------------------------------------------
(* Recording: the invariant                                                 *)

\* Types.  Ids are drawn in the order of the log, and nothing has an id that
\* was not drawn.
Ran == [tool: {"run_command", "record"}, id: Nat, exit: Exits, clean: BOOLEAN]
Seen == [at: Nat, count: Nat]
Types == TypeOK /\ told \subseteq Nat /\ ran \subseteq Ran /\ seen \in [Intents -> Seq(Seen)]

Ordered(k) == log[k].id \in 1..fresh /\ \A j \in 1..k-1 : log[j].id < log[k].id
Drawn ==
    /\ \A k \in 1..Len(log) : Ordered(k) /\ log[k].ref \in 0..fresh
    /\ \A c \in Callers : job[c].id \in 0..fresh /\ job[c].rid \in 0..fresh
    /\ told \subseteq 0..fresh /\ \A r \in ran : r.id \in 0..fresh

\* Which calls requests and processes work on, and where in them they are.
PlaceOfRequest(r) ==
    \/ r = Idle
    \/ /\ r.tool = "run_command"
       /\ r.pc \in {"count", "append", "forward", "run", "answer", "find", "append_report",
                    "forward_report", "assess"}
    \/ r.tool = "prescribe" /\ r.pc \in {"count", "append", "forward", "answer"}
    \/ r.tool = "report" /\ r.pc \in {"find", "append_report", "forward_report", "assess"}
PlaceOfShell(r) ==
    \/ r = Idle
    \/ /\ r.tool = "prescribe"
       /\ r.pc \in {"append", "finding", "answer", "collect", "send"}
    \/ /\ r.tool = "record"
       /\ r.pc \in {"append", "finding", "find", "append_report", "assess", "collect", "send"}
    \/ /\ r.tool = "report"
       /\ r.pc \in {"find", "append_report", "assess", "collect", "send"}
Place == /\ \A c \in Requests : PlaceOfRequest(job[c])
         /\ \A c \in Shells : PlaceOfShell(job[c])

\* What a call is about to use is in the store.
Known(c) ==
    /\ job[c].pc = "append_report" =>
          \E k \in 1..Len(log) : log[k].id = job[c].id /\ log[k].session = job[c].session
    /\ job[c].pc = "forward" => job[c].id \in Ids
    /\ job[c].pc = "forward_report" => job[c].rid \in Ids
    /\ job[c].batch \subseteq Ids
Stored == hosted \subseteq Ids /\ \A c \in Callers : Known(c)

\* In strict mode a call has no id that is not in the store, and the store
\* accuses nobody but who reported without an id.
StrictJob(c) ==
    /\ job[c].id \in Ids \cup {0} /\ job[c].rid \in Ids \cup {0}
    /\ (job[c].tool \in {"prescribe", "record"} /\ job[c].pc \notin {"count", "append"})
           => job[c].id # 0
    /\ job[c].pc \in {"forward_report", "assess"} => job[c].rid # 0
Strict ==
    ~Lenient =>
        /\ told \subseteq Ids /\ \A c \in Callers : StrictJob(c)
        /\ \A k \in 1..Len(log) : log[k].type = "signal" => log[k].ref = 0

\* A call that met no fault and whose command is recorded has its prescription,
\* with a session that its report can be for, and its outcome ...
Acts(r) == r.tool = "record" \/ (r.tool = "run_command" /\ r.kind # "read")
Prescribed(r) ==
    \E k \in 1..Len(log) :
        /\ log[k].type = "prescribe" /\ log[k].id = r.id
        /\ r.session \in {NoSession, log[k].session}
Recorded(r) ==
    \E k \in 1..Len(log) : /\ log[k].type = "report" /\ log[k].ref = r.id
                           /\ log[k].exit = r.outcome.exit
Progress(c) ==
    LET r == job[c] IN
    (r.clean /\ Acts(r)) =>
        /\ r.pc \notin {"count", "append"} => Prescribed(r)
        /\ r.tool = "record" => ValidDecision(r.outcome) /\ r.outcome.exit # "none"
        /\ r.pc \in {"append_report", "forward_report", "assess", "collect", "send"} =>
              ValidDecision(r.outcome) /\ r.outcome.exit # "none"
        /\ r.pc \in {"forward_report", "assess", "collect", "send"} => Recorded(r)
        /\ (r.tool = "run_command" /\ r.pc \in {"count", "append", "forward", "run", "find"})
              => r.session = NoSession
        /\ r.pc = "answer" => r.outcome.exit = "none"
        /\ (r.tool = "run_command" /\ r.pc \in {"find", "append_report", "forward_report",
                                               "assess"}) =>
              /\ r.outcome.exit # "none" /\ r.outcome.verdict = AutoVerdict(r.outcome.exit)
              /\ ~r.outcome.why

\* ... and the id of what run_command prescribed is its own.
Early == {"count", "append", "forward", "run", "find", "answer"}   \* before it reports
NoReport(id) == \A k \in 1..Len(log) : log[k].type = "report" => log[k].ref # id
Own(id) == id \notin told /\ \A d \in Callers : job[d].rid # id
Private ==
    /\ \A c \in Callers : (job[c].tool = "run_command" /\ job[c].id # 0) =>
          /\ Own(job[c].id) /\ \A d \in Callers \ {c} : job[d].id # job[c].id
          /\ job[c].pc \in Early => NoReport(job[c].id)
    /\ \A r \in ran : (r.tool = "run_command" /\ r.id # 0) =>
          Own(r.id) /\ \A d \in Callers : job[d].id # r.id

\* What was not sent to the API yet, some call is going to send.
Sends(r, e) ==
    \/ r.tool = "prescribe" /\ r.pc = "finding" /\ r.session = e.session
    \/ r.tool = "record" /\ r.pc \in {"finding", "find"} /\ r.id = e.id
    \/ r.pc \in {"answer", "append_report", "assess", "collect"} /\ r.session = e.session
    \/ r.pc = "send" /\ e.id \in r.batch
Awaited(e) ==
    \/ \E c \in Requests : \/ job[c].pc = "forward" /\ job[c].id = e.id
                           \/ job[c].pc = "forward_report" /\ job[c].rid = e.id
    \/ \E c \in Shells : Sends(job[c], e)
Forwarded ==
    faults = 0 =>
        /\ \A c \in Callers : job[c].clean
        /\ \A k \in 1..Len(log) :
              log[k].type \in {"prescribe", "report"} => log[k].id \in hosted \/ Awaited(log[k])

\* The tracker counts from the attempt that began the last count, or it has
\* forgotten that one because it is too old: s is what it answered for an intent,
\* r what it has, t the time.
Start(s, n) == n - (s[n].count - 1)
Counting(s, r, t) ==
    LET n == Len(s) IN
    IF n = 0 THEN r.count = 0
    ELSE \/ r.count = s[n].count /\ r.first = s[Start(s, n)].at
         \/ r.count = 0 /\ t > s[Start(s, n)].at + TTL
Bounded(s) == \A n \in 1..Len(s) : s[n].count \in 1..n
Exact(s) ==
    \A n \in 1..Len(s) :
        s[n].count = IF n = 1 \/ (n > 1 /\ s[n].at > s[Start(s, n - 1)].at + TTL) THEN 1
                     ELSE s[n-1].count + 1
Counts == \A i \in Intents : Counting(seen[i], retry[i], now) /\ Bounded(seen[i])

-----------------------------------------------------------------------------
(* Jobs and entries                                                         *)

LEMMA IdleJob == Idle \in Job
<1> QED BY RecordersAssumption DEF Idle, Job, NoOutcome, Outcome, Exits

LEMMA EntryType ==
    ASSUME fresh \in Nat, NEW session \in Sessions \cup {NoSession} \cup Nat,
           NEW ref \in Nat, NEW exit \in Exits,
           NEW type \in {"prescribe", "report", "finding", "canonicalization_failure", "signal"}
    PROVE  LET e == NewEntry(type, session, ref, exit) IN
           /\ e \in Entry /\ e.id = fresh + 1 /\ e.type = type /\ e.ref = ref /\ e.exit = exit
           /\ session # NoSession => e.session = session
           /\ e.session # NoSession
<1> QED BY RecordersAssumption DEF NewEntry, Entry

LEMMA LogEntry ==
    ASSUME log \in Seq(Entry), NEW k \in 1..Len(log)
    PROVE  /\ log[k] \in Entry /\ log[k].id \in Nat /\ log[k].session \in Sessions \cup Nat
           /\ log[k].session # NoSession
<1>1. log[k] \in Entry
      OBVIOUS
<1> QED BY <1>1, RecordersAssumption DEF Entry

\* An entry goes to the end, if it is kept.
LEMMA Appended ==
    ASSUME log \in Seq(Entry), fresh \in Nat, NEW e \in Entry, NEW kept \in BOOLEAN,
           AppendEntry(e, kept)
    PROVE  /\ log' \in Seq(Entry) /\ fresh' \in Nat /\ fresh' = fresh + 1
           /\ kept => /\ Len(log') = Len(log) + 1 /\ log'[Len(log) + 1] = e
                      /\ \A k \in 1..Len(log) : log'[k] = log[k]
           /\ ~kept => log' = log
<1> QED BY DEF AppendEntry

LEMMA Worked ==
    ASSUME job \in [Callers -> Job], NEW c \in Callers, NEW r \in Job, Work(c, r)
    PROVE  /\ job' \in [Callers -> Job] /\ job'[c] = r
           /\ \A d \in Callers \ {c} : job'[d] = job[d]
<1> QED BY DEF Work

LEMMA OnJob ==
    ASSUME job \in [Callers -> Job], NEW c \in Callers, NEW how,
           NEW pc \in {"idle", "count", "append", "finding", "forward", "run", "answer", "find",
                       "append_report", "forward_report", "assess", "collect", "send"}
    PROVE  LET r == On(c, how, pc) IN
           /\ r \in Job /\ r.pc = pc /\ r.clean = (job[c].clean /\ how = "ok")
           /\ r.tool = job[c].tool /\ r.session = job[c].session /\ r.kind = job[c].kind
           /\ r.outcome = job[c].outcome /\ r.id = job[c].id /\ r.rid = job[c].rid
           /\ r.batch = job[c].batch
<1>1. job[c] \in Job
      OBVIOUS
<1>2. (job[c].clean /\ how = "ok") \in BOOLEAN
      OBVIOUS
<1>3. ASSUME NEW b \in BOOLEAN
      PROVE  LET r == [job[c] EXCEPT !.pc = pc, !.clean = b] IN
             /\ r \in Job /\ r.pc = pc /\ r.clean = b
             /\ r.tool = job[c].tool /\ r.session = job[c].session /\ r.kind = job[c].kind
             /\ r.outcome = job[c].outcome /\ r.id = job[c].id /\ r.rid = job[c].rid
             /\ r.batch = job[c].batch
      BY <1>1 DEF Job
<1> QED BY <1>2, <1>3 DEF On

LEMMA Faulted ==
    ASSUME faults \in 0..MaxFaults, NEW how, Fault(how)
    PROVE  faults' \in 0..MaxFaults /\ (faults' = 0 => faults = 0 /\ how = "ok")
           /\ (faults' = faults => how = "ok")
<1> QED BY RecordersAssumption DEF Fault

LEMMA Begun ==
    ASSUME TypeOK, NEW c \in Callers, NEW r \in Job, Begin(c, r)
    PROVE  /\ job[c].pc = "idle" /\ calls' \in [Callers -> Nat]
           /\ job' \in [Callers -> Job] /\ job'[c] = r
           /\ \A d \in Callers \ {c} : job'[d] = job[d]
<1> QED BY Worked DEF Begin, TypeOK

\* What a call leaves in the history when it returns.
Result(c, how) == [tool |-> job[c].tool, id |-> job[c].id, exit |-> job[c].outcome.exit,
                   clean |-> job[c].clean /\ how = "ok"]
LEMMA Returned ==
    ASSUME TypeOK, ran \subseteq Ran, NEW c \in Callers, NEW how, Return(c, how)
    PROVE  /\ job' \in [Callers -> Job] /\ job'[c] = Idle
           /\ \A d \in Callers \ {c} : job'[d] = job[d]
           /\ ran' \subseteq Ran
           /\ \/ ran' = ran
              \/ /\ ran' = ran \cup {Result(c, how)}
                 /\ job[c].tool \in {"run_command", "record"} /\ job[c].kind # "read"
                 /\ job[c].outcome.exit # "none"
<1>1. job[c] \in Job
      BY DEF TypeOK
<1>2. (job[c].clean /\ how = "ok") \in BOOLEAN
      OBVIOUS
<1>3. job[c].tool \in {"run_command", "record"} => Result(c, how) \in Ran
      BY <1>1, <1>2 DEF Job, Outcome, Exits, Ran, Result
<1>4. Work(c, Idle)
      BY DEF Return
<1>5. \/ ran' = ran
      \/ /\ ran' = ran \cup {Result(c, how)}
         /\ job[c].tool \in {"run_command", "record"} /\ job[c].kind # "read"
         /\ job[c].outcome.exit # "none"
      BY DEF Return, Result
<1> QED BY <1>3, <1>4, <1>5, IdleJob, Worked DEF TypeOK

-----------------------------------------------------------------------------
(* The types                                                                *)

LEMMA BeginTypes ==
    ASSUME Types, NEW c \in Callers,
           \/ RunCommand(c) \/ CanonicalizationFailure(c) \/ PrescribeTool(c) \/ ReportTool(c)
           \/ CmdReport(c) \/ CmdPrescribe(c) \/ CmdImport(c) \/ CmdRecord(c)
    PROVE  Types'
<1>a. TypeOK /\ Idle \in Job /\ \A e \in Exited : Ended(e) \in Outcome
      BY IdleJob, RecordersAssumption DEF Types, Ended, VerdictFromExitCode, Outcome, Exits
<1>b. ASSUME NEW r \in Job, Begin(c, r), UNCHANGED <<mode, log, fresh, retry, now, hosted,
                                                     faults, history>>
      PROVE  Types'
      BY <1>a, <1>b, Begun DEF Types, TypeOK, history
<1>1. CASE RunCommand(c)
  <2>1. PICK kind \in Commands, i \in Intents :
            Begin(c, IF Allowed(kind) /\ Derivable(kind)
                     THEN [Idle EXCEPT !.tool = "run_command", !.intent = i, !.kind = kind,
                                       !.pc = IF Mutating(kind) THEN "count" ELSE "run"]
                     ELSE Idle)
        BY <1>1 DEF RunCommand
  <2>2. (IF Allowed(kind) /\ Derivable(kind)
         THEN [Idle EXCEPT !.tool = "run_command", !.intent = i, !.kind = kind,
                           !.pc = IF Mutating(kind) THEN "count" ELSE "run"]
         ELSE Idle) \in Job
    <3>1. kind \in {"refused", "read", "mutation", "underived", "unquoted"}
          BY RecordersAssumption
    <3>2. (Allowed(kind) /\ Derivable(kind)) => kind \in {"read", "mutation", "unquoted"}
          BY <3>1 DEF Allowed, Derivable
    <3>3. ASSUME kind \in {"read", "mutation", "unquoted"}, NEW pc \in {"count", "run"}
          PROVE  [Idle EXCEPT !.tool = "run_command", !.intent = i, !.kind = kind,
                              !.pc = pc] \in Job
          BY <1>a, <3>3 DEF Job
    <3> QED BY <1>a, <3>2, <3>3
  <2> QED BY <1>1, <1>b, <2>1, <2>2 DEF RunCommand
<1>2. CASE CanonicalizationFailure(c)
  <2>1. PICK s \in Sessions \cup {NoSession}, how \in {"ok", "refused", "torn"} :
            /\ Begin(c, Idle) /\ Fault(how)
            /\ AppendEntry(NewEntry("canonicalization_failure", s, 0, "none"),
                           how # "refused")
        BY <1>2 DEF CanonicalizationFailure
  <2>2. NewEntry("canonicalization_failure", s, 0, "none") \in Entry
        BY <1>a, EntryType DEF TypeOK, Exits
  <2> QED BY <1>a, <1>2, <2>1, <2>2, Begun, Faulted, Appended
          DEF CanonicalizationFailure, Types, TypeOK, history
<1>3. CASE PrescribeTool(c)
  <2>1. PICK i \in Intents, s \in Sessions \cup {NoSession}, resource \in {"given", "missing"} :
            Begin(c, IF Prepared(resource)
                     THEN [Idle EXCEPT !.tool = "prescribe", !.pc = "count", !.intent = i,
                                       !.session = s]
                     ELSE Idle)
        BY <1>3 DEF PrescribeTool
  <2>2. [Idle EXCEPT !.tool = "prescribe", !.pc = "count", !.intent = i, !.session = s] \in Job
        BY <1>a DEF Job
  <2> QED BY <1>a, <1>3, <1>b, <2>1, <2>2 DEF PrescribeTool
<1>c. \A id \in told \cup {0}, s \in Sessions \cup {NoSession}, o \in Outcomes :
          Report(id, s, o) \in Job
  <2> SUFFICES ASSUME NEW id \in told \cup {0}, NEW s \in Sessions \cup {NoSession},
                      NEW o \in Outcomes
               PROVE  Report(id, s, o) \in Job
        OBVIOUS
  <2>1. id \in Nat /\ o \in Outcome
        BY RecordersAssumption DEF Types
  <2> QED BY <1>a, <2>1 DEF Report, Job
<1>4. CASE ReportTool(c)
      BY <1>4, <1>b, <1>c DEF ReportTool
<1>5. CASE CmdReport(c)
  <2>1. PICK id \in told \cup {0}, s \in Sessions \cup {NoSession}, o \in Outcomes :
            Begin(c, IF ValidDecision(o) THEN Report(id, s, o) ELSE Idle)
        BY <1>5 DEF CmdReport
  <2> QED BY <1>a, <1>5, <1>b, <1>c, <2>1 DEF CmdReport
<1>6. CASE CmdPrescribe(c)
  <2>1. \A s \in Sessions \cup {NoSession}, f \in BOOLEAN :
            [Idle EXCEPT !.tool = "prescribe", !.pc = "append", !.session = s,
                         !.findings = f] \in Job
        BY <1>a DEF Job
  <2> QED BY <1>6, <1>b, <2>1 DEF CmdPrescribe
<1>d. \A s \in Sessions \cup {NoSession}, e \in Exited :
          [Idle EXCEPT !.tool = "record", !.pc = "append", !.session = s,
                       !.outcome = Ended(e)] \in Job
      BY <1>a DEF Job
<1>7. CASE CmdImport(c)
      BY <1>7, <1>b, <1>d DEF CmdImport
<1>8. CASE CmdRecord(c)
      BY <1>8, <1>a, <1>b, <1>d DEF CmdRecord, Recordable
<1> QED BY <1>1, <1>2, <1>3, <1>4, <1>5, <1>6, <1>7, <1>8

LEMMA RetryTypes ==
    ASSUME Types
    PROVE  /\ \A c \in Requests : CountRetry(c) => Types'
           /\ Cleanup \/ Tick \/ StopServer => Types'
<1>a. TypeOK /\ seen \in [Intents -> Seq(Seen)] /\ now \in Nat
      BY DEF Types, TypeOK
<1>1. ASSUME NEW c \in Requests, CountRetry(c) PROVE Types'
  <2>1. On(c, "ok", "append") \in Job /\ job[c] \in Job
        BY <1>a, OnJob DEF TypeOK, Callers
  <2>2. /\ job' \in [Callers -> Job]
        BY <1>a, <1>1, <2>1, Worked DEF CountRetry, TypeOK, Callers
  <2>3. job[c].intent \in Intents /\ retry[job[c].intent] \in [first: Nat, count: Nat]
        BY <1>a, <2>1 DEF TypeOK, Job
  <2>4. Counted(retry[job[c].intent]) \in [first: Nat, count: Nat]
        BY <1>a, <2>3 DEF Counted
  <2>5. retry' \in [Intents -> [first: Nat, count: Nat]]
        BY <1>a, <1>1, <2>3, <2>4 DEF CountRetry, TypeOK
  <2>6. [at |-> now, count |-> Counted(retry[job[c].intent]).count] \in Seen
        BY <1>a, <2>4 DEF Seen
  <2>7. seen' \in [Intents -> Seq(Seen)]
        BY <1>a, <1>1, <2>3, <2>6 DEF CountRetry
  <2> QED BY <1>a, <1>1, <2>2, <2>5, <2>7 DEF CountRetry, Types, TypeOK
<1>2. CASE Cleanup
  <2>1. \A i \in Intents : Cleaned(retry[i]) \in [first: Nat, count: Nat]
        BY <1>a DEF TypeOK, Cleaned, NoCount
  <2> QED BY <1>a, <1>2, <2>1 DEF Cleanup, Types, TypeOK, history
<1>3. CASE Tick
      BY <1>a, <1>3 DEF Tick, Types, TypeOK, history
<1>4. CASE StopServer
  <2>1. job' \in [Callers -> Job]
        BY <1>a, <1>4, IdleJob DEF StopServer, TypeOK
  <2>2. retry' \in [Intents -> [first: Nat, count: Nat]]
        BY <1>4 DEF StopServer, Forgotten
  <2>3. seen' \in [Intents -> Seq(Seen)]
        BY <1>4 DEF StopServer
  <2>4. faults' \in 0..MaxFaults
        BY <1>a, <1>4, RecordersAssumption DEF StopServer, TypeOK
  <2> QED BY <1>a, <1>4, <2>1, <2>2, <2>3, <2>4 DEF StopServer, Types, TypeOK
<1> QED BY <1>1, <1>2, <1>3, <1>4

LEMMA PrescribeTypes ==
    ASSUME Types, NEW c \in Callers,
           AppendPrescription(c) \/ AppendFinding(c) \/ Forward(c) \/ Run(c) \/ Answer(c)
    PROVE  Types'
<1>a. TypeOK /\ job[c] \in Job /\ job[c].session \in Sessions \cup {NoSession} \cup Nat
      BY DEF Types, TypeOK, Job
<1>b. ASSUME NEW pc \in {"finding", "forward", "run", "answer", "find", "assess", "collect"},
             NEW how
      PROVE  On(c, how, pc) \in Job
      BY <1>a, OnJob DEF TypeOK
<1>c. AfterPrescription(c) \in {"answer", "run", "find"}
      BY DEF AfterPrescription
<1>1. CASE AppendPrescription(c)
  <2> DEFINE e == NewEntry("prescribe", job[c].session, 0, "none")
             next(how) == IF Persisted(how) /\ c \in Requests THEN "forward"
                          ELSE IF Persisted(how) /\ job[c].findings THEN "finding"
                          ELSE AfterPrescription(c)
             r(how) == [On(c, how, next(how)) EXCEPT
                          !.id = e.id,
                          !.session = IF job[c].tool = "prescribe" THEN e.session ELSE @]
  <2>1. PICK how \in Results :
            /\ Fault(how) /\ AppendEntry(e, Written(how))
            /\ \/ Work(c, r(how)) /\ UNCHANGED ran
               \/ Work(c, On(c, how, "run")) /\ UNCHANGED ran
               \/ Return(c, how)
        BY <1>1 DEF AppendPrescription
  <2>2. e \in Entry
        BY <1>a, EntryType DEF TypeOK, Exits
  <2>3. log' \in Seq(Entry) /\ fresh' \in Nat
        BY <1>a, <2>1, <2>2, Appended DEF TypeOK, Written
  <2>4. next(how) \in {"finding", "forward", "answer", "run", "find"}
        BY <1>c
  <2>5. On(c, how, next(how)) \in Job
        BY <1>b, <2>4
  <2>6. e.id \in Nat /\ e.session \in Sessions \cup Nat
        BY <2>2 DEF Entry
  <2>7. r(how) \in Job
    <3> HIDE DEF e, next
    <3> QED BY <2>5, <2>6 DEF Job
  <2>8. job' \in [Callers -> Job] /\ ran' \subseteq Ran
    <3> HIDE DEF e, next, r
    <3> QED BY <1>a, <1>b, <2>1, <2>7, Worked, Returned DEF TypeOK, Types
  <2> QED BY <1>a, <1>1, <2>1, <2>3, <2>8, Faulted DEF AppendPrescription, TypeOK, Types
<1>2. CASE AppendFinding(c)
  <2>1. PICK how \in Results :
            /\ Fault(how)
            /\ AppendEntry(NewEntry("finding", job[c].session, 0, "none"), Written(how))
        BY <1>2 DEF AppendFinding
  <2>2. NewEntry("finding", job[c].session, 0, "none") \in Entry
        BY <1>a, EntryType DEF TypeOK, Exits
  <2>3. log' \in Seq(Entry) /\ fresh' \in Nat
        BY <1>a, <2>1, <2>2, Appended DEF TypeOK, Written
  <2>4. job' \in [Callers -> Job]
        BY <1>a, <1>b, <1>c, <1>2, Worked DEF AppendFinding, TypeOK
  <2> QED BY <1>a, <1>2, <2>1, <2>3, <2>4, Faulted DEF AppendFinding, TypeOK, Types, history
<1>3. CASE Forward(c)
  <2>1. job' \in [Callers -> Job]
        BY <1>a, <1>b, <1>c, <1>3, Worked DEF Forward, TypeOK
  <2>2. hosted' \subseteq Nat /\ faults' \in 0..MaxFaults
    <3>1. job[c].id \in Nat /\ job[c].rid \in Nat
          BY <1>a DEF Job
    <3>2. \E id \in {job[c].id, job[c].rid} :
              \/ hosted' = hosted \cup {id} /\ faults' = faults
              \/ faults < MaxFaults /\ faults' = faults + 1 /\ hosted' = hosted
          BY <1>3 DEF Forward
    <3>3. faults \in 0..MaxFaults /\ hosted \subseteq Nat /\ MaxFaults \in Nat
          BY <1>a, RecordersAssumption DEF TypeOK
    <3>4. hosted' \subseteq Nat
          BY <3>1, <3>2, <3>3
    <3>5. faults' \in 0..MaxFaults
          BY <3>2, <3>3
    <3> QED BY <3>4, <3>5
  <2> QED BY <1>a, <1>3, <2>1, <2>2 DEF Forward, TypeOK, Types, history
<1>4. CASE Run(c)
  <2>1. PICK e \in IF Parses(job[c].kind) THEN Exited ELSE {"none"} :
          Work(c, [job[c] EXCEPT
                     !.pc = IF job[c].id # 0 /\ e # "none" THEN "find" ELSE "answer",
                     !.outcome = [verdict |-> AutoVerdict(e), exit |-> e, why |-> FALSE]])
        BY <1>4 DEF Run
  <2>2. [verdict |-> AutoVerdict(e), exit |-> e, why |-> FALSE] \in Outcome
        BY <2>1, RecordersAssumption DEF AutoVerdict, Outcome, Exits
  <2>3. [job[c] EXCEPT
           !.pc = IF job[c].id # 0 /\ e # "none" THEN "find" ELSE "answer",
           !.outcome = [verdict |-> AutoVerdict(e), exit |-> e, why |-> FALSE]] \in Job
        BY <1>a, <2>2 DEF Job
  <2> QED BY <1>a, <1>4, <2>1, <2>3, Worked DEF Run, TypeOK, Types, history
<1>5. CASE Answer(c)
  <2>1. job' \in [Callers -> Job] /\ ran' \subseteq Ran
        BY <1>a, <1>b, <1>5, Worked, Returned DEF Answer, TypeOK, Types
  <2>2. told' \subseteq Nat
        BY <1>a, <1>5 DEF Answer, Give, Types, Job
  <2> QED BY <1>a, <1>5, <2>1, <2>2 DEF Answer, TypeOK, Types
<1> QED BY <1>1, <1>2, <1>3, <1>4, <1>5

LEMMA ReportTypes ==
    ASSUME Types, NEW c \in Callers,
           \/ Refuse(c) \/ FindFails(c) \/ Unknown(c) \/ Find(c) \/ AppendReport(c)
           \/ Assess(c) \/ Collect(c) \/ Send(c) \/ KillShell(c)
    PROVE  Types'
<1>a. TypeOK /\ job[c] \in Job /\ job[c].session \in Sessions \cup {NoSession} \cup Nat
      /\ job[c].id \in Nat /\ job[c].rid \in Nat /\ job[c].outcome.exit \in Exits
      BY DEF Types, TypeOK, Job, Outcome
<1>b. ASSUME NEW how, NEW pc \in {"forward_report", "assess", "collect"}
      PROVE  On(c, how, pc) \in Job
      BY <1>a, OnJob DEF TypeOK
<1>1. CASE Refuse(c)
      BY <1>a, <1>1, Returned DEF Refuse, TypeOK, Types
<1>2. CASE FindFails(c)
      BY <1>a, <1>2, Returned, Faulted DEF FindFails, TypeOK, Types
<1>3. CASE Unknown(c)
  <2>1. PICK how \in Results \ {"unread"} :
            /\ Fault(how) /\ Return(c, how)
            /\ AppendEntry(NewEntry("signal", job[c].session, job[c].id, "none"),
                           how # "refused")
        BY <1>3 DEF Unknown
  <2>2. NewEntry("signal", job[c].session, job[c].id, "none") \in Entry
    <3>1. fresh \in Nat /\ "none" \in Exits
          BY <1>a DEF TypeOK, Exits
    <3> QED BY <1>a, <3>1, EntryType
  <2>3. log' \in Seq(Entry) /\ fresh' \in Nat
        BY <1>a, <2>1, <2>2, Appended DEF TypeOK
  <2> QED BY <1>a, <1>3, <2>1, <2>3, Returned, Faulted DEF Unknown, TypeOK, Types
<1>4. CASE Find(c)
  <2>1. PICK k \in 1..Len(log) :
            Work(c, [job[c] EXCEPT !.pc = "append_report",
                           !.session = IF @ = NoSession THEN log[k].session ELSE @])
        BY <1>4 DEF Find
  <2>2. log[k] \in Entry /\ log[k].session \in Sessions \cup Nat
        BY <1>a, <2>1, LogEntry DEF TypeOK
  <2>3. [job[c] EXCEPT !.pc = "append_report",
                       !.session = IF @ = NoSession THEN log[k].session ELSE @] \in Job
        BY <1>a, <2>2 DEF Job
  <2> QED BY <1>a, <1>4, <2>1, <2>3, Worked DEF Find, TypeOK, Types, history
<1>5. CASE AppendReport(c)
  <2> DEFINE e == NewEntry("report", job[c].session, job[c].id, job[c].outcome.exit)
             r(how) == [On(c, how, IF Persisted(how) /\ c \in Requests
                                   THEN "forward_report" ELSE "assess") EXCEPT !.rid = e.id]
  <2>1. PICK how \in Results :
            /\ Fault(how) /\ AppendEntry(e, Written(how))
            /\ \/ Work(c, r(how)) /\ UNCHANGED ran
               \/ Return(c, how)
        BY <1>5 DEF AppendReport
  <2>2. e \in Entry
        BY <1>a, EntryType DEF TypeOK
  <2>3. log' \in Seq(Entry) /\ fresh' \in Nat
        BY <1>a, <2>1, <2>2, Appended DEF TypeOK, Written
  <2>4. r(how) \in Job
    <3>1. e.id \in Nat
          BY <2>2 DEF Entry
    <3> HIDE DEF e
    <3> QED BY <1>b, <3>1 DEF Job
  <2>5. job' \in [Callers -> Job] /\ ran' \subseteq Ran
    <3> HIDE DEF e, r
    <3> QED BY <1>a, <2>1, <2>4, Worked, Returned DEF TypeOK, Types
  <2> QED BY <1>a, <1>5, <2>1, <2>3, <2>5, Faulted DEF AppendReport, TypeOK, Types
<1>6. CASE Assess(c)
  <2>1. job' \in [Callers -> Job] /\ ran' \subseteq Ran
        BY <1>a, <1>b, <1>6, Worked, Returned DEF Assess, TypeOK, Types
  <2>2. told' \subseteq Nat
        BY <1>a, <1>6 DEF Assess, Give, Types
  <2>3. faults' \in 0..MaxFaults
    <3>1. faults' = faults \/ (faults < MaxFaults /\ faults' = faults + 1)
          BY <1>6 DEF Assess
    <3>2. faults \in 0..MaxFaults /\ MaxFaults \in Nat
          BY <1>a, RecordersAssumption DEF TypeOK
    <3> QED BY <3>1, <3>2
  <2> QED BY <1>a, <1>6, <2>1, <2>2, <2>3 DEF Assess, TypeOK, Types
<1>7. CASE Collect(c)
  <2> DEFINE batch == {log[k].id : k \in {k \in 1..Len(log) : log[k].session = job[c].session}}
  <2>1. batch \subseteq Nat
        BY <1>a, LogEntry DEF TypeOK
  <2>2. [job[c] EXCEPT !.pc = "send", !.batch = batch] \in Job
    <3> HIDE DEF batch
    <3> QED BY <1>a, <2>1 DEF Job
  <2>3. Work(c, [job[c] EXCEPT !.pc = "send", !.batch = batch])
        BY <1>7 DEF Collect
  <2> QED BY <1>a, <1>7, <2>2, <2>3, Worked DEF Collect, TypeOK, Types, history
<1>8. CASE Send(c)
  <2>1. job[c].batch \subseteq Nat
        BY <1>a DEF Job
  <2>2. hosted' \subseteq Nat
        BY <1>a, <1>8, <2>1 DEF Send, Saved, TypeOK
  <2>3. faults' \in 0..MaxFaults
        BY <1>a, <1>8, RecordersAssumption DEF Send, TypeOK
  <2> QED BY <1>a, <1>8, <2>2, <2>3, Returned DEF Send, TypeOK, Types
<1>9. CASE KillShell(c)
  <2>1. job' \in [Callers -> Job]
        BY <1>a, <1>9, IdleJob, Worked DEF KillShell, TypeOK
  <2>2. faults' \in 0..MaxFaults
        BY <1>a, <1>9, RecordersAssumption DEF KillShell, TypeOK
  <2> QED BY <1>a, <1>9, <2>1, <2>2 DEF KillShell, TypeOK, Types, history
<1> QED BY <1>1, <1>2, <1>3, <1>4, <1>5, <1>6, <1>7, <1>8, <1>9

LEMMA NextTypes == Types /\ Next => Types'
<1> SUFFICES ASSUME Types, Next PROVE Types'
    OBVIOUS
<1>1. ASSUME NEW c \in Callers, Step(c) PROVE Types'
      BY <1>1, BeginTypes, PrescribeTypes, ReportTypes DEF Step
<1>2. ASSUME NEW c \in Requests, RunCommand(c) \/ PrescribeTool(c) \/ ReportTool(c)
                                  \/ CountRetry(c) \/ Run(c) \/ Forward(c)
      PROVE  Types'
      BY <1>2, BeginTypes, RetryTypes, PrescribeTypes DEF Callers
<1>3. ASSUME NEW c \in Shells, \/ CmdPrescribe(c) \/ CmdImport(c) \/ CmdRecord(c)
                               \/ CmdReport(c) \/ AppendFinding(c) \/ Collect(c)
                               \/ Send(c) \/ KillShell(c)
      PROVE  Types'
      BY <1>3, BeginTypes, PrescribeTypes, ReportTypes DEF Callers
<1> QED BY <1>1, <1>2, <1>3, RetryTypes DEF Next, Callers

-----------------------------------------------------------------------------
(* What the calls of one caller do                                          *)

\* A caller begins a call, or takes a step of the one it has.
Begins(c) ==
    \/ c \in Requests /\ (RunCommand(c) \/ PrescribeTool(c) \/ ReportTool(c))
    \/ c \in Shells /\ (CmdPrescribe(c) \/ CmdImport(c) \/ CmdRecord(c) \/ CmdReport(c))
    \/ CanonicalizationFailure(c)
Goes(c) ==
    \/ c \in Requests /\ (CountRetry(c) \/ Run(c) \/ Forward(c))
    \/ c \in Shells /\ (AppendFinding(c) \/ Collect(c) \/ Send(c) \/ KillShell(c))
    \/ AppendPrescription(c) \/ Answer(c) \/ Refuse(c) \/ FindFails(c) \/ Unknown(c)
    \/ Find(c) \/ AppendReport(c) \/ Assess(c)

LEMMA NextCases ==
    Next => (\E c \in Callers : Begins(c) \/ Goes(c)) \/ Cleanup \/ Tick \/ StopServer
<1> QED BY DEF Next, Step, Callers, Begins, Goes

\* A call that begins has nothing of an earlier one.
Fresh(r) == r.rid = 0 /\ r.batch = {} /\ r.clean
BeginsAt(c, r) ==
    \/ r = Idle
    \/ /\ c \in Requests /\ r.tool = "run_command" /\ r.id = 0 /\ r.session = NoSession
       /\ r.pc = IF r.kind = "read" THEN "run" ELSE "count"
    \/ c \in Requests /\ r.tool = "prescribe" /\ r.pc = "count" /\ r.id = 0
    \/ c \in Shells /\ r.tool = "prescribe" /\ r.pc = "append" /\ r.id = 0
    \/ /\ c \in Shells /\ r.tool = "record" /\ r.pc = "append" /\ r.id = 0
       /\ ValidDecision(r.outcome) /\ r.outcome.exit # "none"
    \/ r.tool = "report" /\ r.pc = "find" /\ r.id \in told \cup {0}

LEMMA IdleIs ==
    /\ Idle.tool = "none" /\ Idle.pc = "idle" /\ Idle.session = NoSession /\ Idle.id = 0
    /\ Idle.rid = 0 /\ Idle.batch = {} /\ Idle.clean = TRUE
<1> QED BY DEF Idle

LEMMA BeginDoes ==
    ASSUME Types, NEW c \in Callers, Begins(c)
    PROVE  /\ job[c].pc = "idle" /\ BeginsAt(c, job'[c]) /\ Fresh(job'[c])
           /\ \A d \in Callers \ {c} : job'[d] = job[d]
           /\ UNCHANGED <<mode, retry, now, hosted, history>>
           /\ faults' = 0 => faults = 0
           /\ \/ log' = log /\ fresh' = fresh
              \/ /\ fresh' = fresh + 1
                 /\ \/ log' = log
                    \/ \E e \in Entry :
                          /\ log' = Append(log, e) /\ e.id = fresh + 1 /\ e.ref = 0
                          /\ e.type = "canonicalization_failure"
<1>a. TypeOK /\ Idle \in Job
      BY IdleJob DEF Types
<1>b. ASSUME NEW r, Begin(c, r)
      PROVE  job[c].pc = "idle" /\ job'[c] = r /\ \A d \in Callers \ {c} : job'[d] = job[d]
      BY <1>a, <1>b DEF Begin, Work, TypeOK
<1>c. BeginsAt(c, Idle) /\ Fresh(Idle)
      BY IdleIs DEF BeginsAt, Fresh
<1>d. \A s \in Sessions \cup {NoSession}, e \in Exited :
          LET r == [Idle EXCEPT !.tool = "record", !.pc = "append", !.session = s,
                                !.outcome = Ended(e)]
          IN  c \in Shells => BeginsAt(c, r) /\ Fresh(r)
      BY RecordersAssumption
         DEF Idle, BeginsAt, Fresh, Ended, VerdictFromExitCode, ValidDecision
<1>e. \A id \in told \cup {0}, s \in Sessions \cup {NoSession}, o \in Outcomes :
          BeginsAt(c, Report(id, s, o)) /\ Fresh(Report(id, s, o))
      BY DEF Idle, BeginsAt, Fresh, Report
<1>f. SUFFICES \/ /\ CanonicalizationFailure(c)
              \/ /\ \E r : Begin(c, r) /\ BeginsAt(c, r) /\ Fresh(r)
                 /\ UNCHANGED <<mode, log, fresh, retry, now, hosted, faults, history>>
  <2>1. CASE CanonicalizationFailure(c)
    <3>1. PICK s \in Sessions \cup {NoSession}, how \in {"ok", "refused", "torn"} :
              /\ Begin(c, Idle) /\ Fault(how)
              /\ AppendEntry(NewEntry("canonicalization_failure", s, 0, "none"),
                             how # "refused")
          BY <2>1 DEF CanonicalizationFailure
    <3>2. LET e == NewEntry("canonicalization_failure", s, 0, "none") IN
          e \in Entry /\ e.id = fresh + 1 /\ e.ref = 0 /\ e.type = "canonicalization_failure"
          BY <1>a, EntryType DEF TypeOK, Exits
    <3>3. \/ log' = log
          \/ log' = Append(log, NewEntry("canonicalization_failure", s, 0, "none"))
          BY <3>1 DEF AppendEntry
    <3>4. fresh' = fresh + 1
          BY <3>1 DEF AppendEntry
    <3>5. faults' = 0 => faults = 0
          BY <1>a, <3>1, Faulted DEF TypeOK
    <3> QED BY <1>b, <1>c, <2>1, <3>1, <3>2, <3>3, <3>4, <3>5 DEF CanonicalizationFailure
  <2>2. CASE /\ \E r : Begin(c, r) /\ BeginsAt(c, r) /\ Fresh(r)
             /\ UNCHANGED <<mode, log, fresh, retry, now, hosted, faults, history>>
        BY <1>b, <2>2
  <2> QED BY <1>f, <2>1, <2>2
<1>1. CASE c \in Requests /\ RunCommand(c)
  <2>1. PICK kind \in Commands, i \in Intents :
            Begin(c, IF Allowed(kind) /\ Derivable(kind)
                     THEN [Idle EXCEPT !.tool = "run_command", !.intent = i, !.kind = kind,
                                       !.pc = IF Mutating(kind) THEN "count" ELSE "run"]
                     ELSE Idle)
        BY <1>1 DEF RunCommand
  <2>2. LET r == [Idle EXCEPT !.tool = "run_command", !.intent = i, !.kind = kind,
                              !.pc = IF Mutating(kind) THEN "count" ELSE "run"]
        IN  Allowed(kind) => BeginsAt(c, r) /\ Fresh(r)
        BY <1>1 DEF Idle, BeginsAt, Fresh, Allowed, Mutating
  <2> QED BY <1>1, <1>c, <2>1, <2>2 DEF RunCommand
<1>2. CASE c \in Requests /\ PrescribeTool(c)
  <2>1. PICK i \in Intents, s \in Sessions \cup {NoSession}, resource \in {"given", "missing"} :
            Begin(c, IF Prepared(resource)
                     THEN [Idle EXCEPT !.tool = "prescribe", !.pc = "count", !.intent = i,
                                       !.session = s]
                     ELSE Idle)
        BY <1>2 DEF PrescribeTool
  <2>2. LET r == [Idle EXCEPT !.tool = "prescribe", !.pc = "count", !.intent = i,
                              !.session = s]
        IN  BeginsAt(c, r) /\ Fresh(r)
        BY <1>2 DEF Idle, BeginsAt, Fresh
  <2> QED BY <1>2, <1>c, <2>1, <2>2 DEF PrescribeTool
<1>3. CASE c \in Shells /\ CmdPrescribe(c)
  <2>1. PICK s \in Sessions \cup {NoSession}, f \in BOOLEAN :
            Begin(c, [Idle EXCEPT !.tool = "prescribe", !.pc = "append", !.session = s,
                                  !.findings = f])
        BY <1>3 DEF CmdPrescribe
  <2>2. LET r == [Idle EXCEPT !.tool = "prescribe", !.pc = "append", !.session = s,
                              !.findings = f]
        IN  BeginsAt(c, r) /\ Fresh(r)
        BY <1>3 DEF Idle, BeginsAt, Fresh
  <2> QED BY <1>3, <2>1, <2>2 DEF CmdPrescribe
<1>4. CASE c \in Requests /\ ReportTool(c)
      BY <1>4, <1>e DEF ReportTool
<1>5. CASE c \in Shells /\ CmdReport(c)
  <2>1. PICK id \in told \cup {0}, s \in Sessions \cup {NoSession}, o \in Outcomes :
            Begin(c, IF ValidDecision(o) THEN Report(id, s, o) ELSE Idle)
        BY <1>5 DEF CmdReport
  <2> QED BY <1>5, <1>c, <1>e, <2>1 DEF CmdReport
<1>6. CASE c \in Shells /\ CmdImport(c)
      BY <1>6, <1>d DEF CmdImport
<1>7. CASE c \in Shells /\ CmdRecord(c)
      BY <1>7, <1>c, <1>d DEF CmdRecord, Recordable
<1> QED BY <1>1, <1>2, <1>3, <1>4, <1>5, <1>6, <1>7 DEF Begins

\* s is r with another pc, id and rid; its session may change, too.
Same(r, s) == /\ s.tool = r.tool /\ s.kind = r.kind /\ s.outcome = r.outcome
              /\ s.batch = r.batch
Goals(c, how) ==
    IF Persisted(how) /\ c \in Requests THEN "forward"
    ELSE IF Persisted(how) /\ job[c].findings THEN "finding" ELSE AfterPrescription(c)
Adds(e, how) ==
    /\ fresh' = fresh + 1 /\ log' = IF Written(how) THEN Append(log, e) ELSE log
    /\ Fault(how) /\ e \in Entry /\ e.id = fresh + 1

LEMMA PrescriptionDoes ==
    ASSUME Types, NEW c \in Callers, AppendPrescription(c)
    PROVE  /\ job[c].pc = "append" /\ \A d \in Callers \ {c} : job'[d] = job[d]
           /\ UNCHANGED <<mode, retry, now, hosted, seen, told>>
           /\ \E how \in Results, e \in Entry :
                 /\ Adds(e, how) /\ e.type = "prescribe" /\ e.ref = 0
                 /\ job[c].session # NoSession => e.session = job[c].session
                 /\ \/ /\ Accepted(how) /\ ran' = ran
                       /\ Same(job[c], job'[c]) /\ job'[c].id = e.id
                       /\ job'[c].rid = job[c].rid /\ job'[c].pc = Goals(c, how)
                       /\ job'[c].clean = (job[c].clean /\ how = "ok")
                       /\ job'[c].session = IF job[c].tool = "prescribe" THEN e.session
                                            ELSE job[c].session
                    \/ /\ ~Accepted(how) /\ ran' = ran /\ job[c].tool = "run_command"
                       /\ Work(c, On(c, how, "run"))
                    \/ ~Accepted(how) /\ job[c].tool # "run_command" /\ Return(c, how)
<1>a. TypeOK /\ job[c] \in Job /\ job[c].session \in Sessions \cup {NoSession} \cup Nat
      BY DEF Types, TypeOK, Job
<1>b. ASSUME NEW r, Work(c, r)
      PROVE  job'[c] = r /\ \A d \in Callers \ {c} : job'[d] = job[d]
      BY <1>a, <1>b DEF Work, TypeOK
<1> DEFINE e == NewEntry("prescribe", job[c].session, 0, "none")
           r(how) == [On(c, how, Goals(c, how)) EXCEPT
                        !.id = e.id,
                        !.session = IF job[c].tool = "prescribe" THEN e.session ELSE @]
<1>1. PICK how \in Results :
          /\ Fault(how) /\ AppendEntry(e, Written(how))
          /\ \/ Accepted(how) /\ Work(c, r(how)) /\ UNCHANGED ran
             \/ /\ ~Accepted(how) /\ job[c].tool = "run_command"
                /\ Work(c, On(c, how, "run")) /\ UNCHANGED ran
             \/ ~Accepted(how) /\ job[c].tool # "run_command" /\ Return(c, how)
      BY DEF AppendPrescription, Goals
<1>2. /\ e \in Entry /\ e.id = fresh + 1 /\ e.type = "prescribe" /\ e.ref = 0
      /\ job[c].session # NoSession => e.session = job[c].session
  <2>1. fresh \in Nat /\ "none" \in Exits
        BY <1>a DEF TypeOK, Exits
  <2> QED BY <1>a, <2>1, EntryType
<1>3. Adds(e, how)
      BY <1>1, <1>2 DEF Adds, AppendEntry
<1>4. Goals(c, how) \in {"idle", "count", "append", "finding", "forward", "run", "answer",
              "find", "append_report", "forward_report", "assess", "collect", "send"}
      BY DEF Goals, AfterPrescription
<1>5. LET s == r(how) IN
      /\ Same(job[c], s) /\ s.id = e.id /\ s.rid = job[c].rid /\ s.pc = Goals(c, how)
      /\ s.clean = (job[c].clean /\ how = "ok")
      /\ s.session = IF job[c].tool = "prescribe" THEN e.session ELSE job[c].session
  <2>1. LET o == On(c, how, Goals(c, how)) IN
        /\ o \in Job /\ o.pc = Goals(c, how) /\ o.clean = (job[c].clean /\ how = "ok")
        /\ o.tool = job[c].tool /\ o.session = job[c].session /\ o.kind = job[c].kind
        /\ o.outcome = job[c].outcome /\ o.rid = job[c].rid /\ o.batch = job[c].batch
        BY <1>a, <1>4, OnJob DEF TypeOK
  <2> HIDE DEF e
  <2> QED BY <2>1 DEF Same, Job
<1>6. job[c].pc = "append" /\ UNCHANGED <<mode, retry, now, hosted, seen, told>>
      BY DEF AppendPrescription
<1>7. \A d \in Callers \ {c} : job'[d] = job[d]
  <2> HIDE DEF e, r
  <2> QED BY <1>1, <1>b DEF Return
<1> HIDE DEF e, r
<1>8. \/ Accepted(how) /\ job'[c] = r(how) /\ UNCHANGED ran
      \/ /\ ~Accepted(how) /\ job[c].tool = "run_command"
         /\ Work(c, On(c, how, "run")) /\ UNCHANGED ran
      \/ ~Accepted(how) /\ job[c].tool # "run_command" /\ Return(c, how)
      BY <1>1, <1>b
<1> QED BY <1>2, <1>3, <1>5, <1>6, <1>7, <1>8

LEMMA ReportDoes ==
    ASSUME Types, NEW c \in Callers, AppendReport(c)
    PROVE  /\ job[c].pc = "append_report" /\ \A d \in Callers \ {c} : job'[d] = job[d]
           /\ UNCHANGED <<mode, retry, now, hosted, seen, told>>
           /\ \E how \in Results, e \in Entry :
                 /\ Adds(e, how) /\ e.type = "report" /\ e.ref = job[c].id
                 /\ e.exit = job[c].outcome.exit
                 /\ job[c].session # NoSession => e.session = job[c].session
                 /\ \/ /\ Accepted(how) /\ ran' = ran
                       /\ Same(job[c], job'[c]) /\ job'[c].id = job[c].id
                       /\ job'[c].rid = e.id /\ job'[c].session = job[c].session
                       /\ job'[c].clean = (job[c].clean /\ how = "ok")
                       /\ job'[c].pc = IF Persisted(how) /\ c \in Requests
                                       THEN "forward_report" ELSE "assess"
                    \/ ~Accepted(how) /\ Return(c, how)
<1>a. TypeOK /\ job[c] \in Job /\ job[c].session \in Sessions \cup {NoSession} \cup Nat
      /\ job[c].id \in Nat /\ job[c].outcome.exit \in Exits
      BY DEF Types, TypeOK, Job, Outcome
<1>b. ASSUME NEW r, Work(c, r)
      PROVE  job'[c] = r /\ \A d \in Callers \ {c} : job'[d] = job[d]
      BY <1>a, <1>b DEF Work, TypeOK
<1> DEFINE e == NewEntry("report", job[c].session, job[c].id, job[c].outcome.exit)
           pc(how) == IF Persisted(how) /\ c \in Requests THEN "forward_report" ELSE "assess"
           r(how) == [On(c, how, pc(how)) EXCEPT !.rid = e.id]
<1>1. PICK how \in Results :
          /\ Fault(how) /\ AppendEntry(e, Written(how))
          /\ \/ Accepted(how) /\ Work(c, r(how)) /\ UNCHANGED ran
             \/ ~Accepted(how) /\ Return(c, how)
      BY DEF AppendReport
<1>2. /\ e \in Entry /\ e.id = fresh + 1 /\ e.type = "report" /\ e.ref = job[c].id
      /\ e.exit = job[c].outcome.exit
      /\ job[c].session # NoSession => e.session = job[c].session
      BY <1>a, EntryType DEF TypeOK
<1>3. Adds(e, how)
      BY <1>1, <1>2 DEF Adds, AppendEntry
<1>4. LET s == r(how) IN
      /\ Same(job[c], s) /\ s.id = job[c].id /\ s.rid = e.id /\ s.pc = pc(how)
      /\ s.clean = (job[c].clean /\ how = "ok") /\ s.session = job[c].session
  <2>1. LET o == On(c, how, pc(how)) IN
        /\ o \in Job /\ o.pc = pc(how) /\ o.clean = (job[c].clean /\ how = "ok")
        /\ o.tool = job[c].tool /\ o.session = job[c].session /\ o.kind = job[c].kind
        /\ o.outcome = job[c].outcome /\ o.id = job[c].id /\ o.batch = job[c].batch
        BY <1>a, OnJob DEF TypeOK
  <2> HIDE DEF e, pc
  <2> QED BY <2>1 DEF Same, Job
<1>5. job[c].pc = "append_report" /\ UNCHANGED <<mode, retry, now, hosted, seen, told>>
      BY DEF AppendReport
<1> HIDE DEF e, r
<1>6. \A d \in Callers \ {c} : job'[d] = job[d]
      BY <1>1, <1>b DEF Return
<1>7. \/ Accepted(how) /\ job'[c] = r(how) /\ UNCHANGED ran
      \/ ~Accepted(how) /\ Return(c, how)
      BY <1>1, <1>b
<1> QED BY <1>2, <1>3, <1>4, <1>5, <1>6, <1>7

\* The other steps change little of a call.
Keeps(r, s) == Same(r, s) /\ s.id = r.id /\ s.rid = r.rid /\ s.session = r.session
LEMMA OnDoes ==
    ASSUME Types, NEW c \in Callers, NEW how,
           NEW pc \in {"idle", "count", "append", "finding", "forward", "run", "answer", "find",
                       "append_report", "forward_report", "assess", "collect", "send"},
           Work(c, On(c, how, pc))
    PROVE  /\ Keeps(job[c], job'[c]) /\ job'[c].pc = pc
           /\ job'[c].clean = (job[c].clean /\ how = "ok")
           /\ \A d \in Callers \ {c} : job'[d] = job[d]
<1>1. job \in [Callers -> Job]
      BY DEF Types, TypeOK
<1>2. On(c, how, pc) \in Job
      BY <1>1, OnJob
<1> QED BY <1>1, <1>2, OnJob, Worked DEF Keeps, Same

\* A step that neither stores nor sends anything.
Quiet == UNCHANGED <<log, fresh, hosted>>
LEMMA RunDoes ==
    ASSUME Types, NEW c \in Callers, Run(c)
    PROVE  /\ job[c].pc = "run" /\ \A d \in Callers \ {c} : job'[d] = job[d]
           /\ Quiet /\ UNCHANGED <<mode, retry, now, faults, seen, told, ran>>
           /\ LET r == job[c]  s == job'[c] IN
              /\ s.tool = r.tool /\ s.kind = r.kind /\ s.batch = r.batch /\ s.clean = r.clean
              /\ s.id = r.id /\ s.rid = r.rid /\ s.session = r.session
              /\ s.pc = IF r.id # 0 /\ s.outcome.exit # "none" THEN "find" ELSE "answer"
              /\ s.outcome.verdict = AutoVerdict(s.outcome.exit) /\ ~s.outcome.why
<1>a. job \in [Callers -> Job] /\ job[c] \in Job
      BY DEF Types, TypeOK
<1>1. PICK e \in Exits :
          Work(c, [job[c] EXCEPT
                     !.pc = IF job[c].id # 0 /\ e # "none" THEN "find" ELSE "answer",
                     !.outcome = [verdict |-> AutoVerdict(e), exit |-> e, why |-> FALSE]])
      BY RecordersAssumption DEF Run, Exits
<1>2. job'[c] = [job[c] EXCEPT
                     !.pc = IF job[c].id # 0 /\ e # "none" THEN "find" ELSE "answer",
                     !.outcome = [verdict |-> AutoVerdict(e), exit |-> e, why |-> FALSE]]
      /\ \A d \in Callers \ {c} : job'[d] = job[d]
      BY <1>a, <1>1 DEF Work
<1>3. job[c].pc = "run" /\ Quiet /\ UNCHANGED <<mode, retry, now, faults, seen, told, ran>>
      BY DEF Run, Quiet, history
<1> QED BY <1>a, <1>2, <1>3 DEF Job

LEMMA FindDoes ==
    ASSUME Types, NEW c \in Callers, Find(c)
    PROVE  /\ job[c].pc = "find" /\ \A d \in Callers \ {c} : job'[d] = job[d]
           /\ Quiet /\ UNCHANGED <<mode, retry, now, faults, seen, told, ran>>
           /\ ValidDecision(job[c].outcome)
           /\ LET r == job[c]  s == job'[c] IN
              /\ Same(r, s) /\ s.id = r.id /\ s.rid = r.rid /\ s.clean = r.clean
              /\ s.pc = "append_report" /\ (r.session # NoSession => s.session = r.session)
              /\ \E k \in 1..Len(log) : log[k].id = s.id /\ log[k].session = s.session
<1>a. job \in [Callers -> Job] /\ job[c] \in Job
      BY DEF Types, TypeOK
<1>1. PICK k \in 1..Len(log) :
          /\ log[k].id = job[c].id /\ SameSession(c, log[k])
          /\ Work(c, [job[c] EXCEPT !.pc = "append_report",
                         !.session = IF @ = NoSession THEN log[k].session ELSE @])
      BY DEF Find
<1>2. /\ job'[c] = [job[c] EXCEPT !.pc = "append_report",
                         !.session = IF @ = NoSession THEN log[k].session ELSE @]
      /\ \A d \in Callers \ {c} : job'[d] = job[d]
      BY <1>a, <1>1 DEF Work
<1>3. job[c].pc = "find" /\ Quiet /\ UNCHANGED <<mode, retry, now, faults, seen, told, ran>>
      /\ ValidDecision(job[c].outcome)
      BY DEF Find, Quiet, history
<1>4. job'[c].session = IF job[c].session = NoSession THEN log[k].session ELSE job[c].session
      BY <1>a, <1>2 DEF Job
<1>5. LET r == job[c]  s == job'[c] IN
      /\ Same(r, s) /\ s.id = r.id /\ s.rid = r.rid /\ s.clean = r.clean
      /\ s.pc = "append_report"
      BY <1>a, <1>2 DEF Job, Same
<1>6. log[k].id = job'[c].id /\ log[k].session = job'[c].session
      BY <1>1, <1>4, <1>5 DEF SameSession
<1> QED BY <1>1, <1>2, <1>3, <1>4, <1>5, <1>6

LEMMA CollectDoes ==
    ASSUME Types, NEW c \in Callers, Collect(c)
    PROVE  /\ job[c].pc = "collect" /\ \A d \in Callers \ {c} : job'[d] = job[d]
           /\ Quiet /\ UNCHANGED <<mode, retry, now, faults, seen, told, ran>>
           /\ LET r == job[c]  s == job'[c] IN
              /\ s.tool = r.tool /\ s.kind = r.kind /\ s.outcome = r.outcome
              /\ s.id = r.id /\ s.rid = r.rid /\ s.session = r.session /\ s.clean = r.clean
              /\ s.pc = "send"
              /\ s.batch = {log[k].id : k \in {k \in 1..Len(log) :
                                                log[k].session = r.session}}
<1>a. job \in [Callers -> Job] /\ job[c] \in Job
      BY DEF Types, TypeOK
<1> DEFINE batch == {log[k].id : k \in {k \in 1..Len(log) : log[k].session = job[c].session}}
<1>1. Work(c, [job[c] EXCEPT !.pc = "send", !.batch = batch])
      BY DEF Collect
<1>2. job'[c] = [job[c] EXCEPT !.pc = "send", !.batch = batch]
      /\ \A d \in Callers \ {c} : job'[d] = job[d]
      BY <1>a, <1>1 DEF Work
<1>3. job[c].pc = "collect" /\ Quiet /\ UNCHANGED <<mode, retry, now, faults, seen, told, ran>>
      BY DEF Collect, Quiet, history
<1> HIDE DEF batch
<1>4. LET r == job[c]  s == job'[c] IN
              /\ s.tool = r.tool /\ s.kind = r.kind /\ s.outcome = r.outcome
              /\ s.id = r.id /\ s.rid = r.rid /\ s.session = r.session /\ s.clean = r.clean
              /\ s.pc = "send" /\ s.batch = batch
      BY <1>a, <1>2 DEF Job
<1> QED BY <1>2, <1>3, <1>4 DEF batch

LEMMA ServerDoes ==
    ASSUME Types, Cleanup \/ Tick \/ StopServer
    PROVE  /\ Quiet /\ UNCHANGED <<mode, told, ran>>
           /\ \A c \in Callers : job'[c] \in {job[c], Idle}
           /\ faults' = 0 => faults = 0 /\ job' = job
           /\ Cleanup \/ Tick => job' = job
<1>1. CASE Cleanup \/ Tick
      BY <1>1 DEF Cleanup, Tick, Quiet, history
<1>2. CASE StopServer
  <2>1. \A c \in Callers : job'[c] \in {job[c], Idle}
        BY <1>2 DEF StopServer
  <2>2. faults' # 0
        BY <1>2, RecordersAssumption DEF StopServer, Types, TypeOK
  <2>3. (Cleanup \/ Tick) => job' = job
        BY DEF Cleanup, Tick
  <2> QED BY <1>2, <2>1, <2>2, <2>3 DEF StopServer, Quiet
<1> QED BY <1>1, <1>2

\* A caller that is done with a call or loses it.
LEMMA EndDoes ==
    ASSUME Types, NEW c \in Callers, Refuse(c) \/ FindFails(c) \/ Unknown(c) \/ Send(c)
                                     \/ KillShell(c)
    PROVE  /\ job'[c] = Idle /\ \A d \in Callers \ {c} : job'[d] = job[d]
           /\ UNCHANGED <<mode, retry, now, seen, told>>
           /\ ran' \subseteq ran \cup {Result(c, "ok"), Result(c, "no")}
<1>a. TypeOK /\ ran \subseteq Ran
      BY DEF Types
<1>1. CASE KillShell(c)
      BY <1>a, <1>1, Worked, IdleJob DEF KillShell, TypeOK, history
<1>2. CASE ~KillShell(c)
  <2>1. PICK how \in Results : Return(c, how)
        BY <1>2 DEF Refuse, FindFails, Unknown, Send, Results
  <2>2. Result(c, how) \in {Result(c, "ok"), Result(c, "no")}
        BY DEF Result
  <2>3. UNCHANGED <<mode, retry, now, seen, told>>
        BY <1>2 DEF Refuse, FindFails, Unknown, Send
  <2> QED BY <1>a, <2>1, <2>2, <2>3, Returned
<1> QED BY <1>1, <1>2

-----------------------------------------------------------------------------
(* Where calls are                                                          *)

PlaceOf(c, r) ==
    (c \in Requests => PlaceOfRequest(r)) /\ (c \in Shells => PlaceOfShell(r))

LEMMA NextPlace ==
    ASSUME Types, Place, Next
    PROVE  Place'
<1>a. TypeOK /\ \A c \in Callers : PlaceOf(c, job[c]) /\ PlaceOf(c, Idle)
      BY IdleIs DEF Types, Place, PlaceOf, PlaceOfRequest, PlaceOfShell
<1>b. SUFFICES \A c \in Callers : PlaceOf(c, job'[c])
      BY DEF Place, PlaceOf, Callers
<1>c. Requests \cap Shells = {}
      BY RecordersAssumption
<1>1. ASSUME NEW c \in Callers, Begins(c) PROVE \A d \in Callers : PlaceOf(d, job'[d])
  <2>1. BeginsAt(c, job'[c]) /\ \A d \in Callers \ {c} : job'[d] = job[d]
        BY <1>1, BeginDoes
  <2>2. PlaceOf(c, job'[c])
    <3>1. CASE job'[c] = Idle
          BY <1>a, <3>1
    <3>2. CASE job'[c] # Idle
          BY <1>c, <2>1, <3>2 DEF BeginsAt, PlaceOf, PlaceOfRequest, PlaceOfShell
    <3> QED BY <3>1, <3>2
  <2> QED BY <1>a, <2>1, <2>2
<1>2. ASSUME NEW c \in Callers, Goes(c) PROVE \A d \in Callers : PlaceOf(d, job'[d])
  <2> DEFINE Goal == \A d \in Callers : PlaceOf(d, job'[d])
  <2>a. job[c].pc # "idle" => job[c] # Idle
        BY IdleIs
  <2>b. ASSUME job'[c] = Idle, \A d \in Callers \ {c} : job'[d] = job[d] PROVE Goal
        BY <1>a, <2>b
  <2>c. ASSUME NEW how, Return(c, how) PROVE Goal
        BY <1>a, <2>b, <2>c, Returned DEF Types
  <2>d. AfterPrescription(c) = IF job[c].tool = "prescribe" THEN "answer"
                               ELSE IF job[c].tool = "run_command" THEN "run" ELSE "find"
        BY DEF AfterPrescription
  <2>e. ASSUME NEW how, NEW pc \in {"append", "run", "answer", "find", "assess", "collect"},
               Work(c, On(c, how, pc))
        PROVE  job'[c].tool = job[c].tool /\ job'[c].pc = pc
               /\ \A d \in Callers \ {c} : job'[d] = job[d]
        BY <2>e, OnDoes DEF Keeps, Same
  <2>f. ASSUME PlaceOf(c, job'[c]), \A d \in Callers \ {c} : job'[d] = job[d] PROVE Goal
        BY <1>a, <2>f
  <2>g. PlaceOf(c, job[c])
        BY <1>a
  <2>1. CASE c \in Requests /\ CountRetry(c)
    <3>1. Work(c, On(c, "ok", "append")) /\ job[c].pc = "count"
          BY <2>1 DEF CountRetry
    <3> QED BY <1>a, <1>c, <2>a, <2>e, <2>1, <3>1 DEF PlaceOf, PlaceOfRequest
  <2>2. CASE c \in Requests /\ Run(c)
    <3>1. job[c].pc = "run" /\ job'[c].tool = job[c].tool /\ job'[c].pc \in {"find", "answer"}
          /\ \A d \in Callers \ {c} : job'[d] = job[d]
          BY <2>2, RunDoes
    <3> QED BY <1>a, <1>c, <2>a, <2>2, <3>1 DEF PlaceOf, PlaceOfRequest
  <2>3. CASE c \in Requests /\ Forward(c)
    <3>1. job[c].pc \in {"forward", "forward_report"}
          /\ Work(c, On(c, "ok", IF job[c].pc = "forward" THEN AfterPrescription(c)
                                 ELSE "assess"))
          BY <2>3 DEF Forward
    <3>2. /\ job'[c].tool = job[c].tool /\ \A d \in Callers \ {c} : job'[d] = job[d]
          /\ job'[c].pc = IF job[c].pc = "forward" THEN AfterPrescription(c) ELSE "assess"
          BY <2>d, <2>e, <3>1
    <3>3. PlaceOf(c, job'[c])
          BY <1>c, <2>a, <2>d, <2>g, <2>3, <3>1, <3>2 DEF PlaceOf, PlaceOfRequest
    <3> QED BY <2>f, <3>2, <3>3
  <2>4. CASE c \in Shells /\ AppendFinding(c)
    <3>1. job[c].pc = "finding" /\ Work(c, On(c, "ok", AfterPrescription(c)))
          BY <2>4 DEF AppendFinding
    <3>2. /\ job'[c].tool = job[c].tool /\ \A d \in Callers \ {c} : job'[d] = job[d]
          /\ job'[c].pc = AfterPrescription(c)
          BY <2>d, <2>e, <3>1
    <3>3. PlaceOf(c, job'[c])
          BY <1>c, <2>a, <2>d, <2>g, <2>4, <3>1, <3>2 DEF PlaceOf, PlaceOfShell
    <3> QED BY <2>f, <3>2, <3>3
  <2>5. CASE c \in Shells /\ Collect(c)
    <3>1. job[c].pc = "collect" /\ job'[c].tool = job[c].tool /\ job'[c].pc = "send"
          /\ \A d \in Callers \ {c} : job'[d] = job[d]
          BY <2>5, CollectDoes
    <3> QED BY <1>a, <1>c, <2>a, <2>5, <3>1 DEF PlaceOf, PlaceOfShell
  <2>6. CASE AppendPrescription(c)
    <3>1. job[c].pc = "append" /\ \A d \in Callers \ {c} : job'[d] = job[d]
          BY <2>6, PrescriptionDoes
    <3>2. PICK how :
             \/ job'[c].tool = job[c].tool /\ job'[c].pc = Goals(c, how)
             \/ job[c].tool = "run_command" /\ Work(c, On(c, how, "run"))
             \/ Return(c, how)
          BY <2>6, PrescriptionDoes DEF Same
    <3>3. CASE job'[c].tool = job[c].tool /\ job'[c].pc = Goals(c, how)
      <4>1. CASE c \in Requests
        <5>0. Goals(c, how) \in {AfterPrescription(c), "forward"}
              BY <4>1 DEF Goals
        <5>1. PlaceOfRequest(job'[c])
              BY <2>a, <2>d, <2>g, <3>1, <3>3, <4>1, <5>0 DEF PlaceOf, PlaceOfRequest
        <5> QED BY <1>c, <2>f, <3>1, <4>1, <5>1 DEF PlaceOf
      <4>2. CASE c \in Shells
        <5>1. PlaceOfShell(job'[c])
              BY <1>c, <2>a, <2>d, <2>g, <3>1, <3>3, <4>2 DEF PlaceOf, PlaceOfShell, Goals
        <5> QED BY <1>c, <2>f, <3>1, <4>2, <5>1 DEF PlaceOf
      <4> QED BY <4>1, <4>2 DEF Callers
    <3>4. CASE job[c].tool = "run_command" /\ Work(c, On(c, how, "run"))
      <4>1. job'[c].tool = job[c].tool /\ job'[c].pc = "run"
            BY <2>e, <3>4
      <4> QED BY <1>a, <1>c, <2>a, <3>1, <3>4, <4>1
                DEF PlaceOf, PlaceOfRequest, PlaceOfShell
    <3> QED BY <2>c, <3>2, <3>3, <3>4
  <2>7. CASE Answer(c)
    <3>1. CASE Return(c, "ok")
          BY <2>c, <3>1
    <3>2. CASE /\ job[c].pc = "answer" /\ job[c].tool = "prescribe" /\ c \in Shells
               /\ Work(c, On(c, "ok", "collect"))
      <4>1. job'[c].tool = job[c].tool /\ job'[c].pc = "collect"
            /\ \A d \in Callers \ {c} : job'[d] = job[d]
            BY <2>e, <3>2
      <4> QED BY <1>a, <1>c, <2>a, <3>2, <4>1 DEF PlaceOf, PlaceOfShell
    <3> QED BY <2>7, <3>1, <3>2 DEF Answer
  <2>8. CASE Refuse(c) \/ FindFails(c) \/ Unknown(c) \/ (c \in Shells /\ (Send(c) \/ KillShell(c)))
        BY <2>b, <2>8, EndDoes
  <2>9. CASE Find(c)
    <3>1. job[c].pc = "find" /\ Same(job[c], job'[c]) /\ job'[c].pc = "append_report"
          /\ \A d \in Callers \ {c} : job'[d] = job[d]
          BY <2>9, FindDoes
    <3>2. job'[c].tool = job[c].tool
          BY <3>1 DEF Same
    <3> QED BY <1>c, <2>a, <2>f, <2>g, <3>1, <3>2 DEF PlaceOf, PlaceOfRequest, PlaceOfShell
  <2>10. CASE AppendReport(c)
    <3>1. /\ job[c].pc = "append_report" /\ \A d \in Callers \ {c} : job'[d] = job[d]
          /\ \/ \E how : Return(c, how)
             \/ /\ job'[c].tool = job[c].tool /\ job'[c].pc \in {"forward_report", "assess"}
                /\ c \notin Requests => job'[c].pc = "assess"
          BY <2>10, ReportDoes DEF Same
    <3> QED BY <1>a, <1>c, <2>a, <2>c, <3>1 DEF PlaceOf, PlaceOfRequest, PlaceOfShell
  <2>11. CASE Assess(c)
    <3>1. CASE Return(c, "ok")
          BY <2>c, <3>1
    <3>2. CASE /\ job[c].pc = "assess" /\ Work(c, On(c, "ok", "collect"))
               /\ ~(job[c].tool = "report" /\ c \in Requests) /\ job[c].tool # "run_command"
      <4>1. job'[c].tool = job[c].tool /\ job'[c].pc = "collect"
            /\ \A d \in Callers \ {c} : job'[d] = job[d]
            BY <2>e, <3>2
      <4> QED BY <1>a, <1>c, <2>a, <3>2, <4>1
                DEF PlaceOf, PlaceOfRequest, PlaceOfShell, Callers
    <3> QED BY <1>c, <2>11, <3>1, <3>2 DEF Assess
  <2> QED BY <1>2, <2>1, <2>2, <2>3, <2>4, <2>5, <2>6, <2>7, <2>8, <2>9, <2>10, <2>11 DEF Goes
<1>3. ASSUME Cleanup \/ Tick \/ StopServer PROVE \A d \in Callers : PlaceOf(d, job'[d])
      BY <1>a, <1>3, ServerDoes
<1> QED BY <1>1, <1>2, <1>3, NextCases

\* Nobody changes the call of another.
LEMMA OwnStep ==
    ASSUME Types, NEW c \in Callers, Begins(c) \/ Goes(c)
    PROVE  \A d \in Callers \ {c} : job'[d] = job[d]
<1>1. CASE Begins(c)
      BY <1>1, BeginDoes
<1>2. CASE Goes(c)
  <2>a. ASSUME NEW r, Work(c, r) PROVE \A d \in Callers \ {c} : job'[d] = job[d]
        BY <2>a DEF Work, Types, TypeOK
  <2>1. CASE AppendPrescription(c) \/ AppendReport(c)
        BY <2>1, PrescriptionDoes, ReportDoes
  <2>2. CASE Refuse(c) \/ FindFails(c) \/ Unknown(c) \/ Send(c) \/ KillShell(c)
        BY <2>2, EndDoes
  <2>3. CASE CountRetry(c) \/ Forward(c) \/ AppendFinding(c)
        BY <2>a, <2>3 DEF CountRetry, Forward, AppendFinding
  <2>4. CASE Run(c) \/ Collect(c) \/ Find(c)
        BY <2>4, RunDoes, CollectDoes, FindDoes
  <2>5. CASE Answer(c) \/ Assess(c)
        BY <2>a, <2>5 DEF Answer, Assess, Return
  <2> QED BY <1>2, <2>1, <2>2, <2>3, <2>4, <2>5 DEF Goes
<1> QED BY <1>1, <1>2

-----------------------------------------------------------------------------
(* Ids                                                                      *)

\* What a step adds to the log.
Adding(e) ==
    \/ e.ref = 0 /\ e.type \notin {"report", "signal"}
    \/ \E c \in Callers :
          /\ AppendReport(c) /\ e.type = "report" /\ e.ref = job[c].id
          /\ job[c].session # NoSession => e.session = job[c].session
    \/ \E c \in Callers : Unknown(c) /\ e.type = "signal" /\ e.ref = job[c].id
LogStep ==
    \/ log' = log /\ fresh' \in {fresh, fresh + 1}
    \/ \E e \in Entry :
          /\ log' = Append(log, e) /\ fresh' = fresh + 1 /\ e.id = fresh + 1 /\ Adding(e)

LEMMA UnknownDoes ==
    ASSUME Types, NEW c \in Callers, Unknown(c)
    PROVE  /\ job[c].pc = "find" /\ ValidDecision(job[c].outcome) /\ ~GetEvent(job[c].id)
           /\ hosted' = hosted
           /\ \E how \in Results, e \in Entry :
                 /\ Fault(how) /\ Return(c, how) /\ fresh' = fresh + 1 /\ e.id = fresh + 1
                 /\ e.type = "signal" /\ e.ref = job[c].id
                 /\ log' = log \/ log' = Append(log, e)
<1>1. PICK how \in Results \ {"unread"} :
          /\ Fault(how) /\ Return(c, how)
          /\ AppendEntry(NewEntry("signal", job[c].session, job[c].id, "none"),
                         how # "refused")
      BY DEF Unknown
<1>2. LET e == NewEntry("signal", job[c].session, job[c].id, "none") IN
      e \in Entry /\ e.id = fresh + 1 /\ e.type = "signal" /\ e.ref = job[c].id
  <2>1. job[c].session \in Sessions \cup {NoSession} \cup Nat /\ job[c].id \in Nat
        /\ fresh \in Nat /\ "none" \in Exits
        BY DEF Types, TypeOK, Job, Exits
  <2> QED BY <2>1, EntryType
<1>3. fresh' = fresh + 1
      BY <1>1 DEF AppendEntry
<1>4. \/ log' = log
      \/ log' = Append(log, NewEntry("signal", job[c].session, job[c].id, "none"))
      BY <1>1 DEF AppendEntry
<1> QED BY <1>1, <1>2, <1>3, <1>4 DEF Unknown

LEMMA FindingDoes ==
    ASSUME Types, NEW c \in Callers, AppendFinding(c)
    PROVE  /\ job[c].pc = "finding" /\ Work(c, On(c, "ok", AfterPrescription(c)))
           /\ UNCHANGED <<mode, retry, now, hosted, calls, history>>
           /\ \E how \in Results, e \in Entry : Adds(e, how) /\ e.type = "finding" /\ e.ref = 0
<1>1. PICK how \in Results :
          /\ Fault(how)
          /\ AppendEntry(NewEntry("finding", job[c].session, 0, "none"), Written(how))
      BY DEF AppendFinding
<1>2. LET e == NewEntry("finding", job[c].session, 0, "none") IN
      e \in Entry /\ e.id = fresh + 1 /\ e.type = "finding" /\ e.ref = 0
  <2>1. job[c].session \in Sessions \cup {NoSession} \cup Nat
        /\ fresh \in Nat /\ "none" \in Exits
        BY DEF Types, TypeOK, Job, Exits
  <2> QED BY <2>1, EntryType
<1>3. Adds(NewEntry("finding", job[c].session, 0, "none"), how)
      BY <1>1, <1>2 DEF Adds, AppendEntry
<1> QED BY <1>2, <1>3 DEF AppendFinding

LEMMA LogSteps ==
    ASSUME Types, Next
    PROVE  LogStep /\ mode' = mode
<1>1. ASSUME NEW c \in Callers, Begins(c) PROVE LogStep /\ mode' = mode
      BY <1>1, BeginDoes DEF LogStep, Adding
<1>2. ASSUME NEW c \in Callers, Goes(c) PROVE LogStep /\ mode' = mode
  <2>1. CASE AppendPrescription(c)
    <3>1. PICK how \in Results, e \in Entry : Adds(e, how) /\ e.type = "prescribe" /\ e.ref = 0
          BY <2>1, PrescriptionDoes
    <3>2. Adding(e) /\ mode' = mode
          BY <2>1, <3>1, PrescriptionDoes DEF Adding
    <3> QED BY <3>1, <3>2 DEF Adds, LogStep
  <2>2. CASE AppendFinding(c)
    <3>1. PICK how \in Results, e \in Entry : Adds(e, how) /\ e.type = "finding" /\ e.ref = 0
          BY <2>2, FindingDoes
    <3>2. Adding(e) /\ mode' = mode
          BY <2>2, <3>1, FindingDoes DEF Adding
    <3> QED BY <3>1, <3>2 DEF Adds, LogStep
  <2>3. CASE AppendReport(c)
    <3>1. PICK how \in Results, e \in Entry :
              /\ Adds(e, how) /\ e.type = "report" /\ e.ref = job[c].id
              /\ job[c].session # NoSession => e.session = job[c].session
          BY <2>3, ReportDoes
    <3>2. Adding(e) /\ mode' = mode
          BY <2>3, <3>1, ReportDoes DEF Adding
    <3> QED BY <3>1, <3>2 DEF Adds, LogStep
  <2>4. CASE Unknown(c)
    <3>1. PICK how \in Results, e \in Entry :
                 /\ fresh' = fresh + 1 /\ e.id = fresh + 1
                 /\ e.type = "signal" /\ e.ref = job[c].id
                 /\ log' = log \/ log' = Append(log, e)
          BY <2>4, UnknownDoes
    <3>2. Adding(e) /\ mode' = mode
          BY <2>4, <3>1 DEF Adding, Unknown
    <3> QED BY <3>1, <3>2 DEF LogStep
  <2>5. CASE ~(AppendPrescription(c) \/ AppendFinding(c) \/ AppendReport(c) \/ Unknown(c))
    <3>1. UNCHANGED <<log, fresh, mode>>
          BY <1>2, <2>5 DEF Goes, CountRetry, Run, Forward, Collect, Send, KillShell, Answer,
                            Refuse, FindFails, Find, Assess, history
    <3> QED BY <3>1 DEF LogStep
  <2> QED BY <2>1, <2>2, <2>3, <2>4, <2>5
<1>3. ASSUME Cleanup \/ Tick \/ StopServer PROVE LogStep /\ mode' = mode
      BY <1>3, ServerDoes DEF Quiet, LogStep
<1> QED BY <1>1, <1>2, <1>3, NextCases

\* What was stored stays, and at most one entry comes to it.
LEMMA Grown ==
    ASSUME Types, LogStep
    PROVE  /\ Len(log) \in Nat /\ Len(log') \in Nat /\ Len(log') \in {Len(log), Len(log) + 1}
           /\ \A k \in 1..Len(log) : k \in 1..Len(log') /\ log'[k] = log[k]
           /\ Ids \subseteq Ids' /\ fresh' \in {fresh, fresh + 1}
           /\ Len(log') = Len(log) => log' = log
           /\ Len(log') = Len(log) + 1 =>
                 LET e == log'[Len(log) + 1] IN
                 e \in Entry /\ fresh' = fresh + 1 /\ e.id = fresh + 1 /\ Adding(e)
<1>1. log \in Seq(Entry) /\ fresh \in Nat /\ Len(log) \in Nat
      BY DEF Types, TypeOK
<1>2. CASE log' = log /\ fresh' \in {fresh, fresh + 1}
      BY <1>1, <1>2 DEF Ids
<1>3. ASSUME NEW e \in Entry, log' = Append(log, e), fresh' = fresh + 1, e.id = fresh + 1,
             Adding(e)
      PROVE  /\ Len(log') = Len(log) + 1 /\ log'[Len(log) + 1] = e
             /\ \A k \in 1..Len(log) : k \in 1..Len(log') /\ log'[k] = log[k]
             /\ Ids \subseteq Ids'
  <2>1. /\ Len(log') = Len(log) + 1 /\ log'[Len(log) + 1] = e
        /\ \A k \in 1..Len(log) : k \in 1..Len(log') /\ log'[k] = log[k]
        BY <1>1, <1>3
  <2> QED BY <2>1 DEF Ids
<1> QED BY <1>1, <1>2, <1>3 DEF LogStep

\* Where a call has its ids from, and who is told them.
IdStep(c) ==
    \/ job'[c].id \in {0, job[c].id} \cup told /\ job'[c].rid \in {0, job[c].rid}
    \/ fresh' = fresh + 1 /\ job'[c].id = fresh + 1 /\ job'[c].rid = job[c].rid
    \/ fresh' = fresh + 1 /\ job'[c].id = job[c].id /\ job'[c].rid = fresh + 1
Telling(c) ==
    \/ job[c].tool = "prescribe" /\ job[c].pc = "answer" /\ told' = told \cup {job[c].id}
    \/ job[c].tool = "report" /\ job[c].pc = "assess" /\ told' = told \cup {job[c].rid}
    \/ /\ job[c].tool = "record" /\ job[c].pc = "assess"
       /\ told' = told \cup {job[c].id, job[c].rid}

LEMMA IdSteps ==
    ASSUME Types, Place, Next
    PROVE  /\ \A c \in Callers : IdStep(c)
           /\ told' = told \/ \E c \in Callers : Telling(c)
           /\ \A r \in ran' : r \in ran \/ \E c \in Callers : r.id = job[c].id
<1>a. \A c \in Callers : job'[c] \in {job[c], Idle} => IdStep(c)
      BY IdleIs DEF IdStep
<1>1. CASE Cleanup \/ Tick \/ StopServer
  <2>1. told' = told /\ ran' = ran /\ \A c \in Callers : job'[c] \in {job[c], Idle}
        BY <1>1, ServerDoes
  <2> QED BY <1>a, <2>1
<1>2. ASSUME NEW c \in Callers, Begins(c) \/ Goes(c)
      PROVE  /\ \A d \in Callers \ {c} : job'[d] = job[d]
             /\ IdStep(c) /\ (told' = told \/ Telling(c))
             /\ \A r \in ran' : r \in ran \/ r.id = job[c].id
  <2>a. ASSUME NEW how, Return(c, how), told' = told \/ Telling(c)
        PROVE  /\ \A d \in Callers \ {c} : job'[d] = job[d]
               /\ IdStep(c) /\ (told' = told \/ Telling(c))
               /\ \A r \in ran' : r \in ran \/ r.id = job[c].id
    <3>1. /\ job'[c] = Idle /\ \A d \in Callers \ {c} : job'[d] = job[d]
          /\ ran' = ran \/ ran' = ran \cup {Result(c, how)}
          BY <2>a, Returned DEF Types
    <3>2. Result(c, how).id = job[c].id
          BY DEF Result
    <3> QED BY <1>a, <2>a, <3>1, <3>2
  <2>b. ASSUME Keeps(job[c], job'[c]), \A d \in Callers \ {c} : job'[d] = job[d],
               ran' = ran, told' = told \/ Telling(c)
        PROVE  /\ \A d \in Callers \ {c} : job'[d] = job[d]
               /\ IdStep(c) /\ (told' = told \/ Telling(c))
               /\ \A r \in ran' : r \in ran \/ r.id = job[c].id
        BY <2>b DEF Keeps, IdStep
  <2>c. AfterPrescription(c) \in {"answer", "run", "find"}
        BY DEF AfterPrescription
  <2>1. CASE Begins(c)
    <3>1. /\ BeginsAt(c, job'[c]) /\ Fresh(job'[c]) /\ told' = told /\ ran' = ran
          /\ \A d \in Callers \ {c} : job'[d] = job[d]
          BY <2>1, BeginDoes DEF history
    <3>2. IdStep(c)
          BY <3>1, IdleIs DEF BeginsAt, Fresh, IdStep
    <3> QED BY <3>1, <3>2
  <2>2. CASE CountRetry(c) \/ Forward(c) \/ AppendFinding(c)
    <3>1. PICK pc \in {"append", "answer", "run", "find", "assess"} : Work(c, On(c, "ok", pc))
          BY <2>2, <2>c DEF CountRetry, Forward, AppendFinding
    <3>2. told' = told /\ ran' = ran
          BY <2>2 DEF CountRetry, Forward, AppendFinding, history
    <3> QED BY <2>b, <3>1, <3>2, OnDoes
  <2>3. CASE Run(c) \/ Collect(c) \/ Find(c)
    <3>1. /\ job'[c].id = job[c].id /\ job'[c].rid = job[c].rid /\ told' = told /\ ran' = ran
          /\ \A d \in Callers \ {c} : job'[d] = job[d]
          BY <2>3, RunDoes, CollectDoes, FindDoes
    <3> QED BY <3>1 DEF IdStep
  <2>4. CASE AppendPrescription(c)
    <3>1. PICK how \in Results, e \in Entry :
              /\ fresh' = fresh + 1 /\ e.id = fresh + 1
              /\ \/ ran' = ran /\ job'[c].id = e.id /\ job'[c].rid = job[c].rid
                 \/ ran' = ran /\ Work(c, On(c, how, "run"))
                 \/ Return(c, how)
          BY <2>4, PrescriptionDoes DEF Adds
    <3>2. told' = told /\ \A d \in Callers \ {c} : job'[d] = job[d]
          BY <2>4, PrescriptionDoes
    <3>3. CASE ran' = ran /\ job'[c].id = e.id /\ job'[c].rid = job[c].rid
          BY <3>1, <3>2, <3>3 DEF IdStep
    <3>4. CASE ran' = ran /\ Work(c, On(c, how, "run"))
          BY <2>b, <3>2, <3>4, OnDoes
    <3> QED BY <2>a, <3>1, <3>2, <3>3, <3>4
  <2>5. CASE AppendReport(c)
    <3>1. PICK how \in Results, e \in Entry :
              /\ fresh' = fresh + 1 /\ e.id = fresh + 1
              /\ \/ ran' = ran /\ job'[c].id = job[c].id /\ job'[c].rid = e.id
                 \/ Return(c, how)
          BY <2>5, ReportDoes DEF Adds
    <3>2. told' = told /\ \A d \in Callers \ {c} : job'[d] = job[d]
          BY <2>5, ReportDoes
    <3>3. CASE ran' = ran /\ job'[c].id = job[c].id /\ job'[c].rid = e.id
          BY <3>1, <3>2, <3>3 DEF IdStep
    <3> QED BY <2>a, <3>1, <3>2, <3>3
  <2>6. CASE Refuse(c) \/ FindFails(c) \/ Unknown(c) \/ Send(c) \/ KillShell(c)
    <3>1. /\ job'[c] = Idle /\ \A d \in Callers \ {c} : job'[d] = job[d]
          /\ told' = told /\ ran' \subseteq ran \cup {Result(c, "ok"), Result(c, "no")}
          BY <2>6, EndDoes
    <3>2. Result(c, "ok").id = job[c].id /\ Result(c, "no").id = job[c].id
          BY DEF Result
    <3> QED BY <1>a, <3>1, <3>2
  <2>7. CASE Answer(c)
    <3>1. \/ Return(c, "ok") /\ (told' = told \/ Telling(c))
          \/ Work(c, On(c, "ok", "collect")) /\ Telling(c) /\ ran' = ran
          BY <2>7 DEF Answer, Give, Telling
    <3> QED BY <2>a, <2>b, <3>1, OnDoes
  <2>8. CASE Assess(c)
    <3>1. job[c].tool \in {"run_command", "report", "record"}
          BY <2>8, IdleIs DEF Assess, Place, PlaceOfRequest, PlaceOfShell, Callers
    <3>2. \/ Return(c, "ok") /\ (told' = told \/ Telling(c))
          \/ Work(c, On(c, "ok", "collect")) /\ Telling(c) /\ ran' = ran
          BY <2>8, <3>1 DEF Assess, Give, Telling, Callers
    <3> QED BY <2>a, <2>b, <3>2, OnDoes
  <2> QED BY <1>2, <2>1, <2>2, <2>3, <2>4, <2>5, <2>6, <2>7, <2>8 DEF Goes
<1>3. CASE \E c \in Callers : Begins(c) \/ Goes(c)
      BY <1>a, <1>2, <1>3
<1> QED BY <1>1, <1>3, NextCases

LEMMA NextDrawn ==
    ASSUME Types, Place, Drawn, Next
    PROVE  Drawn'
<1>a. /\ LogStep /\ fresh \in Nat /\ fresh' \in {fresh, fresh + 1}
      /\ \A c \in Callers : IdStep(c)
      /\ told' = told \/ \E c \in Callers : Telling(c)
      /\ \A r \in ran' : r \in ran \/ \E c \in Callers : r.id = job[c].id
      BY LogSteps, Grown, IdSteps DEF Types, TypeOK
<1>b. 0..fresh \subseteq 0..fresh' /\ 1..fresh \subseteq 1..fresh'
      BY <1>a
<1>c. \A c \in Callers : job[c].id \in 0..fresh /\ job[c].rid \in 0..fresh
      BY DEF Drawn
<1>1. ASSUME NEW k \in 1..Len(log') PROVE Ordered(k)' /\ (log[k].ref \in 0..fresh)'
  <2>1. CASE k \in 1..Len(log)
    <3>1. log'[k] = log[k] /\ \A j \in 1..k-1 : log'[j] = log[j]
          BY <1>a, <2>1, Grown
    <3>2. Ordered(k) /\ log[k].ref \in 0..fresh
          BY <2>1 DEF Drawn
    <3> QED BY <1>b, <3>1, <3>2 DEF Ordered
  <2>2. CASE k \notin 1..Len(log)
    <3>1. k = Len(log) + 1 /\ Len(log') = Len(log) + 1 /\ Len(log) \in Nat
          BY <1>a, <2>2, Grown
    <3>2. /\ fresh' = fresh + 1 /\ log'[k].id = fresh + 1 /\ Adding(log'[k])
          /\ \A j \in 1..k-1 : log'[j] = log[j]
          BY <1>a, <3>1, Grown
    <3>3. log'[k].ref \in 0..fresh
      <4>1. log'[k].ref = 0 \/ \E c \in Callers : log'[k].ref = job[c].id
            BY <3>2 DEF Adding
      <4> QED BY <1>a, <1>c, <4>1
    <3>4. \A j \in 1..k-1 : log[j].id \in 1..fresh
          BY <3>1 DEF Drawn, Ordered
    <3>5. \A j \in 1..k-1 : log'[j].id < fresh + 1
          BY <1>a, <3>2, <3>4
    <3> QED BY <1>a, <1>b, <3>2, <3>3, <3>5 DEF Ordered
  <2> QED BY <2>1, <2>2
<1>2. ASSUME NEW c \in Callers PROVE (job[c].id \in 0..fresh /\ job[c].rid \in 0..fresh)'
  <2>1. told \subseteq 0..fresh
        BY DEF Drawn
  <2>2. IdStep(c)
        BY <1>a
  <2>3. job[c].id \in 0..fresh' /\ job[c].rid \in 0..fresh' /\ told \subseteq 0..fresh'
        /\ 0 \in 0..fresh'
        BY <1>a, <1>b, <1>c, <2>1
  <2>4. fresh' = fresh + 1 => fresh + 1 \in 0..fresh'
        BY <1>a
  <2> QED BY <2>2, <2>3, <2>4 DEF IdStep
<1>3. (told \subseteq 0..fresh)'
  <2>1. told \subseteq 0..fresh
        BY DEF Drawn
  <2>2. \A id \in told' : id \in 0..fresh
    <3>1. CASE told' = told
          BY <2>1, <3>1
    <3>2. ASSUME NEW c \in Callers, Telling(c) PROVE \A id \in told' : id \in 0..fresh
      <4>1. told' \subseteq told \cup {job[c].id, job[c].rid}
            BY <3>2 DEF Telling
      <4> QED BY <1>c, <2>1, <4>1
    <3> QED BY <1>a, <3>1, <3>2
  <2> QED BY <1>b, <2>2
<1>4. ASSUME NEW r \in ran' PROVE r.id \in 0..fresh'
      BY <1>a, <1>b, <1>c, <1>4 DEF Drawn
<1> QED BY <1>1, <1>2, <1>3, <1>4 DEF Drawn

LEMMA Unique ==
    ASSUME Types, Drawn, NEW j \in 1..Len(log), NEW k \in 1..Len(log), log[j].id = log[k].id
    PROVE  j = k
<1>1. Len(log) \in Nat /\ log[j].id \in Nat
      BY LogEntry DEF Types, TypeOK
<1>2. (j < k => log[j].id < log[k].id) /\ (k < j => log[k].id < log[j].id)
      BY <1>1 DEF Drawn, Ordered
<1> QED BY <1>1, <1>2

-----------------------------------------------------------------------------
(* What is in the store                                                     *)

LEMMA NextStored ==
    ASSUME Types, Place, Drawn, Stored, Next
    PROVE  Stored'
<1>a. /\ LogStep /\ Ids \subseteq Ids' /\ Len(log) \in Nat
      /\ \A k \in 1..Len(log) : k \in 1..Len(log') /\ log'[k] = log[k]
      BY LogSteps, Grown
<1>b. \A c \in Callers : job'[c] = job[c] => Known(c)'
      BY <1>a DEF Stored, Known
<1>c. \A c \in Callers : job'[c] = Idle => Known(c)'
      BY IdleIs DEF Known
<1>d. \A c \in Callers : (/\ job'[c].pc \notin {"append_report", "forward", "forward_report"}
                         /\ job'[c].batch \in {job[c].batch, {}}) => Known(c)'
      BY <1>a DEF Stored, Known
<1>e. hosted' = hosted => hosted' \subseteq Ids'
      BY <1>a DEF Stored
<1>1. CASE Cleanup \/ Tick \/ StopServer
      BY <1>b, <1>c, <1>e, <1>1, ServerDoes DEF Stored, Quiet
<1>2. ASSUME NEW c \in Callers, Begins(c) PROVE Stored'
      BY <1>b, <1>c, <1>d, <1>e, <1>2, BeginDoes, IdleIs DEF Stored, BeginsAt, Fresh
<1>3. ASSUME NEW c \in Callers, Goes(c) PROVE Stored'
  <2>a. ASSUME Known(c)', hosted' \subseteq Ids', \A d \in Callers \ {c} : job'[d] = job[d]
        PROVE  Stored'
        BY <1>b, <2>a DEF Stored
  <2>b. ASSUME NEW how, Return(c, how)
        PROVE  Known(c)' /\ \A d \in Callers \ {c} : job'[d] = job[d]
        BY <1>c, <2>b, Returned DEF Types
  <2>c. AfterPrescription(c) \in {"answer", "run", "find"}
        BY DEF AfterPrescription
  <2>d. ASSUME NEW how, NEW pc \in {"append", "answer", "run", "find", "assess", "collect"},
               Work(c, On(c, how, pc))
        PROVE  Known(c)' /\ \A d \in Callers \ {c} : job'[d] = job[d]
        BY <1>d, <2>d, OnDoes DEF Keeps, Same
  <2>1. CASE CountRetry(c) \/ AppendFinding(c)
    <3>1. PICK pc \in {"append", "answer", "run", "find"} : Work(c, On(c, "ok", pc))
          BY <2>1, <2>c DEF CountRetry, AppendFinding
    <3> QED BY <1>e, <2>a, <2>d, <2>1, <3>1 DEF CountRetry, AppendFinding
  <2>2. CASE Forward(c)
    <3>1. PICK pc \in {"answer", "run", "find", "assess"} : Work(c, On(c, "ok", pc))
          BY <2>2, <2>c DEF Forward
    <3>2. hosted' \subseteq Ids
          BY <2>2 DEF Forward, Stored, Known
    <3> QED BY <1>a, <2>a, <2>d, <3>1, <3>2
  <2>3. CASE Run(c)
    <3>1. /\ Quiet /\ job'[c].pc \in {"find", "answer"} /\ job'[c].batch = job[c].batch
          /\ \A d \in Callers \ {c} : job'[d] = job[d]
          BY <2>3, RunDoes
    <3> QED BY <1>d, <1>e, <2>a, <3>1 DEF Quiet
  <2>4. CASE Collect(c)
    <3>1. /\ Quiet /\ job'[c].pc = "send" /\ \A d \in Callers \ {c} : job'[d] = job[d]
          /\ job'[c].batch = {log[k].id : k \in {k \in 1..Len(log) :
                                                  log[k].session = job[c].session}}
          BY <2>4, CollectDoes
    <3>2. job'[c].batch \subseteq Ids
          BY <3>1 DEF Ids
    <3>3. Known(c)'
          BY <1>a, <3>1, <3>2 DEF Known
    <3> QED BY <1>e, <2>a, <3>1, <3>3 DEF Quiet
  <2>5. CASE Find(c)
    <3>1. /\ Quiet /\ job'[c].pc = "append_report" /\ Same(job[c], job'[c])
          /\ \A d \in Callers \ {c} : job'[d] = job[d]
          /\ \E k \in 1..Len(log) : log[k].id = job'[c].id /\ log[k].session = job'[c].session
          BY <2>5, FindDoes
    <3>2. Known(c)'
          BY <1>a, <3>1 DEF Known, Same, Stored
    <3> QED BY <1>e, <2>a, <3>1, <3>2 DEF Quiet
  <2>6. CASE Refuse(c) \/ FindFails(c) \/ Unknown(c) \/ KillShell(c)
    <3>1. hosted' = hosted
          BY <2>6 DEF Refuse, FindFails, Unknown, KillShell
    <3> QED BY <1>c, <1>e, <2>a, <2>6, <3>1, EndDoes
  <2>7. CASE Send(c)
    <3>1. job[c].batch \subseteq Ids /\ hosted \subseteq Ids
          BY DEF Stored, Known
    <3>2. hosted' \subseteq Ids
          BY <2>7, <3>1 DEF Send, Saved
    <3> QED BY <1>a, <1>c, <2>a, <2>7, <3>2, EndDoes
  <2>8. CASE Answer(c) \/ Assess(c)
    <3>1. hosted' = hosted
          BY <2>8 DEF Answer, Assess
    <3>2. Return(c, "ok") \/ Work(c, On(c, "ok", "collect"))
          BY <2>8 DEF Answer, Assess, Callers
    <3> QED BY <1>e, <2>a, <2>b, <2>d, <3>1, <3>2
  <2>9. CASE AppendPrescription(c)
    <3>1. PICK how \in Results, e \in Entry :
              /\ Adds(e, how)
              /\ \/ /\ Same(job[c], job'[c]) /\ job'[c].id = e.id /\ job'[c].pc = Goals(c, how)
                 \/ Work(c, On(c, how, "run"))
                 \/ Return(c, how)
          BY <2>9, PrescriptionDoes
    <3>2. hosted' = hosted /\ \A d \in Callers \ {c} : job'[d] = job[d]
          BY <2>9, PrescriptionDoes
    <3>3. CASE Same(job[c], job'[c]) /\ job'[c].id = e.id /\ job'[c].pc = Goals(c, how)
      <4>1. CASE Persisted(how)
        <5>1. Len(log') = Len(log) + 1 /\ log'[Len(log) + 1] = e
              BY <3>1, <4>1 DEF Adds, Persisted, Written, Types, TypeOK
        <5>2. job'[c].id \in Ids'
              BY <1>a, <3>3, <5>1 DEF Ids
        <5>3. job'[c].pc \in {"answer", "run", "find", "forward", "finding"}
              BY <2>c, <3>3 DEF Goals
        <5>4. Known(c)'
              BY <1>a, <3>3, <5>2, <5>3 DEF Known, Same, Stored
        <5> QED BY <1>e, <2>a, <3>2, <5>4
      <4>2. CASE ~Persisted(how)
        <5>1. job'[c].pc \in {"answer", "run", "find"} /\ job'[c].batch = job[c].batch
              BY <2>c, <3>3, <4>2 DEF Goals, Same
        <5> QED BY <1>d, <1>e, <2>a, <3>2, <5>1
      <4> QED BY <4>1, <4>2
    <3> QED BY <1>e, <2>a, <2>b, <2>d, <3>1, <3>2, <3>3
  <2>10. CASE AppendReport(c)
    <3>1. PICK how \in Results, e \in Entry :
              /\ Adds(e, how)
              /\ \/ /\ Same(job[c], job'[c]) /\ job'[c].rid = e.id
                    /\ job'[c].pc = IF Persisted(how) /\ c \in Requests
                                    THEN "forward_report" ELSE "assess"
                 \/ Return(c, how)
          BY <2>10, ReportDoes
    <3>2. hosted' = hosted /\ \A d \in Callers \ {c} : job'[d] = job[d]
          BY <2>10, ReportDoes
    <3>3. CASE /\ Same(job[c], job'[c]) /\ job'[c].rid = e.id
               /\ job'[c].pc = IF Persisted(how) /\ c \in Requests
                               THEN "forward_report" ELSE "assess"
      <4>1. CASE Persisted(how)
        <5>1. Len(log') = Len(log) + 1 /\ log'[Len(log) + 1] = e
              BY <3>1, <4>1 DEF Adds, Persisted, Written, Types, TypeOK
        <5>2. job'[c].rid \in Ids'
              BY <1>a, <3>3, <5>1 DEF Ids
        <5>3. job'[c].pc \in {"forward_report", "assess"}
              BY <3>3
        <5>4. Known(c)'
              BY <1>a, <3>3, <5>2, <5>3 DEF Known, Same, Stored
        <5> QED BY <1>e, <2>a, <3>2, <5>4
      <4>2. CASE ~Persisted(how)
        <5>1. job'[c].pc = "assess" /\ job'[c].batch = job[c].batch
              BY <3>3, <4>2 DEF Same
        <5> QED BY <1>d, <1>e, <2>a, <3>2, <5>1
      <4> QED BY <4>1, <4>2
    <3> QED BY <1>e, <2>a, <2>b, <3>1, <3>2, <3>3
  <2> QED BY <1>3, <2>1, <2>2, <2>3, <2>4, <2>5, <2>6, <2>7, <2>8, <2>9, <2>10 DEF Goes
<1> QED BY <1>1, <1>2, <1>3, NextCases

LEMMA NextLinked ==
    ASSUME Types, Place, Stored, ReportsLinked, Next
    PROVE  ReportsLinked'
<1>a. LogStep /\ log \in Seq(Entry)
      BY LogSteps DEF Types, TypeOK
<1>b. SUFFICES ASSUME NEW k \in 1..Len(log'), log'[k].type = "report"
               PROVE  \E j \in 1..k-1 : /\ log'[j].id = log'[k].ref
                                        /\ log'[j].session = log'[k].session
      BY DEF ReportsLinked
<1>1. CASE k \in 1..Len(log)
  <2>1. log'[k] = log[k]
        BY <1>a, <1>1, Grown
  <2>2. PICK j \in 1..k-1 : log[j].id = log[k].ref /\ log[j].session = log[k].session
        BY <1>b, <1>1, <2>1 DEF ReportsLinked
  <2>3. log'[j] = log[j]
        BY <1>a, <1>1, <2>2, Grown
  <2> QED BY <2>1, <2>2, <2>3
<1>2. CASE k \notin 1..Len(log)
  <2>1. /\ k = Len(log) + 1 /\ Len(log') = Len(log) + 1 /\ Len(log) \in Nat
        BY <1>a, <1>2, Grown
  <2>2. /\ Adding(log'[k]) /\ \A j \in 1..Len(log) : log'[j] = log[j]
        BY <1>a, <2>1, Grown
  <2>3. PICK c \in Callers :
            /\ AppendReport(c) /\ log'[k].ref = job[c].id
            /\ job[c].session # NoSession => log'[k].session = job[c].session
        BY <1>b, <2>2 DEF Adding
  <2>4. job[c].pc = "append_report"
        BY <2>3 DEF AppendReport
  <2>5. PICK j \in 1..Len(log) : log[j].id = job[c].id /\ log[j].session = job[c].session
        BY <2>3, <2>4 DEF Stored, Known
  <2>6. job[c].session # NoSession
        BY <1>a, <2>5, LogEntry
  <2> QED BY <2>1, <2>2, <2>3, <2>5, <2>6
<1> QED BY <1>1, <1>2

LEMMA NextStrict ==
    ASSUME Types, Place, Drawn, Stored, Strict, Next
    PROVE  Strict'
<1>a. /\ LogStep /\ mode' = mode /\ Ids \subseteq Ids' /\ \A c \in Callers : IdStep(c)
      /\ told' = told \/ \E c \in Callers : Telling(c)
      BY LogSteps, Grown, IdSteps
<1> SUFFICES ASSUME ~Lenient
             PROVE  /\ told' \subseteq Ids' /\ \A c \in Callers : StrictJob(c)'
                    /\ \A k \in 1..Len(log') : log'[k].type = "signal" => log'[k].ref = 0
    BY <1>a DEF Strict, Lenient
<1>b. /\ told \subseteq Ids /\ \A c \in Callers : StrictJob(c)
      /\ \A k \in 1..Len(log) : log[k].type = "signal" => log[k].ref = 0
      BY DEF Strict
<1>1. told' \subseteq Ids'
  <2>1. ASSUME NEW c \in Callers, Telling(c) PROVE told' \subseteq Ids
        BY <1>b, <2>1 DEF Telling, StrictJob
  <2> QED BY <1>a, <1>b, <2>1
<1>2. ASSUME NEW k \in 1..Len(log'), log'[k].type = "signal" PROVE log'[k].ref = 0
  <2>1. CASE k \in 1..Len(log)
        BY <1>a, <1>b, <1>2, <2>1, Grown
  <2>2. CASE k \notin 1..Len(log)
    <3>1. Adding(log'[k])
      <4>1. k = Len(log) + 1 /\ Len(log') = Len(log) + 1
            BY <1>a, <2>2, Grown
      <4> QED BY <1>a, <4>1, Grown
    <3>2. ASSUME NEW c \in Callers, Unknown(c) PROVE job[c].id = 0
          BY <1>b, <3>2 DEF Unknown, GetEvent, StrictJob
    <3> QED BY <1>2, <3>1, <3>2 DEF Adding
  <2> QED BY <2>1, <2>2
<1>3. ASSUME NEW c \in Callers PROVE StrictJob(c)'
  <2>a. StrictJob(c)
        BY <1>b
  <2>b. job'[c] = job[c] => StrictJob(c)'
        BY <1>a, <2>a DEF StrictJob
  <2>c. job'[c] = Idle => StrictJob(c)'
        BY IdleIs DEF StrictJob
  <2>d. Ids \subseteq 1..fresh /\ fresh \in Nat
        BY DEF Ids, Drawn, Ordered, Types, TypeOK
  <2>1. CASE Begins(c)
    <3>1. BeginsAt(c, job'[c]) /\ Fresh(job'[c])
          BY <2>1, BeginDoes
    <3> QED BY <1>a, <1>b, <2>c, <3>1 DEF BeginsAt, Fresh, StrictJob
  <2>2. CASE Goes(c)
    <3>a. ASSUME NEW how, Return(c, how) PROVE StrictJob(c)'
          BY <2>c, <3>a, Returned DEF Types
    <3>b. ASSUME Keeps(job[c], job'[c]), job'[c].pc \notin {"forward_report", "assess"},
                 job[c].pc \in {"count", "append"} =>
                     job'[c].pc = "append" \/ job[c].tool = "run_command"
          PROVE  StrictJob(c)'
          BY <1>a, <2>a, <3>b DEF Keeps, Same, StrictJob
    <3>c. AfterPrescription(c) \in {"answer", "run", "find"}
          BY DEF AfterPrescription
    <3>1. CASE CountRetry(c)
      <4>1. Work(c, On(c, "ok", "append"))
            BY <3>1 DEF CountRetry
      <4> QED BY <3>b, <4>1, OnDoes
    <3>2. CASE Forward(c)
      <4>1. \/ job[c].pc = "forward" /\ Work(c, On(c, "ok", AfterPrescription(c)))
            \/ job[c].pc = "forward_report" /\ Work(c, On(c, "ok", "assess"))
            BY <3>2 DEF Forward
      <4>2. CASE job[c].pc = "forward" /\ Work(c, On(c, "ok", AfterPrescription(c)))
            BY <3>b, <3>c, <4>2, OnDoes
      <4>3. CASE job[c].pc = "forward_report" /\ Work(c, On(c, "ok", "assess"))
        <5>1. Keeps(job[c], job'[c]) /\ job'[c].pc = "assess"
              BY <4>3, OnDoes
        <5> QED BY <1>a, <2>a, <4>3, <5>1 DEF Keeps, Same, StrictJob
      <4> QED BY <4>1, <4>2, <4>3
    <3>3. CASE AppendFinding(c)
      <4>1. job[c].pc = "finding" /\ Work(c, On(c, "ok", AfterPrescription(c)))
            BY <3>3 DEF AppendFinding
      <4> QED BY <3>b, <3>c, <4>1, OnDoes
    <3>4. CASE Run(c)
      <4>1. /\ job[c].pc = "run" /\ job'[c].tool = job[c].tool /\ job'[c].id = job[c].id
            /\ job'[c].rid = job[c].rid /\ job'[c].pc \in {"find", "answer"}
            BY <3>4, RunDoes
      <4> QED BY <1>a, <2>a, <4>1 DEF StrictJob
    <3>5. CASE Collect(c)
      <4>1. /\ job[c].pc = "collect" /\ job'[c].tool = job[c].tool /\ job'[c].id = job[c].id
            /\ job'[c].rid = job[c].rid /\ job'[c].pc = "send"
            BY <3>5, CollectDoes
      <4> QED BY <1>a, <2>a, <4>1 DEF StrictJob
    <3>6. CASE Find(c)
      <4>1. /\ job[c].pc = "find" /\ Same(job[c], job'[c]) /\ job'[c].id = job[c].id
            /\ job'[c].rid = job[c].rid /\ job'[c].pc = "append_report"
            BY <3>6, FindDoes
      <4> QED BY <1>a, <2>a, <4>1 DEF StrictJob, Same
    <3>7. CASE Refuse(c) \/ FindFails(c) \/ Unknown(c) \/ Send(c) \/ KillShell(c)
          BY <2>c, <3>7, EndDoes
    <3>8. CASE Answer(c) \/ Assess(c)
      <4>1. /\ job[c].pc \in {"answer", "assess"}
            /\ Return(c, "ok") \/ Work(c, On(c, "ok", "collect"))
            BY <3>8 DEF Answer, Assess
      <4>2. CASE Work(c, On(c, "ok", "collect"))
            BY <3>b, <4>1, <4>2, OnDoes
      <4> QED BY <3>a, <4>1, <4>2
    <3>9. CASE AppendPrescription(c)
      <4>1. PICK how \in Results, e \in Entry :
                /\ Adds(e, how)
                /\ \/ /\ Accepted(how) /\ Same(job[c], job'[c]) /\ job'[c].id = e.id
                      /\ job'[c].rid = job[c].rid /\ job'[c].pc = Goals(c, how)
                   \/ job[c].tool = "run_command" /\ Work(c, On(c, how, "run"))
                   \/ Return(c, how)
            BY <3>9, PrescriptionDoes
      <4>2. CASE /\ Accepted(how) /\ Same(job[c], job'[c]) /\ job'[c].id = e.id
                 /\ job'[c].rid = job[c].rid /\ job'[c].pc = Goals(c, how)
        <5>1. how = "ok"
              BY <4>2 DEF Accepted
        <5>2. Len(log') = Len(log) + 1 /\ log'[Len(log) + 1] = e /\ Len(log) \in Nat
              BY <4>1, <5>1 DEF Adds, Written, Types, TypeOK
        <5>3. job'[c].id \in Ids'
              BY <4>2, <5>2 DEF Ids
        <5>4. job'[c].id # 0
              BY <2>d, <4>1, <4>2 DEF Adds
        <5>5. job'[c].pc \notin {"forward_report", "assess"}
              BY <3>c, <4>2 DEF Goals
        <5> QED BY <1>a, <2>a, <4>2, <5>3, <5>4, <5>5 DEF StrictJob
      <4>3. CASE job[c].tool = "run_command" /\ Work(c, On(c, how, "run"))
            BY <3>b, <4>3, OnDoes
      <4> QED BY <3>a, <4>1, <4>2, <4>3
    <3>10. CASE AppendReport(c)
      <4>1. PICK how \in Results, e \in Entry :
                /\ Adds(e, how)
                /\ \/ /\ Accepted(how) /\ Same(job[c], job'[c]) /\ job'[c].id = job[c].id
                      /\ job'[c].rid = e.id /\ job'[c].pc \in {"forward_report", "assess"}
                   \/ Return(c, how)
            BY <3>10, ReportDoes
      <4>2. CASE /\ Accepted(how) /\ Same(job[c], job'[c]) /\ job'[c].id = job[c].id
                 /\ job'[c].rid = e.id /\ job'[c].pc \in {"forward_report", "assess"}
        <5>1. how = "ok" /\ job[c].pc = "append_report"
              BY <3>10, <4>2 DEF Accepted, AppendReport
        <5>2. Len(log') = Len(log) + 1 /\ log'[Len(log) + 1] = e /\ Len(log) \in Nat
              BY <4>1, <5>1 DEF Adds, Written, Types, TypeOK
        <5>3. job'[c].rid \in Ids'
              BY <4>2, <5>2 DEF Ids
        <5>4. job'[c].rid # 0
              BY <2>d, <4>1, <4>2 DEF Adds
        <5> QED BY <1>a, <2>a, <4>2, <5>1, <5>3, <5>4 DEF StrictJob, Same
      <4> QED BY <3>a, <4>1, <4>2
    <3> QED BY <2>2, <3>1, <3>2, <3>3, <3>4, <3>5, <3>6, <3>7, <3>8, <3>9, <3>10 DEF Goes
  <2>3. CASE ~Begins(c) /\ ~Goes(c)
    <3>1. job'[c] \in {job[c], Idle}
          BY <2>3, NextCases, OwnStep, ServerDoes
    <3> QED BY <2>b, <2>c, <3>1
  <2> QED BY <2>1, <2>2, <2>3
<1> QED BY <1>1, <1>2, <1>3

-----------------------------------------------------------------------------
(* What a call without a fault has stored                                   *)

Progresses == \A c \in Callers : Progress(c)

LEMMA NextProgress ==
    ASSUME Types, Place, Drawn, Progresses, Next
    PROVE  Progresses'
<1>a. /\ LogStep /\ Len(log) \in Nat
      /\ \A k \in 1..Len(log) : k \in 1..Len(log') /\ log'[k] = log[k]
      BY LogSteps, Grown
<1> SUFFICES ASSUME NEW c \in Callers PROVE Progress(c)'
    BY DEF Progresses
<1>b. Progress(c)
      BY DEF Progresses
\* What is stored of a call stays so.
<1>c. /\ (/\ Prescribed(job[c]) /\ job'[c].id = job[c].id
          /\ job'[c].session = job[c].session) => Prescribed(job[c])'
      /\ (/\ Recorded(job[c]) /\ job'[c].id = job[c].id
          /\ job'[c].outcome = job[c].outcome) => Recorded(job[c])'
      BY <1>a DEF Prescribed, Recorded
<1>d. job'[c] = job[c] => Progress(c)'
      BY <1>b, <1>c DEF Progress
<1>e. (~job'[c].clean \/ ~Acts(job'[c])) => Progress(c)'
      BY DEF Progress
<1>f. job'[c] = Idle => Progress(c)'
      BY <1>e, IdleIs DEF Acts
<1>g. ASSUME Keeps(job[c], job'[c]), job'[c].clean => job[c].clean,
             <<job[c].pc, job'[c].pc>> \in {<<"count", "append">>, <<"forward", "run">>,
                 <<"forward_report", "assess">>, <<"finding", "find">>, <<"assess", "collect">>},
             job'[c].pc \in {"find", "collect"} => job[c].tool # "run_command"
      PROVE  Progress(c)'
  <2>1. SUFFICES ASSUME job'[c].clean, Acts(job'[c])
                 PROVE  Progress(c)'
        BY <1>e
  <2>2. /\ job'[c].tool = job[c].tool /\ job'[c].kind = job[c].kind
        /\ job'[c].outcome = job[c].outcome /\ job'[c].id = job[c].id
        /\ job'[c].session = job[c].session /\ job[c].clean /\ Acts(job[c])
        BY <1>g, <2>1 DEF Keeps, Same, Acts
  <2>3. /\ Prescribed(job[c]) => Prescribed(job[c])'
        /\ Recorded(job[c]) => Recorded(job[c])'
        BY <1>c, <2>2
  <2>4. /\ job'[c].pc \in {"append", "run", "assess", "find", "collect"}
        /\ job'[c].pc # "append" => job[c].pc \notin {"count", "append"}
        /\ job'[c].pc \in {"assess", "collect"} => job[c].pc \in {"forward_report", "assess"}
        /\ job'[c].pc \in {"append", "run"} => job[c].pc \in {"count", "forward"}
        /\ job'[c].pc = "assess" => job[c].pc = "forward_report"
        BY <1>g
  <2> QED BY <1>b, <1>g, <2>1, <2>2, <2>3, <2>4 DEF Progress
<1>1. CASE Begins(c)
  <2>1. BeginsAt(c, job'[c])
        BY <1>1, BeginDoes
  <2> QED BY <1>f, <2>1 DEF BeginsAt, Progress, Acts
<1>2. CASE Goes(c)
  <2>p. PlaceOf(c, job[c]) /\ Requests \cap Shells = {} /\ (job[c].pc # "idle" => job[c] # Idle)
        BY IdleIs, RecordersAssumption DEF Place, PlaceOf
  <2>a. ASSUME NEW how, Return(c, how) PROVE Progress(c)'
        BY <1>f, <2>a, Returned DEF Types
  <2>b. AfterPrescription(c) = IF job[c].tool = "prescribe" THEN "answer"
                               ELSE IF job[c].tool = "run_command" THEN "run" ELSE "find"
        BY DEF AfterPrescription
  <2>c. ASSUME job'[c].tool = job[c].tool, job[c].tool \notin {"record", "run_command"}
        PROVE  Progress(c)'
        BY <1>e, <2>c DEF Acts
  <2>1. CASE CountRetry(c)
    <3>1. Work(c, On(c, "ok", "append")) /\ job[c].pc = "count"
          BY <2>1 DEF CountRetry
    <3> QED BY <1>g, <3>1, OnDoes
  <2>2. CASE c \in Requests /\ Forward(c)
    <3>1. CASE job[c].pc = "forward"
      <4>1. Work(c, On(c, "ok", AfterPrescription(c)))
            BY <2>2, <3>1 DEF Forward
      <4>2. job[c].tool \in {"prescribe", "run_command"}
            BY <2>2, <2>p, <3>1 DEF PlaceOf, PlaceOfRequest
      <4>3. CASE job[c].tool = "run_command"
        <5>1. Work(c, On(c, "ok", "run"))
              BY <2>b, <4>1, <4>3
        <5> QED BY <1>g, <3>1, <5>1, OnDoes
      <4>4. CASE job[c].tool = "prescribe"
        <5>1. Work(c, On(c, "ok", "answer"))
              BY <2>b, <4>1, <4>4
        <5> QED BY <2>c, <4>4, <5>1, OnDoes DEF Keeps, Same
      <4> QED BY <4>2, <4>3, <4>4
    <3>2. CASE job[c].pc = "forward_report"
      <4>1. Work(c, On(c, "ok", "assess"))
            BY <2>2, <3>2 DEF Forward
      <4> QED BY <1>g, <3>2, <4>1, OnDoes
    <3> QED BY <2>2, <3>1, <3>2 DEF Forward
  <2>3. CASE c \in Shells /\ AppendFinding(c)
    <3>1. job[c].pc = "finding" /\ Work(c, On(c, "ok", AfterPrescription(c)))
          BY <2>3 DEF AppendFinding
    <3>2. job[c].tool \in {"prescribe", "record"}
          BY <2>3, <2>p, <3>1 DEF PlaceOf, PlaceOfShell
    <3>3. CASE job[c].tool = "record"
      <4>1. Work(c, On(c, "ok", "find"))
            BY <2>b, <3>1, <3>3
      <4> QED BY <1>g, <3>1, <3>3, <4>1, OnDoes
    <3>4. CASE job[c].tool = "prescribe"
      <4>1. Work(c, On(c, "ok", "answer"))
            BY <2>b, <3>1, <3>4
      <4> QED BY <2>c, <3>4, <4>1, OnDoes DEF Keeps, Same
    <3> QED BY <3>2, <3>3, <3>4
  <2>4. CASE c \in Requests /\ Run(c)
    <3>1. /\ job[c].pc = "run" /\ job'[c].tool = job[c].tool /\ job'[c].kind = job[c].kind
          /\ job'[c].clean = job[c].clean /\ job'[c].id = job[c].id
          /\ job'[c].session = job[c].session
          /\ job'[c].pc = IF job[c].id # 0 /\ job'[c].outcome.exit # "none"
                          THEN "find" ELSE "answer"
          /\ job'[c].outcome.verdict = AutoVerdict(job'[c].outcome.exit)
          /\ ~job'[c].outcome.why
          BY <2>4, RunDoes
    <3>2. job[c].tool = "run_command"
          BY <2>4, <2>p, <3>1 DEF PlaceOf, PlaceOfRequest
    <3>3. SUFFICES ASSUME job'[c].clean, Acts(job'[c]) PROVE Progress(c)'
          BY <1>e
    <3>4. Prescribed(job[c]) /\ job[c].session = NoSession
          BY <1>b, <3>1, <3>2, <3>3 DEF Progress, Acts
    <3>5. Prescribed(job[c])' /\ job[c].id # 0
      <4>1. Prescribed(job[c])'
            BY <1>c, <3>1, <3>4
      <4>2. PICK k \in 1..Len(log) : log[k].id = job[c].id
            BY <3>4 DEF Prescribed
      <4>3. log[k].id \in 1..fresh /\ fresh \in Nat
            BY <4>2 DEF Drawn, Ordered, Types, TypeOK
      <4> QED BY <4>1, <4>2, <4>3
    <3>6. /\ job'[c].tool = "run_command" /\ job'[c].session = NoSession
          /\ job'[c].pc = "answer" => job'[c].outcome.exit = "none"
          /\ job'[c].pc = "find" => job'[c].outcome.exit # "none"
          /\ job'[c].pc \in {"find", "answer"}
          BY <3>1, <3>2, <3>4, <3>5
    <3> QED BY <3>1, <3>5, <3>6 DEF Progress
  <2>5. CASE c \in Shells /\ Collect(c)
    <3>1. /\ job[c].pc = "collect" /\ job'[c].tool = job[c].tool /\ job'[c].kind = job[c].kind
          /\ job'[c].clean = job[c].clean /\ job'[c].id = job[c].id /\ job'[c].pc = "send"
          /\ job'[c].session = job[c].session /\ job'[c].outcome = job[c].outcome
          BY <2>5, CollectDoes
    <3>2. job[c].tool # "run_command"
          BY <2>5, <2>p, <3>1 DEF PlaceOf, PlaceOfShell
    <3>3. SUFFICES ASSUME job'[c].clean, Acts(job'[c]) PROVE Progress(c)'
          BY <1>e
    <3>4. /\ Prescribed(job[c]) /\ Recorded(job[c]) /\ ValidDecision(job[c].outcome)
          /\ job[c].outcome.exit # "none"
          BY <1>b, <3>1, <3>3 DEF Progress, Acts
    <3>5. Prescribed(job[c])' /\ Recorded(job[c])'
          BY <1>c, <3>1, <3>4
    <3> QED BY <3>1, <3>2, <3>4, <3>5 DEF Progress
  <2>6. CASE Find(c)
    <3>1. /\ job[c].pc = "find" /\ ValidDecision(job[c].outcome) /\ Same(job[c], job'[c])
          /\ job'[c].id = job[c].id /\ job'[c].clean = job[c].clean
          /\ job'[c].pc = "append_report"
          /\ \E k \in 1..Len(log) : log[k].id = job'[c].id /\ log[k].session = job'[c].session
          BY <2>6, FindDoes
    <3>2. SUFFICES ASSUME job'[c].clean, Acts(job'[c]) PROVE Progress(c)'
          BY <1>e
    <3>3. job'[c].outcome = job[c].outcome /\ job'[c].tool = job[c].tool /\ Acts(job[c])
          BY <3>1, <3>2 DEF Same, Acts
    <3>4. /\ Prescribed(job[c]) /\ job[c].outcome.exit # "none"
          /\ job[c].tool = "run_command" =>
                job[c].outcome.verdict = AutoVerdict(job[c].outcome.exit) /\ ~job[c].outcome.why
          BY <1>b, <3>1, <3>2, <3>3 DEF Progress, Acts
    <3>5. Prescribed(job[c])'
      <4>1. PICK k \in 1..Len(log) : log[k].id = job'[c].id /\ log[k].session = job'[c].session
            BY <3>1
      <4>2. PICK m \in 1..Len(log) : log[m].type = "prescribe" /\ log[m].id = job[c].id
            BY <3>4 DEF Prescribed
      <4>3. m = k
            BY <3>1, <4>1, <4>2, Unique
      <4> QED BY <1>a, <4>1, <4>2, <4>3 DEF Prescribed
    <3> QED BY <3>1, <3>3, <3>4, <3>5 DEF Progress
  <2>7. CASE Refuse(c) \/ FindFails(c) \/ Unknown(c) \/ Send(c) \/ KillShell(c)
        BY <1>f, <2>7, EndDoes
  <2>8. CASE Answer(c)
    <3>1. \/ Return(c, "ok")
          \/ job[c].tool = "prescribe" /\ Work(c, On(c, "ok", "collect"))
          BY <2>8 DEF Answer
    <3> QED BY <2>a, <2>c, <3>1, OnDoes DEF Keeps, Same
  <2>9. CASE Assess(c)
    <3>1. \/ Return(c, "ok")
          \/ /\ job[c].pc = "assess" /\ job[c].tool # "run_command"
             /\ Work(c, On(c, "ok", "collect"))
          BY <2>9 DEF Assess
    <3> QED BY <1>g, <2>a, <3>1, OnDoes
  <2>10. CASE AppendPrescription(c)
    <3>1. PICK how \in Results, e \in Entry :
              /\ Adds(e, how) /\ e.type = "prescribe"
              /\ job[c].session # NoSession => e.session = job[c].session
              /\ \/ /\ Same(job[c], job'[c]) /\ job'[c].id = e.id
                    /\ job'[c].pc = Goals(c, how)
                    /\ job'[c].clean = (job[c].clean /\ how = "ok")
                    /\ job'[c].session = IF job[c].tool = "prescribe" THEN e.session
                                         ELSE job[c].session
                 \/ ~Accepted(how) /\ Work(c, On(c, how, "run"))
                 \/ Return(c, how)
          BY <2>10, PrescriptionDoes
    <3>2. job[c].pc = "append"
          BY <2>10 DEF AppendPrescription
    <3>3. CASE /\ Same(job[c], job'[c]) /\ job'[c].id = e.id
               /\ job'[c].pc = Goals(c, how)
               /\ job'[c].clean = (job[c].clean /\ how = "ok")
               /\ job'[c].session = IF job[c].tool = "prescribe" THEN e.session
                                    ELSE job[c].session
      <4>1. SUFFICES ASSUME job'[c].clean, Acts(job'[c]) PROVE Progress(c)'
            BY <1>e
      <4>2. /\ how = "ok" /\ job[c].clean /\ job'[c].tool = job[c].tool
            /\ job'[c].kind = job[c].kind /\ job'[c].outcome = job[c].outcome
            /\ job[c].tool \in {"record", "run_command"} /\ Acts(job[c])
            BY <3>3, <4>1 DEF Same, Acts
      <4>3. /\ Len(log') = Len(log) + 1 /\ log'[Len(log) + 1] = e
            BY <3>1, <4>2 DEF Adds, Written, Types, TypeOK
      <4>4. job'[c].session = job[c].session
            BY <3>3, <4>2
      <4>5. Prescribed(job[c])'
            BY <1>a, <3>1, <3>3, <4>3, <4>4 DEF Prescribed
      <4>6. CASE job[c].tool = "record"
        <5>1. c \notin Requests
              BY <2>p, <4>6, IdleIs DEF PlaceOf, PlaceOfRequest
        <5>2. job'[c].pc \in {"finding", "find"}
              BY <2>b, <3>3, <4>6, <5>1 DEF Goals
        <5>3. ValidDecision(job'[c].outcome) /\ job'[c].outcome.exit # "none"
              BY <1>b, <4>2, <4>6 DEF Progress
        <5> QED BY <4>2, <4>5, <4>6, <5>2, <5>3 DEF Progress
      <4>7. CASE job[c].tool = "run_command"
        <5>1. job'[c].pc \in {"forward", "run"}
              BY <2>b, <2>p, <3>3, <4>2, <4>7, IdleIs
                 DEF Goals, Persisted, PlaceOf, PlaceOfShell, Callers
        <5>2. job'[c].session = NoSession
              BY <1>b, <3>2, <4>2, <4>4, <4>7 DEF Progress
        <5> QED BY <4>2, <4>5, <4>7, <5>1, <5>2 DEF Progress
      <4> QED BY <4>2, <4>6, <4>7
    <3>4. CASE ~Accepted(how) /\ Work(c, On(c, how, "run"))
          BY <1>e, <3>4, OnDoes DEF Accepted
    <3> QED BY <2>a, <3>1, <3>3, <3>4
  <2>11. CASE AppendReport(c)
    <3>1. PICK how \in Results, e \in Entry :
              /\ Adds(e, how) /\ e.type = "report" /\ e.ref = job[c].id
              /\ e.exit = job[c].outcome.exit
              /\ \/ /\ Same(job[c], job'[c]) /\ job'[c].id = job[c].id
                    /\ job'[c].session = job[c].session
                    /\ job'[c].clean = (job[c].clean /\ how = "ok")
                    /\ job'[c].pc \in {"forward_report", "assess"}
                 \/ Return(c, how)
          BY <2>11, ReportDoes
    <3>2. job[c].pc = "append_report"
          BY <2>11 DEF AppendReport
    <3>3. CASE /\ Same(job[c], job'[c]) /\ job'[c].id = job[c].id
               /\ job'[c].session = job[c].session
               /\ job'[c].clean = (job[c].clean /\ how = "ok")
               /\ job'[c].pc \in {"forward_report", "assess"}
      <4>1. SUFFICES ASSUME job'[c].clean, Acts(job'[c]) PROVE Progress(c)'
            BY <1>e
      <4>2. /\ how = "ok" /\ job[c].clean /\ job'[c].tool = job[c].tool
            /\ job'[c].outcome = job[c].outcome /\ Acts(job[c])
            BY <3>3, <4>1 DEF Same, Acts
      <4>3. /\ Len(log') = Len(log) + 1 /\ log'[Len(log) + 1] = e
            BY <3>1, <4>2 DEF Adds, Written, Types, TypeOK
      <4>4. Recorded(job[c])'
            BY <1>a, <3>1, <3>3, <4>2, <4>3 DEF Recorded
      <4>5. /\ Prescribed(job[c]) /\ ValidDecision(job[c].outcome)
            /\ job[c].outcome.exit # "none"
            /\ job[c].tool = "run_command" =>
                 job[c].outcome.verdict = AutoVerdict(job[c].outcome.exit) /\ ~job[c].outcome.why
            BY <1>b, <3>2, <4>2 DEF Progress
      <4>6. Prescribed(job[c])'
            BY <1>c, <3>3, <4>5
      <4> QED BY <3>3, <4>2, <4>4, <4>5, <4>6 DEF Progress
    <3> QED BY <2>a, <3>1, <3>3
  <2> QED BY <1>2, <2>1, <2>2, <2>3, <2>4, <2>5, <2>6, <2>7, <2>8, <2>9, <2>10, <2>11 DEF Goes
<1>3. CASE ~Begins(c) /\ ~Goes(c)
  <2>1. job'[c] \in {job[c], Idle}
        BY <1>3, NextCases, OwnStep, ServerDoes
  <2> QED BY <1>d, <1>f, <2>1
<1> QED BY <1>1, <1>2, <1>3

\* What a step adds to the history of commands.
LEMMA RanSteps ==
    ASSUME Types, Next, NEW r \in ran', r \notin ran
    PROVE  \E c \in Callers, how \in Results :
              /\ Goes(c) /\ Return(c, how) /\ r = Result(c, how)
              /\ job[c].tool \in {"run_command", "record"} /\ job[c].kind # "read"
              /\ job[c].outcome.exit # "none"
<1>a. ASSUME NEW c \in Callers, NEW how, Goes(c), Return(c, how)
      PROVE  /\ r = Result(c, how)
             /\ job[c].tool \in {"run_command", "record"} /\ job[c].kind # "read"
             /\ job[c].outcome.exit # "none"
      BY <1>a, Returned DEF Types
<1>1. CASE Cleanup \/ Tick \/ StopServer
      BY <1>1, ServerDoes
<1>2. ASSUME NEW c \in Callers, Begins(c) PROVE FALSE
      BY <1>2, BeginDoes DEF history
<1>3. ASSUME NEW c \in Callers, Goes(c) PROVE \E how \in Results : Return(c, how)
  <2>1. CASE AppendPrescription(c) \/ AppendReport(c)
        BY <2>1, PrescriptionDoes, ReportDoes
  <2>2. CASE CountRetry(c) \/ Forward(c) \/ AppendFinding(c) \/ Run(c) \/ Collect(c)
             \/ Find(c) \/ KillShell(c)
        BY <2>2 DEF CountRetry, Forward, AppendFinding, Run, Collect, Find, KillShell, history
  <2>3. CASE Refuse(c) \/ FindFails(c) \/ Unknown(c) \/ Send(c) \/ Answer(c) \/ Assess(c)
        BY <2>3 DEF Refuse, FindFails, Unknown, Send, Answer, Assess, Results
  <2> QED BY <1>3, <2>1, <2>2, <2>3 DEF Goes
<1> QED BY <1>a, <1>1, <1>2, <1>3, NextCases

LEMMA RunCommandSteps ==
    ASSUME Types, Place, Drawn, Next, NEW c \in Callers,
           job'[c].tool = "run_command", job'[c].id # 0
    PROVE  /\ job[c].tool = "run_command" /\ job'[c].id \in {job[c].id, fresh + 1}
           /\ job'[c].pc \in Early =>
                 /\ ~AppendReport(c)
                 /\ job'[c].id = job[c].id => job[c].pc \in Early
<1>a. job'[c] # Idle
      BY IdleIs
<1>1. CASE Begins(c)
      BY <1>a, <1>1, BeginDoes DEF BeginsAt
<1>2. CASE Goes(c)
  <2>a. \A how : ~Return(c, how)
        BY <1>a, Returned DEF Types
  <2>b. AfterPrescription(c) \in {"answer", "run", "find"}
        BY DEF AfterPrescription
  <2>1. CASE CountRetry(c) \/ Forward(c) \/ AppendFinding(c)
    <3>1. PICK pc \in {"append", "answer", "run", "find", "assess"} :
              /\ Work(c, On(c, "ok", pc))
              /\ job[c].pc \in Early \cup {"finding"} \/ pc = "assess"
          BY <2>1, <2>b DEF CountRetry, Forward, AppendFinding, Early
    <3>2. Keeps(job[c], job'[c]) /\ job'[c].pc = pc
          BY <3>1, OnDoes
    <3>3. job[c].tool = "run_command" /\ job'[c].id = job[c].id
          BY <3>2 DEF Keeps, Same
    <3>4. job[c].pc # "finding"
          BY <3>3, IdleIs, RecordersAssumption
             DEF Place, PlaceOfRequest, PlaceOfShell, Callers
    <3>5. ~AppendReport(c)
          BY <2>1 DEF AppendReport, CountRetry, Forward, AppendFinding
    <3> QED BY <3>1, <3>2, <3>3, <3>4, <3>5 DEF Early
  <2>2. CASE Run(c) \/ Collect(c) \/ Find(c)
    <3>1. /\ job[c].pc \in {"run", "collect", "find"} /\ job'[c].tool = job[c].tool
          /\ job'[c].id = job[c].id /\ (job[c].pc = "collect" => job'[c].pc = "send")
          BY <2>2, RunDoes, CollectDoes, FindDoes DEF Same
    <3> QED BY <3>1 DEF Early, AppendReport
  <2>3. CASE Refuse(c) \/ FindFails(c) \/ Unknown(c) \/ Send(c) \/ KillShell(c)
        BY <1>a, <2>3, EndDoes
  <2>4. CASE Answer(c) \/ Assess(c)
    <3>1. Work(c, On(c, "ok", "collect")) /\ ~AppendReport(c)
          BY <2>a, <2>4 DEF Answer, Assess, AppendReport
    <3>2. Keeps(job[c], job'[c]) /\ job'[c].pc = "collect"
          BY <3>1, OnDoes
    <3> QED BY <3>2 DEF Keeps, Same, Early
  <2>5. CASE AppendPrescription(c)
    <3>1. \E how \in Results, e \in Entry :
              /\ e.id = fresh + 1
              /\ \/ Same(job[c], job'[c]) /\ job'[c].id = e.id
                 \/ Work(c, On(c, how, "run"))
          BY <2>a, <2>5, PrescriptionDoes DEF Adds
    <3>2. job[c].pc = "append" /\ ~AppendReport(c)
          BY <2>5 DEF AppendPrescription, AppendReport
    <3>3. job[c].tool = job'[c].tool /\ job'[c].id \in {job[c].id, fresh + 1}
          BY <3>1, OnDoes DEF Keeps, Same
    <3> QED BY <3>2, <3>3 DEF Early
  <2>6. CASE AppendReport(c)
    <3>1. /\ Same(job[c], job'[c]) /\ job'[c].id = job[c].id
          /\ job'[c].pc \in {"forward_report", "assess"}
          BY <2>a, <2>6, ReportDoes
    <3> QED BY <3>1 DEF Same, Early
  <2> QED BY <1>2, <2>1, <2>2, <2>3, <2>4, <2>5, <2>6 DEF Goes
<1>3. CASE ~Begins(c) /\ ~Goes(c)
  <2>1. job'[c] = job[c] /\ ~AppendReport(c)
        BY <1>a, <1>3, NextCases, OwnStep, ServerDoes DEF Goes
  <2> QED BY <2>1
<1> QED BY <1>1, <1>2, <1>3

LEMMA OwnStays ==
    ASSUME Types, Place, Drawn, Next, NEW x \in 1..fresh, Own(x),
           \A d \in Callers : job[d].id = x => job[d].tool = "run_command"
    PROVE  Own(x)' /\ \A d \in Callers : job[d].id # x => job'[d].id # x
<1>a. /\ fresh \in Nat /\ x \in Nat /\ x # 0 /\ x # fresh + 1 /\ x \notin told
      /\ \A d \in Callers : job[d].rid # x
      BY DEF Own, Types, TypeOK
<1>b. /\ \A d \in Callers : IdStep(d)
      /\ told' = told \/ \E d \in Callers : Telling(d)
      BY IdSteps
<1>1. ASSUME NEW d \in Callers, Telling(d) PROVE x \notin told'
      BY <1>a, <1>1 DEF Telling
<1>2. \A d \in Callers : job'[d].rid # x
      BY <1>a, <1>b DEF IdStep
<1>3. ASSUME NEW d \in Callers, job[d].id # x PROVE job'[d].id # x
      BY <1>a, <1>b, <1>3 DEF IdStep
<1> QED BY <1>a, <1>b, <1>1, <1>2, <1>3 DEF Own

LEMMA NoReportStays ==
    ASSUME Types, Next, NEW x, NoReport(x),
           \A d \in Callers : AppendReport(d) => job[d].id # x, x # 0
    PROVE  NoReport(x)'
<1>a. LogStep
      BY LogSteps
<1> SUFFICES ASSUME NEW k \in 1..Len(log'), log'[k].type = "report" PROVE log'[k].ref # x
    BY DEF NoReport
<1>1. CASE k \in 1..Len(log)
      BY <1>a, <1>1, Grown DEF NoReport
<1>2. CASE k \notin 1..Len(log)
  <2>1. k = Len(log) + 1 /\ Len(log') = Len(log) + 1
        BY <1>a, <1>2, Grown
  <2>2. Adding(log'[k])
        BY <1>a, <2>1, Grown
  <2> QED BY <2>2 DEF Adding
<1> QED BY <1>1, <1>2

LEMMA NextPrivate ==
    ASSUME Types, Place, Drawn, Private, Next
    PROVE  Private'
<1>a. fresh \in Nat /\ \A c \in Callers : IdStep(c)
      BY IdSteps DEF Types, TypeOK
<1>b. /\ \A c \in Callers : job[c].id \in 0..fresh /\ job[c].rid \in 0..fresh
      /\ told \subseteq 0..fresh /\ \A r \in ran : r.id \in 0..fresh
      BY DEF Drawn
<1>1. ASSUME NEW c \in Callers, NEW x, x = job'[c].id, job'[c].tool = "run_command", x # 0
      PROVE  /\ Own(x)' /\ \A d \in Callers \ {c} : job'[d].id # x
             /\ job'[c].pc \in Early => NoReport(x)'
  <2>a. /\ job[c].tool = "run_command" /\ x \in {job[c].id, fresh + 1}
        /\ job'[c].pc \in Early =>
              /\ ~AppendReport(c)
              /\ x = job[c].id => job[c].pc \in Early
        BY <1>1, RunCommandSteps
  <2>1. CASE x = job[c].id
    <3>1. /\ Own(x) /\ \A d \in Callers \ {c} : job[d].id # x
          /\ job[c].pc \in Early => NoReport(x)
          BY <1>1, <2>a, <2>1 DEF Private
    <3>2. x \in 1..fresh
          BY <1>a, <1>b, <1>1, <2>1
    <3>3. Own(x)' /\ \A d \in Callers \ {c} : job'[d].id # x
          BY <2>a, <2>1, <3>1, <3>2, OwnStays
    <3>4. ASSUME job'[c].pc \in Early PROVE NoReport(x)'
      <4>1. /\ NoReport(x) /\ \A d \in Callers : AppendReport(d) => job[d].id # x
            BY <2>a, <2>1, <3>1, <3>4
      <4> QED BY <1>1, <4>1, NoReportStays
    <3> QED BY <3>3, <3>4
  <2>2. CASE x = fresh + 1 /\ x # job[c].id
    <3>1. job'[c].rid = job[c].rid /\ job'[c].id # job[c].id
      <4>1. IdStep(c) /\ x \notin told /\ x # 0
            BY <1>a, <1>b, <2>2
      <4> QED BY <1>1, <2>2, <4>1 DEF IdStep
    <3>2. \A d \in Callers \ {c} : job'[d] = job[d]
      <4>1. job'[c] # job[c] /\ job'[c] # Idle
            BY <1>1, <3>1, IdleIs
      <4> QED BY <4>1, NextCases, OwnStep, ServerDoes
    <3>3. \A d \in Callers : job'[d].rid \in 0..fresh /\ (d # c => job'[d].id \in 0..fresh)
          BY <1>b, <3>1, <3>2
    <3>4. told' \subseteq 0..fresh
      <4>1. ASSUME NEW d \in Callers, Telling(d) PROVE told' \subseteq 0..fresh
        <5>1. told' \subseteq told \cup {job[d].id, job[d].rid}
              BY <4>1 DEF Telling
        <5> QED BY <1>b, <5>1
      <4> QED BY <1>b, <4>1, IdSteps
    <3>5. x \notin 0..fresh
          BY <1>a, <2>2
    <3>6. NoReport(x)'
      <4>1. NoReport(x)
            BY <3>5 DEF NoReport, Drawn
      <4>2. \A d \in Callers : job[d].id # x
            BY <1>b, <3>5
      <4> QED BY <1>1, <4>1, <4>2, NoReportStays
    <3> QED BY <3>3, <3>4, <3>5, <3>6 DEF Own
  <2> QED BY <2>a, <2>1, <2>2
<1>2. ASSUME NEW r \in ran', r.tool = "run_command", r.id # 0
      PROVE  Own(r.id)' /\ \A d \in Callers : job'[d].id # r.id
  <2>1. CASE r \in ran
    <3>1. Own(r.id) /\ \A d \in Callers : job[d].id # r.id
          BY <1>2, <2>1 DEF Private
    <3>2. r.id \in 1..fresh
          BY <1>a, <1>b, <1>2, <2>1
    <3> QED BY <3>1, <3>2, OwnStays
  <2>2. CASE r \notin ran
    <3>1. PICK c \in Callers, how \in Results : Return(c, how) /\ r = Result(c, how)
          BY <2>2, RanSteps
    <3>2. r.id = job[c].id /\ job[c].tool = "run_command"
          BY <1>2, <3>1 DEF Result
    <3>3. Own(r.id) /\ \A d \in Callers \ {c} : job[d].id # r.id
          BY <1>2, <3>2 DEF Private
    <3>4. r.id \in 1..fresh
          BY <1>a, <1>b, <1>2, <3>2
    <3>5. Own(r.id)' /\ \A d \in Callers \ {c} : job'[d].id # r.id
          BY <3>2, <3>3, <3>4, OwnStays
    <3>6. job'[c].id = 0
          BY <3>1, Returned, IdleIs DEF Types
    <3> QED BY <1>2, <3>5, <3>6
  <2> QED BY <2>1, <2>2
<1> QED BY <1>1, <1>2 DEF Private

LEMMA NextMutations ==
    ASSUME Types, Place, Drawn, Progresses, Private, MutationsRecorded, Next
    PROVE  MutationsRecorded'
<1>a. /\ LogStep /\ \A k \in 1..Len(log) : k \in 1..Len(log') /\ log'[k] = log[k]
      BY LogSteps, Grown
<1>b. fresh \in Nat /\ \A k \in 1..Len(log) : log[k].id \in 1..fresh
      BY DEF Types, TypeOK, Drawn, Ordered
<1> DEFINE Stands(r) ==
               /\ \E k \in 1..Len(log) : log[k].type = "prescribe" /\ log[k].id = r.id
               /\ IF r.tool = "run_command" /\ r.exit = "negative" THEN NoReport(r.id)
                  ELSE \E k \in 1..Len(log) : /\ log[k].type = "report" /\ log[k].ref = r.id
                                              /\ log[k].exit = r.exit
<1>c. /\ MutationsRecorded <=> \A r \in ran : r.clean => Stands(r)
      /\ MutationsRecorded' <=> \A r \in ran' : r.clean => Stands(r)'
      BY DEF MutationsRecorded, NoReport
<1> SUFFICES ASSUME NEW r \in ran', r.clean PROVE Stands(r)'
    BY <1>c
<1>1. CASE r \in ran
  <2>1. Stands(r)
        BY <1>c, <1>1
  <2>2. r.id # 0
        BY <1>b, <2>1
  <2>3. ASSUME r.tool = "run_command", NoReport(r.id) PROVE NoReport(r.id)'
    <3>1. \A d \in Callers : job[d].id # r.id
          BY <1>1, <2>2, <2>3 DEF Private
    <3> QED BY <2>2, <2>3, <3>1, NoReportStays
  <2> QED BY <1>a, <2>1, <2>3
<1>2. CASE r \notin ran
  <2>1. PICK c \in Callers, how \in Results :
            /\ Goes(c) /\ Return(c, how) /\ r = Result(c, how)
            /\ job[c].tool \in {"run_command", "record"} /\ job[c].kind # "read"
            /\ job[c].outcome.exit # "none"
        BY <1>2, RanSteps
  <2>2. /\ r.id = job[c].id /\ r.tool = job[c].tool /\ r.exit = job[c].outcome.exit
        /\ job[c].clean /\ Acts(job[c]) /\ Progress(c)
        BY <2>1 DEF Result, Acts, Progresses
  <2>3. ASSUME NEW w, Return(c, w) PROVE w = "ok"
    <3>1. r = Result(c, w)
          BY <1>2, <2>3, Returned DEF Types
    <3> QED BY <3>1 DEF Result
  <2>4. Prescribed(job[c]) =>
            /\ \E k \in 1..Len(log) : log[k].type = "prescribe" /\ log[k].id = r.id
            /\ GetEvent(job[c].id)
        BY <2>2 DEF Prescribed, GetEvent, Ids
  <2>5. PlaceOf(c, job[c]) /\ Requests \cap Shells = {} /\ (job[c].pc # "idle" => job[c] # Idle)
        BY IdleIs, RecordersAssumption DEF Place, PlaceOf
  <2>6. CASE CountRetry(c) \/ Forward(c) \/ AppendFinding(c) \/ Run(c) \/ Collect(c)
             \/ Find(c) \/ KillShell(c)
        BY <1>2, <2>6 DEF CountRetry, Forward, AppendFinding, Run, Collect, Find, KillShell,
                          history
  <2>7. CASE AppendPrescription(c) \/ AppendReport(c)
    <3>1. ran' = ran \/ \E w : ~Accepted(w) /\ Return(c, w)
          BY <2>7, PrescriptionDoes, ReportDoes, OnDoes
    <3> QED BY <1>2, <2>3, <3>1 DEF Accepted
  <2>8. CASE FindFails(c)
        BY <2>3, <2>8 DEF FindFails
  <2>9. CASE Unknown(c)
        BY <2>2, <2>4, <2>9 DEF Unknown, Progress
  <2>10. CASE Refuse(c)
    <3>1. job[c].pc = "find" /\ log' = log /\ Prescribed(job[c])
          BY <2>2, <2>10 DEF Refuse, Progress
    <3>2. CASE job[c].tool = "record"
      <4>1. ValidDecision(job[c].outcome)
            BY <2>2, <3>2 DEF Progress
      <4>2. PICK k \in 1..Len(log) : log[k].id = job[c].id /\ ~SameSession(c, log[k])
            BY <2>10, <4>1 DEF Refuse
      <4>3. PICK m \in 1..Len(log) :
                log[m].id = job[c].id /\ job[c].session \in {NoSession, log[m].session}
            BY <3>1 DEF Prescribed
      <4>4. m = k
            BY <4>2, <4>3, Unique
      <4> QED BY <4>2, <4>3, <4>4 DEF SameSession
    <3>3. CASE job[c].tool = "run_command"
      <4>1. /\ job[c].session = NoSession /\ ~job[c].outcome.why
            /\ job[c].outcome.verdict = AutoVerdict(job[c].outcome.exit)
            BY <2>2, <3>1, <3>3 DEF Progress
      <4>2. ~ValidDecision(job[c].outcome)
            BY <2>10, <4>1 DEF Refuse, SameSession
      <4>3. job[c].outcome.exit \in Exits
            BY DEF Types, TypeOK, Job, Outcome
      <4>4. job[c].outcome.exit = "negative"
            BY <2>1, <4>1, <4>2, <4>3
               DEF ValidDecision, AutoVerdict, VerdictFromExitCode, Exits
      <4>5. job[c].id # 0
            BY <1>b, <3>1 DEF Prescribed
      <4>6. NoReport(r.id)
            BY <2>2, <3>1, <3>3, <4>5 DEF Private, Early
      <4>7. NoReport(r.id)'
            BY <3>1, <4>6 DEF NoReport
      <4> QED BY <2>2, <2>4, <3>1, <3>3, <4>4, <4>7
    <3> QED BY <2>1, <3>2, <3>3
  <2>11. CASE Answer(c)
        BY <2>1, <2>2, <2>11 DEF Answer, Progress
  <2>12. CASE Assess(c) \/ (c \in Shells /\ Send(c))
    <3>1. log' = log /\ job[c].pc \in {"assess", "send"}
          BY <2>12 DEF Assess, Send
    <3>2. /\ Prescribed(job[c]) /\ Recorded(job[c]) /\ ValidDecision(job[c].outcome)
          BY <2>2, <3>1 DEF Progress
    <3>3. ~(r.tool = "run_command" /\ r.exit = "negative")
      <4>1. SUFFICES ASSUME job[c].tool = "run_command", job[c].outcome.exit = "negative"
                     PROVE  FALSE
            BY <2>2
      <4>2. job[c].pc = "assess"
            BY <2>5, <2>12, <3>1, <4>1 DEF PlaceOf, PlaceOfShell, Assess
      <4>3. job[c].outcome.verdict = "failure"
            BY <2>2, <4>1, <4>2 DEF Progress, AutoVerdict
      <4> QED BY <3>2, <4>1, <4>3 DEF ValidDecision, VerdictFromExitCode
    <3> QED BY <2>2, <2>4, <3>1, <3>2, <3>3 DEF Recorded
  <2> QED BY <2>1, <2>6, <2>7, <2>8, <2>9, <2>10, <2>11, <2>12 DEF Goes
<1> QED BY <1>1, <1>2

-----------------------------------------------------------------------------
(* What is sent                                                             *)

\* Steps of a run without faults.
LEMMA Unfailing ==
    ASSUME Types, NEW c \in Callers, Begins(c) \/ Goes(c), faults' = 0
    PROVE  /\ faults = 0 /\ hosted \subseteq hosted'
           /\ job[c].clean => job'[c].clean
<1>a. faults \in 0..MaxFaults /\ MaxFaults \in Nat
      BY RecordersAssumption DEF Types, TypeOK
<1>b. ASSUME NEW how, Return(c, how) PROVE job'[c].clean
      BY <1>b, Returned, IdleIs DEF Types
<1>c. ASSUME NEW pc \in {"append", "run", "answer", "find", "assess", "collect"},
             Work(c, On(c, "ok", pc))
      PROVE  job'[c].clean = job[c].clean
      BY <1>c, OnDoes DEF Types, TypeOK, Job
<1>d. AfterPrescription(c) \in {"answer", "run", "find"}
      BY DEF AfterPrescription
<1>1. CASE Begins(c)
      BY <1>1, BeginDoes DEF Fresh
<1>2. CASE CountRetry(c) \/ AppendFinding(c) \/ Forward(c)
  <2>1. job'[c].clean = job[c].clean
        BY <1>2, <1>c, <1>d DEF CountRetry, AppendFinding, Forward
  <2>2. hosted \subseteq hosted' /\ (faults' = faults \/ faults' = faults + 1
                                  \/ \E how : Fault(how))
        BY <1>2 DEF CountRetry, AppendFinding, Forward
  <2> QED BY <1>a, <2>1, <2>2, Faulted
<1>3. CASE Run(c) \/ Collect(c) \/ Find(c)
      BY <1>3, RunDoes, CollectDoes, FindDoes DEF Quiet
<1>4. CASE Refuse(c) \/ FindFails(c) \/ Unknown(c) \/ Send(c) \/ KillShell(c)
  <2>1. job'[c].clean
        BY <1>4, EndDoes, IdleIs
  <2>2. hosted \subseteq hosted' /\ (faults' = faults \/ faults' = faults + 1
                                  \/ \E how : Fault(how))
        BY <1>4 DEF Refuse, FindFails, Unknown, Send, KillShell, Saved
  <2> QED BY <1>a, <2>1, <2>2, Faulted
<1>5. CASE Answer(c) \/ Assess(c)
  <2>1. Return(c, "ok") \/ Work(c, On(c, "ok", "collect"))
        BY <1>5 DEF Answer, Assess
  <2>2. hosted' = hosted /\ (faults' = faults \/ faults' = faults + 1)
        BY <1>5 DEF Answer, Assess
  <2> QED BY <1>a, <1>b, <1>c, <2>1, <2>2
<1>6. CASE AppendPrescription(c)
  <2>1. PICK how \in Results, e \in Entry :
            /\ Adds(e, how)
            /\ \/ job'[c].clean = (job[c].clean /\ how = "ok")
               \/ Work(c, On(c, how, "run"))
               \/ Return(c, how)
        BY <1>6, PrescriptionDoes
  <2>2. how = "ok" /\ faults = 0
        BY <1>a, <2>1, Faulted DEF Adds
  <2> QED BY <1>6, <1>b, <1>c, <2>1, <2>2, PrescriptionDoes
<1>7. CASE AppendReport(c)
  <2>1. PICK how \in Results, e \in Entry :
            /\ Adds(e, how)
            /\ \/ job'[c].clean = (job[c].clean /\ how = "ok")
               \/ Return(c, how)
        BY <1>7, ReportDoes
  <2>2. how = "ok" /\ faults = 0
        BY <1>a, <2>1, Faulted DEF Adds
  <2> QED BY <1>7, <1>b, <2>1, <2>2, ReportDoes
<1> QED BY <1>1, <1>2, <1>3, <1>4, <1>5, <1>6, <1>7 DEF Goes

LEMMA StillSent ==
    ASSUME Types, Place, Drawn, Stored, Progresses, NEW c \in Shells, Goes(c), faults' = 0,
           job[c].clean, NEW k \in 1..Len(log), NEW e, e = log[k], Sends(job[c], e)
    PROVE  Sends(job[c], e)' \/ e.id \in hosted'
<1>a. /\ c \in Callers /\ c \notin Requests /\ PlaceOf(c, job[c])
      /\ job[c].pc # "idle" => job[c] # Idle
      BY RecordersAssumption, IdleIs DEF Callers, Place, PlaceOf
<1>b. /\ faults \in 0..MaxFaults /\ MaxFaults \in Nat /\ faults + 1 # 0
      BY RecordersAssumption DEF Types, TypeOK
<1>c. AfterPrescription(c) = IF job[c].tool = "prescribe" THEN "answer"
                             ELSE IF job[c].tool = "run_command" THEN "run" ELSE "find"
      BY DEF AfterPrescription
<1>1. CASE AppendFinding(c)
  <2>1. job[c].pc = "finding" /\ Work(c, On(c, "ok", AfterPrescription(c)))
        BY <1>1 DEF AppendFinding
  <2>2. job[c].tool \in {"prescribe", "record"}
        BY <1>a, <2>1 DEF PlaceOf, PlaceOfShell
  <2>3. Keeps(job[c], job'[c]) /\ job'[c].pc = AfterPrescription(c)
        BY <1>a, <1>c, <2>1, <2>2, OnDoes
  <2> QED BY <1>c, <2>1, <2>2, <2>3 DEF Sends, Keeps, Same
<1>2. CASE Collect(c)
  <2>1. job[c].pc = "collect" /\ job'[c].pc = "send"
        /\ job'[c].batch = {log[m].id : m \in {m \in 1..Len(log) : log[m].session = job[c].session}}
        BY <1>a, <1>2, CollectDoes
  <2>2. e.session = job[c].session
        BY <2>1 DEF Sends
  <2> QED BY <2>1, <2>2 DEF Sends
<1>3. CASE Send(c)
      BY <1>3, <1>b DEF Send, Sends, Saved
<1>4. CASE Answer(c)
  <2>1. /\ job[c].pc = "answer" /\ job[c].tool = "prescribe"
        BY <1>4, <1>a DEF Answer, PlaceOf, PlaceOfShell
  <2>2. Work(c, On(c, "ok", "collect"))
        BY <1>4, <1>a, <2>1 DEF Answer
  <2>3. Keeps(job[c], job'[c]) /\ job'[c].pc = "collect"
        BY <1>a, <2>2, OnDoes
  <2> QED BY <2>1, <2>3 DEF Sends, Keeps
<1>5. CASE Assess(c)
  <2>1. /\ job[c].pc = "assess" /\ job[c].tool \in {"record", "report"}
        BY <1>5, <1>a DEF Assess, PlaceOf, PlaceOfShell
  <2>2. Work(c, On(c, "ok", "collect"))
        BY <1>5, <1>a, <1>b, <2>1 DEF Assess
  <2>3. Keeps(job[c], job'[c]) /\ job'[c].pc = "collect"
        BY <1>a, <2>2, OnDoes
  <2> QED BY <2>1, <2>3 DEF Sends, Keeps
<1>6. CASE AppendReport(c)
  <2>1. PICK how \in Results, a \in Entry :
            /\ Adds(a, how)
            /\ \/ /\ job'[c].session = job[c].session
                  /\ job'[c].pc = IF Persisted(how) /\ c \in Requests
                                  THEN "forward_report" ELSE "assess"
               \/ ~Accepted(how)
        BY <1>6, <1>a, ReportDoes
  <2>2. how = "ok"
        BY <1>b, <2>1, Faulted DEF Adds
  <2>3. job[c].pc = "append_report"
        BY <1>6 DEF AppendReport
  <2> QED BY <1>a, <2>1, <2>2, <2>3 DEF Sends, Accepted
<1>7. CASE AppendPrescription(c)
      BY <1>7 DEF AppendPrescription, Sends
<1>8. CASE KillShell(c) \/ FindFails(c)
  <2>1. faults' # 0
        BY <1>8, <1>b DEF KillShell, FindFails, Fault
  <2> QED BY <2>1
<1>9. CASE Find(c) \/ Refuse(c) \/ Unknown(c)
  <2>1. job[c].pc = "find"
        BY <1>9 DEF Find, Refuse, Unknown
  <2>2. job[c].tool = "record" /\ job[c].id = e.id
        BY <2>1 DEF Sends
  <2>3. Prescribed(job[c]) /\ ValidDecision(job[c].outcome)
        BY <1>a, <2>1, <2>2 DEF Progresses, Progress, Acts
  <2>4. \A m \in 1..Len(log) : log[m].id = job[c].id => m = k
        BY <2>2, Unique
  <2>5. SameSession(c, e)
        BY <2>3, <2>4 DEF Prescribed, SameSession
  <2>6. ~Refuse(c)
        BY <2>3, <2>4, <2>5 DEF Refuse
  <2>7. ~Unknown(c)
        BY <2>2 DEF Unknown, GetEvent, Ids
  <2>8. PICK m \in 1..Len(log) :
            /\ log[m].id = job'[c].id /\ log[m].session = job'[c].session
            /\ job'[c].id = job[c].id /\ job'[c].pc = "append_report"
        BY <1>9, <1>a, <2>6, <2>7, FindDoes
  <2> QED BY <2>4, <2>8 DEF Sends
<1> QED BY <1>a, <1>1, <1>2, <1>3, <1>4, <1>5, <1>6, <1>7, <1>8, <1>9 DEF Goes

\* The server sends what a request is about to send.
LEMMA Delivered ==
    ASSUME Types, NEW c \in Requests, Begins(c) \/ Goes(c), faults' = 0, NEW id,
           \/ job[c].pc = "forward" /\ id = job[c].id
           \/ job[c].pc = "forward_report" /\ id = job[c].rid
    PROVE  id \in hosted'
<1>1. c \in Callers /\ c \notin Shells
      BY RecordersAssumption DEF Callers
<1>2. ~Begins(c)
      BY <1>1, BeginDoes
<1>3. Forward(c)
      BY <1>1, <1>2 DEF Goes, CountRetry, Run, AppendPrescription, Answer, Refuse, FindFails,
                        Unknown, Find, AppendReport, Assess
<1>4. faults + 1 # 0
      BY RecordersAssumption DEF Types, TypeOK
<1> QED BY <1>3, <1>4 DEF Forward

\* Who stores a prescription or a report is about to send it.
LEMMA NewAwaited ==
    ASSUME Types, Place, Stored, NEW c \in Callers, Begins(c) \/ Goes(c), faults' = 0,
           NEW e, log' = Append(log, e), e.type \in {"prescribe", "report"}
    PROVE  Awaited(e)'
<1>a. log \in Seq(Entry) /\ log' # log /\ log'[Len(log) + 1] = e
  <2>1. log \in Seq(Entry)
        BY DEF Types, TypeOK
  <2>2. Len(Append(log, e)) = Len(log) + 1
        BY <2>1
  <2> QED BY <2>1, <2>2
<1>b. ASSUME NEW x \in Entry, log' = Append(log, x) PROVE x = e
  <2>1. log'[Len(log) + 1] = x
        BY <1>a, <1>b
  <2> QED BY <1>a, <2>1
<1>c. PlaceOf(c, job[c]) /\ (job[c].pc # "idle" => job[c] # Idle)
      BY RecordersAssumption, IdleIs DEF Place, PlaceOf, Callers
<1>d. faults \in 0..MaxFaults /\ MaxFaults \in Nat
      BY RecordersAssumption DEF Types, TypeOK
<1>1. CASE Begins(c)
  <2>1. PICK x \in Entry : log' = Append(log, x) /\ x.type = "canonicalization_failure"
        BY <1>1, <1>a, BeginDoes
  <2> QED BY <1>b, <2>1
<1>2. CASE AppendPrescription(c)
  <2>1. PICK how \in Results, x \in Entry :
            /\ Adds(x, how)
            /\ \/ /\ Same(job[c], job'[c]) /\ job'[c].id = x.id /\ job'[c].pc = Goals(c, how)
                  /\ job'[c].session = IF job[c].tool = "prescribe" THEN x.session
                                       ELSE job[c].session
               \/ ~Accepted(how)
        BY <1>2, PrescriptionDoes
  <2>2. how = "ok" /\ Persisted(how) /\ Accepted(how) /\ Written(how)
        BY <1>d, <2>1, Faulted DEF Adds, Persisted, Accepted, Written
  <2>3. x = e
        BY <1>b, <2>1, <2>2 DEF Adds
  <2>4. CASE c \in Requests
        BY <2>1, <2>2, <2>3, <2>4 DEF Awaited, Goals
  <2>5. CASE c \in Shells
    <3>1. c \notin Requests /\ job[c].tool \in {"prescribe", "record"}
          BY <1>c, <1>2, <2>5, RecordersAssumption
             DEF PlaceOf, PlaceOfShell, AppendPrescription
    <3>2. AfterPrescription(c) = IF job[c].tool = "prescribe" THEN "answer" ELSE "find"
          BY <3>1 DEF AfterPrescription
    <3>3. Sends(job'[c], e)
          BY <2>1, <2>2, <2>3, <3>1, <3>2 DEF Sends, Goals, Same
    <3> QED BY <2>5, <3>3 DEF Awaited, Sends
  <2> QED BY <2>4, <2>5 DEF Callers
<1>3. CASE AppendReport(c)
  <2>1. PICK how \in Results, x \in Entry :
            /\ Adds(x, how) /\ (job[c].session # NoSession => x.session = job[c].session)
            /\ \/ /\ job'[c].rid = x.id /\ job'[c].session = job[c].session
                  /\ job'[c].pc = IF Persisted(how) /\ c \in Requests
                                  THEN "forward_report" ELSE "assess"
               \/ ~Accepted(how)
        BY <1>3, ReportDoes
  <2>2. how = "ok" /\ Persisted(how) /\ Accepted(how) /\ Written(how)
        BY <1>d, <2>1, Faulted DEF Adds, Persisted, Accepted, Written
  <2>3. x = e
        BY <1>b, <2>1, <2>2 DEF Adds
  <2>4. CASE c \in Requests
        BY <2>1, <2>2, <2>3, <2>4 DEF Awaited
  <2>5. CASE c \in Shells
    <3>1. c \notin Requests
          BY <2>5, RecordersAssumption
    <3>2. job[c].session # NoSession
          BY <1>a, <1>3, LogEntry DEF AppendReport, Stored, Known
    <3>3. Sends(job'[c], e)
          BY <2>1, <2>2, <2>3, <3>1, <3>2 DEF Sends
    <3> QED BY <2>5, <3>3 DEF Awaited, Sends
  <2> QED BY <2>4, <2>5 DEF Callers
<1>4. CASE AppendFinding(c)
  <2>1. PICK how \in Results, x \in Entry : Adds(x, how) /\ x.type = "finding"
        BY <1>4, FindingDoes
  <2> QED BY <1>a, <1>b, <2>1 DEF Adds
<1>5. CASE Unknown(c)
  <2>1. PICK x \in Entry : x.type = "signal" /\ (log' = log \/ log' = Append(log, x))
        BY <1>5, UnknownDoes
  <2> QED BY <1>a, <1>b, <2>1
<1>6. CASE ~(\/ Begins(c) \/ AppendPrescription(c) \/ AppendReport(c) \/ AppendFinding(c)
             \/ Unknown(c))
      BY <1>6, <1>a DEF Goes, CountRetry, Run, Forward, Collect, Send, KillShell, Answer,
                        Refuse, FindFails, Find, Assess, history
<1> QED BY <1>1, <1>2, <1>3, <1>4, <1>5, <1>6

LEMMA NextForwarded ==
    ASSUME Types, Place, Drawn, Stored, Progresses, Forwarded, Next
    PROVE  Forwarded'
<1>a. LogStep
      BY LogSteps
<1> SUFFICES ASSUME faults' = 0
             PROVE  /\ \A c \in Callers : job'[c].clean
                    /\ \A k \in 1..Len(log') : log'[k].type \in {"prescribe", "report"} =>
                          log'[k].id \in hosted' \/ Awaited(log[k])'
    BY DEF Forwarded
<1>1. CASE Cleanup \/ Tick \/ StopServer
  <2>1. faults = 0 /\ job' = job /\ log' = log /\ hosted' = hosted
        BY <1>1, ServerDoes DEF Quiet
  <2> QED BY <2>1 DEF Forwarded, Awaited, Sends
<1>2. ASSUME NEW c \in Callers, Begins(c) \/ Goes(c)
      PROVE  /\ \A d \in Callers : job'[d].clean
             /\ \A k \in 1..Len(log') : log'[k].type \in {"prescribe", "report"} =>
                   log'[k].id \in hosted' \/ Awaited(log[k])'
  <2>1. /\ faults = 0 /\ hosted \subseteq hosted' /\ (job[c].clean => job'[c].clean)
        /\ \A d \in Callers \ {c} : job'[d] = job[d]
        BY <1>2, Unfailing, OwnStep
  <2>2. \A d \in Callers : job[d].clean /\ job'[d].clean
        BY <2>1 DEF Forwarded
  <2>3. ASSUME NEW k \in 1..Len(log), NEW e, e = log[k], e.type \in {"prescribe", "report"}
        PROVE  e.id \in hosted' \/ Awaited(e)'
    <3>1. CASE e.id \in hosted
          BY <2>1, <3>1
    <3>2. ASSUME NEW d \in Requests, \/ job[d].pc = "forward" /\ job[d].id = e.id
                                     \/ job[d].pc = "forward_report" /\ job[d].rid = e.id
          PROVE  e.id \in hosted' \/ Awaited(e)'
      <4>1. CASE d = c
            BY <1>2, <3>2, <4>1, Delivered
      <4>2. CASE d # c
            BY <2>1, <3>2, <4>2 DEF Awaited, Callers
      <4> QED BY <4>1, <4>2
    <3>3. ASSUME NEW d \in Shells, Sends(job[d], e)
          PROVE  e.id \in hosted' \/ Awaited(e)'
      <4>1. CASE d = c
        <5>1. ~Begins(c)
              BY <3>3, <4>1, BeginDoes DEF Sends
        <5>2. Sends(job'[d], e) \/ e.id \in hosted'
              BY <1>2, <2>2, <2>3, <3>3, <4>1, <5>1, StillSent DEF Sends
        <5> QED BY <5>2 DEF Awaited, Sends
      <4>2. CASE d # c
        <5>1. Sends(job'[d], e)
              BY <2>1, <3>3, <4>2 DEF Callers
        <5> QED BY <5>1 DEF Awaited, Sends
      <4> QED BY <4>1, <4>2
    <3>4. e.id \in hosted \/ Awaited(e)
          BY <2>1, <2>3 DEF Forwarded
    <3> QED BY <3>1, <3>2, <3>3, <3>4 DEF Awaited
  <2>4. ASSUME NEW k \in 1..Len(log'), NEW e, e = log'[k],
               e.type \in {"prescribe", "report"}
        PROVE  e.id \in hosted' \/ Awaited(e)'
    <3>1. CASE k \in 1..Len(log)
      <4>1. e = log[k]
            BY <1>a, <2>4, <3>1, Grown
      <4> QED BY <2>3, <2>4, <3>1, <4>1
    <3>2. CASE k \notin 1..Len(log)
      <4>1. log \in Seq(Entry)
            BY DEF Types, TypeOK
      <4>2. log' # log
            BY <3>2
      <4>3. PICK x \in Entry : log' = Append(log, x)
            BY <1>a, <4>2 DEF LogStep
      <4>4. k = Len(log) + 1 /\ log'[k] = x
            BY <3>2, <4>1, <4>3
      <4> QED BY <1>2, <2>4, <4>3, <4>4, NewAwaited
    <3> QED BY <3>1, <3>2
  <2> QED BY <2>2, <2>4 DEF Awaited, Sends
<1> QED BY <1>1, <1>2, NextCases

-----------------------------------------------------------------------------
(* What is counted                                                          *)

LEMMA ExactCounts == RetryCountExact <=> \A i \in Intents : Exact(seen[i])
<1> QED BY DEF RetryCountExact, Exact, Start

\* One more attempt.
LEMMA Attempt ==
    ASSUME NEW s \in Seq(Seen), NEW r \in [first: Nat, count: Nat], NEW t \in Nat,
           Counting(s, r, t), Bounded(s), Exact(s),
           NEW q, q = IF r.count = 0 \/ t > r.first + TTL THEN [first |-> t, count |-> 1]
                      ELSE [r EXCEPT !.count = @ + 1],
           NEW z, z = Append(s, [at |-> t, count |-> q.count])
    PROVE  Counting(z, q, t) /\ Bounded(z) /\ Exact(z)
<1> DEFINE n == Len(s)
<1>0. TTL \in Nat
      BY RecordersAssumption
<1>1. [at |-> t, count |-> q.count] \in Seen
      BY DEF Seen
<1>2. /\ n \in Nat /\ Len(z) = n + 1 /\ z[n + 1].at = t /\ z[n + 1].count = q.count
      /\ \A m \in 1..n : z[m] = s[m]
      BY <1>1
<1>3. \A m \in 1..n : s[m].at \in Nat /\ s[m].count \in 1..m /\ Start(s, m) \in 1..m
  <2> SUFFICES ASSUME NEW m \in 1..n
               PROVE  s[m].at \in Nat /\ s[m].count \in 1..m /\ Start(s, m) \in 1..m
        OBVIOUS
  <2>1. s[m] \in Seen /\ m \in Nat
        BY <1>2
  <2>2. s[m].at \in Nat /\ s[m].count \in 1..m
        BY <2>1 DEF Bounded, Seen
  <2> QED BY <2>1, <2>2 DEF Start
<1>l. n > 0 => /\ n \in 1..n /\ z[n] = s[n]
               /\ Start(z, n) = Start(s, n) /\ z[Start(s, n)] = s[Start(s, n)]
      BY <1>2, <1>3 DEF Start
<1>e. ASSUME NEW m \in 1..n
      PROVE  z[m].count = IF m = 1 \/ (m > 1 /\ z[m].at > z[Start(z, m - 1)].at + TTL) THEN 1
                          ELSE z[m-1].count + 1
  <2>1. s[m].count = IF m = 1 \/ (m > 1 /\ s[m].at > s[Start(s, m - 1)].at + TTL) THEN 1
                     ELSE s[m-1].count + 1
        BY DEF Exact
  <2>2. m > 1 => /\ m - 1 \in 1..n /\ z[m-1] = s[m-1]
                 /\ Start(z, m - 1) = Start(s, m - 1)
                 /\ z[Start(s, m - 1)] = s[Start(s, m - 1)]
        BY <1>2, <1>3 DEF Start
  <2>3. z[m] = s[m] /\ (m = 1 \/ m > 1)
        BY <1>2
  <2> QED BY <2>1, <2>2, <2>3
<1>m. ASSUME NEW m \in 1..Len(z) PROVE m \in 1..n \/ (m = n + 1 /\ m - 1 = n)
      BY <1>2, <1>m
<1>5. CASE r.count = 0 \/ t > r.first + TTL
  <2>1. q.count = 1 /\ q.first = t /\ Start(z, n + 1) = n + 1
        BY <1>2, <1>5 DEF Start
  <2>2. n > 0 => t > s[Start(s, n)].at + TTL
        BY <1>2, <1>3, <1>5 DEF Counting
  <2>3. Counting(z, q, t)
        BY <1>2, <2>1 DEF Counting
  <2>4. Bounded(z)
        BY <1>2, <1>3, <2>1 DEF Bounded
  <2>5. ASSUME NEW m \in 1..Len(z)
        PROVE  z[m].count = IF m = 1 \/ (m > 1 /\ z[m].at > z[Start(z, m - 1)].at + TTL) THEN 1
                            ELSE z[m-1].count + 1
    <3>1. CASE m = n + 1 /\ m - 1 = n
      <4>1. z[m].count = 1 /\ z[m].at = t
            BY <1>2, <2>1, <3>1
      <4>2. m = 1 \/ (m > 1 /\ z[m].at > z[Start(z, m - 1)].at + TTL)
        <5>1. CASE n = 0
              BY <3>1, <5>1
        <5>2. CASE n > 0
          <6>1. Start(z, m - 1) = Start(s, n) /\ z[Start(s, n)] = s[Start(s, n)]
                BY <1>l, <3>1, <5>2
          <6>2. z[m].at > z[Start(z, m - 1)].at + TTL
                BY <2>2, <4>1, <5>2, <6>1
          <6>3. m > 1
                BY <1>2, <3>1, <5>2
          <6> QED BY <6>2, <6>3
        <5>3. n = 0 \/ n > 0
              BY <1>2
        <5> QED BY <5>1, <5>2, <5>3
      <4> QED BY <4>1, <4>2
    <3> QED BY <1>e, <1>m, <3>1
  <2> QED BY <2>3, <2>4, <2>5 DEF Exact
<1>6. CASE ~(r.count = 0 \/ t > r.first + TTL)
  <2>1. q.count = r.count + 1 /\ q.first = r.first
        BY <1>6
  <2>2. n > 0 /\ r.count = s[n].count /\ r.first = s[Start(s, n)].at
        BY <1>2, <1>6 DEF Counting
  <2>3. Start(z, n + 1) = Start(s, n)
        BY <1>2, <1>3, <2>1, <2>2 DEF Start
  <2>4. Counting(z, q, t)
    <3>1. z[Start(z, n + 1)].at = r.first /\ z[n + 1].count = q.count
      <4>1. z[Start(z, n + 1)] = s[Start(s, n)]
            BY <1>l, <2>2, <2>3
      <4>2. z[Start(z, n + 1)].at = r.first
            BY <2>2, <4>1
      <4>3. z[n + 1].count = q.count
            BY <1>2
      <4> QED BY <4>2, <4>3
    <3>2. Len(z) = n + 1 /\ Len(z) # 0
          BY <1>2
    <3>3. q.count = z[Len(z)].count /\ q.first = z[Start(z, Len(z))].at
          BY <2>1, <3>1, <3>2
    <3> QED BY <3>2, <3>3 DEF Counting
  <2>5. Bounded(z)
    <3>1. ASSUME NEW m \in 1..n PROVE z[m].count \in 1..m
          BY <1>2, <1>3
    <3>2. z[n + 1].count \in 1..(n + 1)
      <4>1. z[n + 1].count = s[n].count + 1 /\ s[n].count \in 1..n
            BY <1>2, <1>3, <1>l, <2>1, <2>2
      <4> QED BY <1>2, <4>1
    <3> QED BY <1>m, <3>1, <3>2 DEF Bounded
  <2>6. ASSUME NEW m \in 1..Len(z)
        PROVE  z[m].count = IF m = 1 \/ (m > 1 /\ z[m].at > z[Start(z, m - 1)].at + TTL) THEN 1
                            ELSE z[m-1].count + 1
    <3>1. CASE m = n + 1 /\ m - 1 = n
      <4>1. z[m].count = r.count + 1 /\ z[m].at = t /\ z[m-1].count = r.count
            BY <1>2, <1>l, <2>1, <2>2, <3>1
      <4>2. z[Start(z, m - 1)].at = r.first /\ m > 1
        <5>1. z[Start(z, m - 1)] = s[Start(s, n)]
              BY <1>l, <2>2, <3>1
        <5>2. z[Start(z, m - 1)].at = r.first
              BY <2>2, <5>1
        <5>3. m > 1
              BY <1>2, <2>2, <3>1
        <5> QED BY <5>2, <5>3
      <4>3. ~(z[m].at > z[Start(z, m - 1)].at + TTL)
            BY <1>6, <4>1, <4>2
      <4>4. m # 1
            BY <4>2
      <4> QED BY <4>1, <4>3, <4>4
    <3> QED BY <1>e, <1>m, <3>1
  <2> QED BY <2>4, <2>5, <2>6 DEF Exact
<1> QED BY <1>5, <1>6

\* Nothing but the tracker and the clock touches the counts.
LEMMA Uncounted ==
    ASSUME Types, NEW c \in Callers, Begins(c) \/ Goes(c), ~CountRetry(c)
    PROVE  UNCHANGED <<retry, now, seen>>
<1>1. CASE Begins(c)
      BY <1>1, BeginDoes DEF history
<1>2. CASE AppendPrescription(c) \/ AppendReport(c)
      BY <1>2, PrescriptionDoes, ReportDoes
<1>3. CASE Refuse(c) \/ FindFails(c) \/ Unknown(c) \/ Send(c) \/ KillShell(c)
      BY <1>3, EndDoes
<1>4. CASE Run(c) \/ Forward(c) \/ AppendFinding(c) \/ Collect(c) \/ Find(c)
           \/ Answer(c) \/ Assess(c)
      BY <1>4 DEF Run, Forward, AppendFinding, Collect, Find, Answer, Assess, history
<1> QED BY <1>1, <1>2, <1>3, <1>4 DEF Goes

LEMMA NextCounts ==
    ASSUME Types, Counts, RetryCountExact, Next
    PROVE  Counts' /\ RetryCountExact'
<1>a. /\ seen \in [Intents -> Seq(Seen)] /\ retry \in [Intents -> [first: Nat, count: Nat]]
      /\ now \in Nat /\ job \in [Callers -> Job] /\ TTL \in Nat
      BY RecordersAssumption DEF Types, TypeOK
<1>b. \A i \in Intents : Counting(seen[i], retry[i], now) /\ Bounded(seen[i]) /\ Exact(seen[i])
      BY ExactCounts DEF Counts
<1>c. SUFFICES \A i \in Intents : /\ Counting(seen'[i], retry'[i], now') /\ Bounded(seen'[i])
                                  /\ Exact(seen'[i])
      BY DEF Counts, RetryCountExact, Exact, Start, Counting, Bounded
<1>1. CASE UNCHANGED <<retry, now, seen>>
      BY <1>b, <1>1
<1>2. ASSUME NEW c \in Callers, CountRetry(c), NEW i \in Intents
      PROVE  Counting(seen'[i], retry'[i], now') /\ Bounded(seen'[i]) /\ Exact(seen'[i])
  <2>1. CASE i = job[c].intent
    <3>1. /\ retry'[i] = Counted(retry[i]) /\ now' = now
          /\ seen'[i] = Append(seen[i], [at |-> now, count |-> Counted(retry[i]).count])
          BY <1>a, <1>2, <2>1 DEF CountRetry
    <3>2. retry'[i] = IF retry[i].count = 0 \/ now > retry[i].first + TTL
                      THEN [first |-> now, count |-> 1] ELSE [retry[i] EXCEPT !.count = @ + 1]
          BY <3>1 DEF Counted, Expired
    <3>3. seen'[i] = Append(seen[i], [at |-> now, count |-> retry'[i].count])
          BY <3>1
    <3>4. seen[i] \in Seq(Seen) /\ retry[i] \in [first: Nat, count: Nat]
          BY <1>a
    <3>5. /\ Counting(seen'[i], retry'[i], now) /\ Bounded(seen'[i])
          /\ Exact(seen'[i])
          BY <1>a, <1>b, <3>2, <3>3, <3>4, Attempt
    <3> QED BY <3>1, <3>5
  <2>2. CASE i # job[c].intent
    <3>1. retry'[i] = retry[i] /\ now' = now /\ seen'[i] = seen[i]
          BY <1>a, <1>2, <2>2 DEF CountRetry
    <3> QED BY <1>b, <3>1
  <2> QED BY <2>1, <2>2
<1>3. ASSUME Cleanup, NEW i \in Intents
      PROVE  Counting(seen'[i], retry'[i], now') /\ Bounded(seen'[i]) /\ Exact(seen'[i])
  <2>1. /\ retry'[i] = Cleaned(retry[i]) /\ now' = now /\ seen' = seen
        BY <1>3 DEF Cleanup, history
  <2> QED BY <1>a, <1>b, <2>1 DEF Cleaned, NoCount, Counting
<1>4. ASSUME Tick, NEW i \in Intents
      PROVE  Counting(seen'[i], retry'[i], now') /\ Bounded(seen'[i]) /\ Exact(seen'[i])
  <2>1. /\ retry' = retry /\ now' = now + 1 /\ seen' = seen
        BY <1>4 DEF Tick, history
  <2>2. /\ Len(seen[i]) \in Nat
        /\ Len(seen[i]) # 0 => seen[i][Start(seen[i], Len(seen[i]))].at \in Nat
    <3>1. Len(seen[i]) \in Nat
          BY <1>a
    <3>2. ASSUME Len(seen[i]) # 0
          PROVE  Start(seen[i], Len(seen[i])) \in 1..Len(seen[i])
      <4>1. Len(seen[i]) \in 1..Len(seen[i])
            BY <3>1, <3>2
      <4>2. seen[i][Len(seen[i])].count \in 1..Len(seen[i])
            BY <1>b, <4>1 DEF Bounded
      <4> QED BY <3>1, <4>2 DEF Start
    <3>3. ASSUME NEW x \in 1..Len(seen[i]) PROVE seen[i][x].at \in Nat
      <4>1. seen[i] \in Seq(Seen)
            BY <1>a
      <4>2. seen[i][x] \in Seen
            BY <4>1
      <4> QED BY <4>2 DEF Seen
    <3> QED BY <3>1, <3>2, <3>3
  <2> QED BY <1>a, <1>b, <2>1, <2>2 DEF Counting
<1>5. ASSUME StopServer, NEW i \in Intents
      PROVE  Counting(seen'[i], retry'[i], now') /\ Bounded(seen'[i]) /\ Exact(seen'[i])
  <2>1. retry'[i].count = 0 /\ seen'[i] = <<>>
        BY <1>5 DEF StopServer, Forgotten
  <2> QED BY <2>1 DEF Counting, Bounded, Exact
<1> QED BY <1>1, <1>2, <1>3, <1>4, <1>5, NextCases, Uncounted

-----------------------------------------------------------------------------
(* The theorems                                                             *)

RecordersInv ==
    /\ Types /\ Place /\ Drawn /\ Stored /\ ReportsLinked /\ Strict
    /\ Progresses /\ Private /\ MutationsRecorded /\ Forwarded
    /\ Counts /\ RetryCountExact

LEMMA InitRecorders == Init => RecordersInv
<1> SUFFICES ASSUME Init PROVE RecordersInv
    OBVIOUS
<1>1. /\ log = <<>> /\ Len(log) = 0 /\ 1..Len(log) = {} /\ fresh = 0 /\ hosted = {}
      /\ told = {} /\ ran = {} /\ faults = 0 /\ \A c \in Callers : job[c] = Idle
      /\ \A i \in Intents : seen[i] = <<>> /\ retry[i].count = 0
      BY DEF Init, Forgotten
<1>2. Types
  <2>1. job \in [Callers -> Job]
        BY IdleJob DEF Init
  <2>2. retry \in [Intents -> [first: Nat, count: Nat]]
        BY DEF Init, Forgotten
  <2>3. log \in Seq(Entry) /\ seen \in [Intents -> Seq(Seen)]
        BY DEF Init
  <2> QED BY <2>1, <2>2, <2>3, RecordersAssumption DEF Init, Types, TypeOK
<1>3. Place
      BY <1>1 DEF Place, PlaceOfRequest, PlaceOfShell, Callers
<1>4. Drawn
      BY <1>1, IdleIs DEF Drawn
<1>5. Stored /\ Strict
      BY <1>1, IdleIs DEF Stored, Known, Strict, StrictJob
<1>6. ReportsLinked
      BY <1>1 DEF ReportsLinked
<1>7. MutationsRecorded
      BY <1>1 DEF MutationsRecorded
<1>8. Progresses /\ Private
      BY <1>1, IdleIs DEF Progresses, Progress, Acts, Private
<1>9. Forwarded
      BY <1>1, IdleIs DEF Forwarded
<1>10. Counts /\ RetryCountExact
  <2>1. \A i \in Intents : Len(seen[i]) = 0
        BY <1>1
  <2> QED BY <1>1, <2>1 DEF Counts, Counting, Bounded, RetryCountExact
<1> QED BY <1>2, <1>3, <1>4, <1>5, <1>6, <1>7, <1>8, <1>9, <1>10 DEF RecordersInv

LEMMA NextRecorders == RecordersInv /\ [Next]_vars => RecordersInv'
<1> SUFFICES ASSUME RecordersInv, [Next]_vars PROVE RecordersInv'
    OBVIOUS
<1>a. /\ Types /\ Place /\ Drawn /\ Stored /\ ReportsLinked /\ Strict
      /\ Progresses /\ Private /\ MutationsRecorded /\ Forwarded
      /\ Counts /\ RetryCountExact
      BY DEF RecordersInv
<1>1. CASE Next
  <2>1. Types' /\ Place' /\ Drawn' /\ Stored'
        BY <1>a, <1>1, NextTypes, NextPlace, NextDrawn, NextStored
  <2>2. ReportsLinked' /\ Strict' /\ Progresses' /\ Private'
        BY <1>a, <1>1, NextLinked, NextStrict, NextProgress, NextPrivate
  <2>3. MutationsRecorded' /\ Forwarded' /\ Counts' /\ RetryCountExact'
        BY <1>a, <1>1, NextMutations, NextForwarded, NextCounts
  <2> QED BY <2>1, <2>2, <2>3 DEF RecordersInv
<1>2. CASE UNCHANGED vars
  <2>1. UNCHANGED <<mode, log, fresh, job, retry, now, hosted, calls, faults, seen, told, ran>>
        BY <1>2 DEF vars
  <2>2. Types' /\ Place' /\ Drawn'
        BY <1>a, <2>1 DEF Types, TypeOK, Place, Drawn, Ordered
  <2>3. Stored' /\ ReportsLinked' /\ Strict'
        BY <1>a, <2>1 DEF Stored, Known, Ids, ReportsLinked, Strict, StrictJob, Lenient
  <2>4. Progresses'
        BY <1>a, <2>1 DEF Progresses, Progress, Prescribed, Recorded
  <2>5. Private' /\ MutationsRecorded'
        BY <1>a, <2>1 DEF Private, Own, NoReport, MutationsRecorded
  <2>6. Forwarded'
        BY <1>a, <2>1 DEF Forwarded, Awaited, Sends
  <2>7. Counts' /\ RetryCountExact'
        BY <1>a, <2>1 DEF Counts, Counting, Start, Bounded, RetryCountExact
  <2> QED BY <2>2, <2>3, <2>4, <2>5, <2>6, <2>7 DEF RecordersInv
<1> QED BY <1>1, <1>2

\* A proxy does not touch the evidence of a server.
LEMMA Binary ==
    /\ BinaryInit => RecordersInv
    /\ RecordersInv /\ [BinaryNext]_<<vars, proxyVars, proxying>> => RecordersInv'
<1>1. [BinaryNext]_<<vars, proxyVars, proxying>> => [Next]_vars
      BY DEF BinaryNext
<1> QED BY <1>1, InitRecorders, NextRecorders DEF BinaryInit

\* RetryTracker.Record: the retry count of a prescription counts from the attempt
\* that began the count, and starts again when that is older than the TTL, whenever
\* the ticker of the cleanup fires.
THEOREM RetriesAreSound == BinarySpec => []RetriesSound
<1>1. RecordersInv => RetriesSound
      BY DEF RecordersInv, Types, RetriesSound
<1> QED BY <1>1, Binary, PTL DEF BinarySpec

\* lifecycle.Service.Report: a report names an entry that is in the store before it,
\* of the same session, whatever callers pass and whichever writes fail.
THEOREM ReportsAreLinked == BinarySpec => []ReportsLinked
<1>1. RecordersInv => ReportsLinked
      BY DEF RecordersInv
<1> QED BY <1>1, Binary, PTL DEF BinarySpec

\* The strict write mode: an id in a successful answer can be looked up from then on,
\* and no unknown_prescription signal accuses who uses it.
THEOREM AnswersAlwaysStand == BinarySpec => []AnswersStand
<1>1. RecordersInv => AnswersStand
  <2> SUFFICES ASSUME RecordersInv, ~Lenient
               PROVE  /\ \A id \in told : GetEvent(id)
                      /\ \A k \in 1..Len(log) : log[k].type = "signal" => log[k].ref \notin told
      BY DEF AnswersStand
  <2>1. told \subseteq Ids /\ \A k \in 1..Len(log) : log[k].type = "signal" => log[k].ref = 0
        BY DEF RecordersInv, Strict
  <2>2. \A k \in 1..Len(log) : log[k].id \in 1..fresh
        BY DEF RecordersInv, Drawn, Ordered
  <2>3. 0 \notin Ids
        BY <2>2 DEF Ids, RecordersInv, Types, TypeOK
  <2> QED BY <2>1, <2>3 DEF GetEvent
<1> QED BY <1>1, Binary, PTL DEF BinarySpec

\* run_command and record: a mutation whose call met no fault has its prescription
\* and a report with its exit code; a command that a signal ended under run_command
\* has its prescription only.
THEOREM MutationsAreRecorded == BinarySpec => []MutationsRecorded
<1>1. RecordersInv => MutationsRecorded
      BY DEF RecordersInv
<1> QED BY <1>1, Binary, PTL DEF BinarySpec

\* tryForwardEntry and forwardEvidence: the API has only what the store has, and all
\* prescriptions and reports when no call is under way and nothing ever failed.
THEOREM HostedIsComplete == BinarySpec => []HostedComplete
<1>1. RecordersInv => HostedComplete
  <2> SUFFICES ASSUME RecordersInv
               PROVE  HostedComplete
      OBVIOUS
  <2>1. hosted \subseteq Ids
        BY DEF RecordersInv, Stored
  <2>2. ASSUME \A c \in Callers : job[c] = Idle, NEW e PROVE ~Awaited(e)
        BY <2>2, IdleIs DEF Awaited, Sends, Callers
  <2> QED BY <2>1, <2>2 DEF RecordersInv, Forwarded, HostedComplete
<1> QED BY <1>1, Binary, PTL DEF BinarySpec

-----------------------------------------------------------------------------
(* The proxy: the invariant                                                 *)

AnswerType == [error: BOOLEAN, code: {"none", "zero", "nonzero"}, isError: BOOLEAN]
Code == {"zero", "nonzero"}
Call == [id: RpcIds, kind: CallKinds]
Line == [call: Nat, step: 1..3, relaying: BOOLEAN]
FileEntry == [type: {"prescribe", "report"}, of: Nat, exit: Code]
Message == [id: RpcIds, call: Nat, answer: AnswerType]
Hand == [pc: {"read", "report", "deliver"}, call: Nat, of: Nat, exit: Code]

ProxyTypes ==
    /\ rpc \in Seq(Call)
    /\ line \in Line /\ pending \in [RpcIds -> Nat] /\ working \subseteq Nat
    /\ file \in Seq(FileEntry) /\ out \in Seq(Message) /\ hand \in Hand
    /\ answered \subseteq [call: Nat, answer: AnswerType] /\ proxyFaults \in Nat

\* The relay has the last call in its hand, or none.
Reading == IF line.call = 0 THEN line.step = 1 ELSE line.call = Len(rpc)
\* A call that upstream has been sent.
Sent(n) == n \in Calls /\ n # line.call
\* A call whose entry may have been tracked, and one that must have been.
MayWait(n) == n \in Calls /\ (n = line.call => line.step = 3)
ProxyBegun(n) == n \in Calls /\ (n = line.call => line.step > 1)

\* A call that was sent is with upstream, in its output, in the hand of the
\* relay or with the client, and in one of these places only.
AtWork == \A n \in working : Sent(n) /\ n # hand.call /\ n \notin got
OutOK(k) ==
    out[k].call # 0 =>
        /\ Sent(out[k].call) /\ out[k].id = rpc[out[k].call].id
        /\ [call |-> out[k].call, answer |-> out[k].answer] \in answered
        /\ out[k].call \notin working \cup got /\ out[k].call # hand.call
        /\ \A j \in 1..k-1 : out[j].call # out[k].call
InHand == hand.call # 0 => Sent(hand.call) /\ hand.call \notin got
Done == (\A n \in got : Sent(n)) /\ \A r \in answered : Sent(r.call)
Places == AtWork /\ (\A k \in 1..Len(out) : OutOK(k)) /\ InHand /\ Done

\* Calls without an answer have different ids.
IdsDiffer ==
    \A n, m \in Calls \ got : rpc[n].id = rpc[m].id => n = m

Reported(n) == InFile("report", n)
\* An entry that waits is of a call with that id that was not answered or
\* reported yet; the one in hand is not reported yet either.
Pends(i) ==
    pending[i] # 0 =>
        /\ MayWait(pending[i]) /\ rpc[pending[i]].id = i
        /\ pending[i] \notin got /\ pending[i] # hand.call /\ ~Reported(pending[i])
        /\ hand.pc = "report" => pending[i] # hand.of
Holds ==
    hand.pc = "report" =>
        /\ MayWait(hand.of) /\ hand.of \notin got /\ ~Reported(hand.of)
        /\ \/ hand.of \in crossed
           \/ \E r \in answered : r.call = hand.of /\ ExitCode(r.answer) = hand.exit
Waiting == (\A i \in RpcIds : Pends(i)) /\ Holds /\ \A n : Reported(n) => MayWait(n)

\* Without faults a mutation that was read is prescribed, and one that waits no
\* longer is reported or about to be.
Follows(n) ==
    Tracked(rpc[n].kind) =>
        /\ ProxyBegun(n) => InFile("prescribe", n)
        /\ MayWait(n) =>
              \/ pending[rpc[n].id] = n \/ Reported(n)
              \/ hand.pc = "report" /\ hand.of = n
Following == proxyFaults = 0 => \A n \in Calls : Follows(n)

ProxyInv ==
    ProxyTypes /\ Reading /\ Places /\ IdsDiffer /\ Waiting /\ Following /\ OwnOutcomes

-----------------------------------------------------------------------------
(* Types                                                                    *)

\* Where the request relay is, and where it goes.
LEMMA Stepping ==
    ASSUME line \in Line
    PROVE  /\ AtStep("prescribe") <=> line.call # 0 /\ line.step = 1
           /\ AtStep("track") <=> line.call # 0 /\ line.step = 2
           /\ AtStep("forward") <=> line.call # 0 /\ line.step = 3
           /\ Advance <=> line' = IF line.step = 3 THEN NoLine
                                  ELSE [line EXCEPT !.step = @ + 1]
<1>1. line.step \in 1..3
    BY DEF Line
<1>2. Len(Steps) = 3 /\ Steps[1] = "prescribe" /\ Steps[2] = "track" /\ Steps[3] = "forward"
    BY DEF Steps
<1>3. line.step = 1 \/ line.step = 2 \/ line.step = 3
    BY <1>1
<1>4. Advance <=> line' = IF line.step = 3 THEN NoLine ELSE [line EXCEPT !.step = @ + 1]
    BY <1>2 DEF Advance
<1> QED
    BY <1>2, <1>3, <1>4 DEF AtStep

LEMMA Lines ==
    /\ NoLine \in Line /\ NoLine.call = 0 /\ NoLine.step = 1
    /\ Closed \in Line /\ Closed.call = 0 /\ Closed.step = 1
<1>1. 0 \in Nat /\ 1 \in 1..3 /\ TRUE \in BOOLEAN /\ FALSE \in BOOLEAN
    OBVIOUS
<1>2. \A b \in BOOLEAN : [call |-> 0, step |-> 1, relaying |-> b] \in Line
    BY <1>1, Zenon DEF Line
<1> QED
    BY <1>1, <1>2, Zenon DEF NoLine, Closed

LEMMA Advances ==
    ASSUME line \in Line, Advance, line.call # 0
    PROVE  /\ line' \in Line
           /\ line.step = 3 => line'.call = 0 /\ line'.step = 1
           /\ line.step # 3 => line'.call = line.call /\ line'.step = line.step + 1
<1>2. CASE line.step = 3
    BY <1>2, Stepping, Lines
<1>3. CASE line.step # 3
    <2>1. line' = [line EXCEPT !.step = @ + 1]
        BY <1>3, Stepping
    <2>2. line.step + 1 \in 1..3
        BY <1>3 DEF Line
    <2> QED
        BY <1>3, <2>1, <2>2 DEF Line
<1> QED
    BY <1>2, <1>3

LEMMA WriteType ==
    ASSUME file \in Seq(FileEntry), proxyFaults \in Nat, NEW e \in FileEntry, Write(e)
    PROVE  file' \in Seq(FileEntry) /\ proxyFaults' \in Nat
BY DEF Write

LEMMA ExitCodes == \A a \in AnswerType : ExitCode(a) \in Code
<1> SUFFICES ASSUME NEW a \in AnswerType PROVE ExitCode(a) \in Code
    OBVIOUS
<1>1. a.code \in {"none", "zero", "nonzero"}
    BY DEF AnswerType
<1> QED
    BY <1>1 DEF ExitCode, Code

LEMMA InitProxyTypes == ProxyInit => ProxyTypes
BY Lines DEF ProxyInit, ProxyTypes, NoHand, Hand, Code

LEMMA NextProxyTypes ==
    ProxyTypes /\ Reading /\ Places /\ [ProxyNext]_proxyVars => ProxyTypes'
<1> SUFFICES ASSUME ProxyTypes, Reading, Places, [ProxyNext]_proxyVars PROVE ProxyTypes'
    OBVIOUS
<1> USE ProxyAssumption
<1>1. ASSUME NEW id \in RpcIds, AskClient(id) PROVE ProxyTypes'
    <2>1. [id |-> id, call |-> 0, answer |-> NoAnswer] \in Message
        BY DEF NoAnswer, AnswerType, Message
    <2> QED
        BY <1>1, <2>1 DEF AskClient, ProxyTypes, proxyHistory
<1>2. ASSUME NEW id \in RpcIds, NEW kind \in CallKinds, ReadCall(id, kind) PROVE ProxyTypes'
    <2>1. rpc' \in Seq(Call) /\ Len(rpc) + 1 \in Nat
        BY <1>2 DEF ReadCall, ProxyTypes, Call
    <2>2. line' \in Line
        BY <1>2, <2>1 DEF ReadCall, ProxyTypes, Line
    <2> QED
        BY <1>2, <2>1, <2>2 DEF ReadCall, ProxyTypes, proxyHistory
<1>3. CASE RecordPrescription
    <2>1. line' \in Line
        BY <1>3, Advances DEF RecordPrescription, AtStep, ProxyTypes
    <2>2. [type |-> "prescribe", of |-> line.call, exit |-> "zero"] \in FileEntry
        BY DEF ProxyTypes, Code, FileEntry, Line
    <2>3. file' \in Seq(FileEntry) /\ proxyFaults' \in Nat
        BY <1>3, <2>2, WriteType DEF RecordPrescription, ProxyTypes
    <2> QED
        BY <1>3, <2>1, <2>3 DEF RecordPrescription, ProxyTypes, proxyHistory
<1>4. CASE Track
    <2>1. line' \in Line
        BY <1>4, Advances DEF Track, AtStep, ProxyTypes
    <2>2. line.call \in Nat
        BY DEF ProxyTypes, Line
    <2>3. pending' \in [RpcIds -> Nat]
        BY <1>4, <2>2 DEF Track, ProxyTypes
    <2> QED
        BY <1>4, <2>1, <2>3 DEF Track, ProxyTypes, proxyHistory
<1>5. CASE ForwardCall
    <2>1. line' \in Line /\ line.call \in Nat
        BY <1>5, Advances DEF ForwardCall, AtStep, ProxyTypes, Line
    <2> QED
        BY <1>5, <2>1 DEF ForwardCall, ProxyTypes, proxyHistory
<1>6. CASE ForwardFails
    BY <1>6, Lines DEF ForwardFails, ProxyTypes, proxyHistory
<1>7. ASSUME NEW n \in working, NEW a \in Answers, AnswerCall(n, a) PROVE ProxyTypes'
    <2>0. n \in 1..Len(rpc) /\ rpc \in Seq(Call)
        BY DEF Places, AtWork, Sent, Calls, ProxyTypes
    <2>1. n \in Nat /\ a \in AnswerType /\ rpc[n].id \in RpcIds
        <3>1. rpc[n] \in Call
            BY <2>0
        <3> QED
            BY <2>0, <3>1 DEF AnswerType, Call, ProxyAssumption
    <2>2. [id |-> rpc[n].id, call |-> n, answer |-> a] \in Message
        BY <2>1 DEF Message
    <2> QED
        BY <1>7, <2>1, <2>2 DEF AnswerCall, ProxyTypes
<1>8. CASE UpstreamDies
    BY <1>8 DEF UpstreamDies, ProxyTypes, proxyHistory
<1>9. CASE ReadResponse
    <2>1. Head(out) \in Message /\ out' \in Seq(Message)
        BY <1>9 DEF ReadResponse, ProxyTypes
    <2>2. /\ pending[Head(out).id] \in Nat /\ Head(out).call \in Nat
          /\ Head(out).answer \in AnswerType
        BY <2>1 DEF Message, ProxyTypes
    <2>3. hand' \in Hand
        BY <1>9, <2>2, ExitCodes DEF ReadResponse, Hand
    <2>4. pending' \in [RpcIds -> Nat]
        BY <1>9 DEF ReadResponse, Matched, ProxyTypes
    <2> QED
        BY <1>9, <2>1, <2>3, <2>4 DEF ReadResponse, ProxyTypes
<1>10. CASE RecordReport
    <2>1. hand' \in Hand /\ [type |-> "report", of |-> hand.of, exit |-> hand.exit] \in FileEntry
        BY <1>10 DEF RecordReport, ProxyTypes, Hand, FileEntry
    <2>2. file' \in Seq(FileEntry) /\ proxyFaults' \in Nat
        BY <1>10, <2>1, WriteType DEF RecordReport, ProxyTypes
    <2> QED
        BY <1>10, <2>1, <2>2 DEF RecordReport, ProxyTypes, proxyHistory
<1>11. CASE Deliver
    <2>1. NoHand \in Hand
        BY DEF NoHand, Hand, Code
    <2> QED
        BY <1>11, <2>1 DEF Deliver, ProxyTypes, proxyHistory
<1>12. CASE UNCHANGED proxyVars
    BY <1>12 DEF proxyVars, proxyHistory, ProxyTypes
<1> QED
    BY <1>1, <1>2, <1>3, <1>4, <1>5, <1>6, <1>7, <1>8, <1>9, <1>10, <1>11, <1>12
       DEF ProxyNext

-----------------------------------------------------------------------------
(* Where calls are                                                          *)

\* The request relay goes on with the call it has, or is done with it.
LEMMA LineMoves ==
    ASSUME ProxyTypes, Reading, rpc' = rpc,
           RecordPrescription \/ Track \/ ForwardCall \/ ForwardFails
    PROVE  /\ Reading' /\ Calls' = Calls /\ line.call # 0 /\ line.call = Len(rpc)
           /\ \A n : Sent(n) => Sent(n)'
<1>1. /\ line \in Line /\ line.call # 0 /\ Len(rpc) \in Nat /\ line.call = Len(rpc)
    BY DEF RecordPrescription, Track, ForwardCall, ForwardFails, AtStep, ProxyTypes, Reading
<1>2. line'.call = line.call \/ (line'.call = 0 /\ line'.step = 1)
    <2>1. CASE ForwardFails
        BY <2>1, Lines DEF ForwardFails
    <2>2. CASE Advance
        BY <1>1, <2>2, Advances
    <2> QED
        BY <2>1, <2>2 DEF RecordPrescription, Track, ForwardCall
<1> QED
    BY <1>1, <1>2 DEF Reading, Sent, Calls

LEMMA NextReading == ProxyTypes /\ Reading /\ [ProxyNext]_proxyVars => Reading'
<1> SUFFICES ASSUME ProxyTypes, Reading, [ProxyNext]_proxyVars PROVE Reading'
    OBVIOUS
<1>1. ASSUME NEW id \in RpcIds, NEW kind \in CallKinds, ReadCall(id, kind) PROVE Reading'
    BY <1>1 DEF ReadCall, Reading, ProxyTypes, Line
<1>2. CASE RecordPrescription \/ Track \/ ForwardCall \/ ForwardFails
    BY <1>2, LineMoves DEF RecordPrescription, Track, ForwardCall, ForwardFails
<1>3. CASE line' = line /\ rpc' = rpc
    BY <1>3 DEF Reading
<1> QED
    BY <1>1, <1>2, <1>3
       DEF ProxyNext, AskClient, AnswerCall, UpstreamDies, ReadResponse, RecordReport,
           Deliver, proxyVars

\* A step that leaves upstream's side alone, or loses some of it.
LEMMA PlacesStay ==
    ASSUME Places, hand'.call = hand.call, out' = out, working' \subseteq working, got' = got,
           answered' = answered, \A n \in Calls : rpc'[n] = rpc[n],
           \A n : Sent(n) => Sent(n)'
    PROVE  Places'
BY DEF Places, AtWork, OutOK, InHand, Done, Sent

LEMMA NextPlaces ==
    ProxyTypes /\ Reading /\ Places /\ [ProxyNext]_proxyVars => Places'
<1> SUFFICES ASSUME ProxyTypes, Reading, Places, [ProxyNext]_proxyVars PROVE Places'
    OBVIOUS
<1>0. /\ out \in Seq(Message) /\ Len(out) \in Nat /\ Len(rpc) \in Nat /\ line \in Line
      /\ line.call \in Nat
    BY DEF ProxyTypes, Line
<1>p. AtWork /\ (\A k \in 1..Len(out) : OutOK(k)) /\ InHand /\ Done
    BY DEF Places
<1>1. ASSUME NEW id \in RpcIds, AskClient(id) PROVE Places'
    <2>1. /\ Len(out') = Len(out) + 1 /\ out'[Len(out) + 1].call = 0
          /\ \A k \in 1..Len(out) : out'[k] = out[k]
        BY <1>0, <1>1 DEF AskClient
    <2>2. \A k \in 1..Len(out') : out'[k].call # 0 => k \in 1..Len(out) /\ out'[k] = out[k]
        BY <1>0, <2>1
    <2>3. \A k \in 1..Len(out) : \A j \in 1..k-1 : out'[j] = out[j]
        BY <1>0, <2>1
    <2>4. /\ rpc' = rpc /\ line' = line /\ working' = working /\ hand' = hand /\ got' = got
          /\ answered' = answered
        BY <1>1 DEF AskClient, proxyHistory
    <2>5. ASSUME NEW k \in 1..Len(out') PROVE OutOK(k)'
        BY <1>p, <2>2, <2>3, <2>4 DEF OutOK, Sent, Calls
    <2> QED
        BY <1>p, <2>4, <2>5 DEF Places, AtWork, InHand, Done, Sent, Calls
<1>2. ASSUME NEW id \in RpcIds, NEW kind \in CallKinds, ReadCall(id, kind) PROVE Places'
    <2>1. /\ \A n \in Calls : rpc'[n] = rpc[n] /\ n \in Calls' /\ n # Len(rpc) + 1
          /\ line'.call = Len(rpc) + 1
        BY <1>0, <1>2 DEF ReadCall, Calls, ProxyTypes, Line
    <2>2. \A n : Sent(n) => Sent(n)'
        BY <2>1 DEF Sent
    <2> QED
        BY <1>2, <2>1, <2>2, PlacesStay DEF ReadCall, proxyHistory
<1>3. CASE RecordPrescription \/ Track \/ ForwardFails
    <2>1. \A n : Sent(n) => Sent(n)'
        BY <1>3, LineMoves DEF RecordPrescription, Track, ForwardFails
    <2> QED
        BY <1>3, <2>1, PlacesStay DEF RecordPrescription, Track, ForwardFails, proxyHistory
<1>4. CASE ForwardCall
    <2>1. /\ \A n : Sent(n) => Sent(n)'
          /\ line.call \in Calls /\ Calls' = Calls /\ line.call # 0
        BY <1>0, <1>4, LineMoves DEF ForwardCall, Calls
    <2>2. line'.call = 0
        BY <1>0, <1>4, Stepping, Advances DEF ForwardCall
    <2>3. \A n : n = line.call => Sent(n)' /\ ~Sent(n)
        BY <1>0, <2>1, <2>2 DEF Sent
    <2>4. /\ rpc' = rpc /\ out' = out /\ working' = working \cup {line.call} /\ hand' = hand
          /\ got' = got /\ answered' = answered
        BY <1>4 DEF ForwardCall, proxyHistory
    <2>5. AtWork'
        BY <1>p, <2>1, <2>3, <2>4 DEF AtWork, InHand, Done
    <2>6. ASSUME NEW k \in 1..Len(out') PROVE OutOK(k)'
        BY <1>p, <2>1, <2>3, <2>4 DEF OutOK
    <2> QED
        BY <1>p, <2>1, <2>4, <2>5, <2>6 DEF Places, InHand, Done
<1>5. ASSUME NEW n \in working, NEW a \in Answers, AnswerCall(n, a) PROVE Places'
    <2>1. /\ Len(out') = Len(out) + 1
          /\ out'[Len(out) + 1] = [id |-> rpc[n].id, call |-> n, answer |-> a]
          /\ \A k \in 1..Len(out) : out'[k] = out[k]
        BY <1>0, <1>5 DEF AnswerCall
    <2>2. /\ \A m : Sent(m)' <=> Sent(m)
          /\ rpc' = rpc /\ working' = working \ {n} /\ hand' = hand /\ got' = got
          /\ answered' = answered \cup {[call |-> n, answer |-> a]}
        BY <1>5 DEF AnswerCall, Sent, Calls
    <2>3. \A k \in 1..Len(out') : \/ k \in 1..Len(out) /\ out'[k] = out[k]
                                  \/ k = Len(out) + 1
        BY <1>0, <2>1
    <2>4. \A k \in 1..Len(out') : \A j \in 1..k-1 : j \in 1..Len(out) /\ out'[j] = out[j]
        BY <1>0, <2>1
    <2>5. n # 0 /\ Sent(n) /\ n # hand.call /\ n \notin got
          /\ \A k \in 1..Len(out) : out[k].call # n
        <3>1. Sent(n) /\ n # hand.call /\ n \notin got
            BY <1>p DEF AtWork
        <3>2. n # 0
            BY <1>0, <3>1 DEF Sent, Calls
        <3> QED
            BY <1>p, <3>1, <3>2 DEF OutOK
    <2>6. ASSUME NEW k \in 1..Len(out') PROVE OutOK(k)'
        <3>1. CASE k \in 1..Len(out) /\ out'[k] = out[k]
            BY <1>p, <2>2, <2>4, <3>1 DEF OutOK
        <3>2. CASE k = Len(out) + 1
            <4>1. out'[k].call = n /\ out'[k].id = rpc[n].id /\ out'[k].answer = a
                BY <2>1, <3>2
            <4> QED
                BY <2>2, <2>4, <2>5, <4>1 DEF OutOK
        <3> QED
            BY <2>3, <3>1, <3>2
    <2>7. \A r \in answered' : Sent(r.call)'
        BY <1>p, <2>2, <2>5 DEF Done
    <2> QED
        BY <1>p, <2>2, <2>6, <2>7 DEF Places, AtWork, InHand, Done
<1>6. CASE UpstreamDies
    BY <1>6, PlacesStay DEF UpstreamDies, proxyHistory, Sent, Calls
<1>7. CASE ReadResponse
    <2>1. /\ out # <<>> /\ out' = Tail(out) /\ Len(out) >= 1 /\ 1 \in 1..Len(out)
          /\ hand'.call = out[1].call
        BY <1>0, <1>7 DEF ReadResponse
    <2>2. Len(out') = Len(out) - 1 /\ \A k \in 1..Len(out') : out'[k] = out[k + 1]
        BY <1>0, <2>1
    <2>3. \A k \in 1..Len(out') : k + 1 \in 1..Len(out) /\ 1 \in 1..(k+1)-1
        BY <1>0, <2>2
    <2>4. \A k \in 1..Len(out') : \A j \in 1..k-1 :
             j + 1 \in 1..(k+1)-1 /\ out'[j] = out[j + 1]
        BY <1>0, <2>2
    <2>5. /\ working' = working /\ got' = got /\ rpc' = rpc /\ answered' = answered
          /\ \A m : Sent(m)' <=> Sent(m)
        BY <1>7 DEF ReadResponse, Sent, Calls
    <2>6. ASSUME NEW k \in 1..Len(out') PROVE OutOK(k)'
        <3>1. OutOK(k + 1) /\ out'[k] = out[k + 1] /\ 1 \in 1..(k+1)-1
            BY <1>p, <2>2, <2>3
        <3>2. out'[k].call # 0 => out'[k].call # hand'.call
            BY <2>1, <3>1 DEF OutOK
        <3>3. out'[k].call # 0 => \A j \in 1..k-1 : out'[j].call # out'[k].call
            BY <2>4, <3>1 DEF OutOK
        <3> QED
            BY <2>5, <3>1, <3>2, <3>3 DEF OutOK
    <2>7. AtWork' /\ InHand'
        <3>1. OutOK(1) /\ \A n \in working : n # 0
            BY <1>0, <1>p, <2>1 DEF AtWork, Sent, Calls
        <3> QED
            BY <1>p, <2>1, <2>5, <3>1 DEF AtWork, InHand, OutOK
    <2> QED
        BY <1>p, <2>5, <2>6, <2>7 DEF Places, Done
<1>8. CASE RecordReport
    <2>1. hand'.call = hand.call
        BY <1>8 DEF RecordReport, ProxyTypes, Hand
    <2> QED
        BY <1>8, <2>1, PlacesStay DEF RecordReport, proxyHistory, Sent, Calls
<1>9. CASE Deliver
    <2>1. hand'.call = 0 /\ \A m : Sent(m)' <=> Sent(m)
        BY <1>9 DEF Deliver, NoHand, Sent, Calls
    <2>2. /\ out' = out /\ working' = working /\ rpc' = rpc /\ answered' = answered
          /\ got' = got \cup ({hand.call} \ {0})
        BY <1>9 DEF Deliver, proxyHistory
    <2>3. AtWork'
        BY <1>0, <1>p, <2>1, <2>2 DEF AtWork, Sent, Calls
    <2>4. ASSUME NEW k \in 1..Len(out') PROVE OutOK(k)'
        BY <1>p, <2>1, <2>2 DEF OutOK
    <2> QED
        BY <1>p, <2>1, <2>2, <2>3, <2>4 DEF Places, InHand, Done
<1>10. CASE UNCHANGED proxyVars
    BY <1>10, PlacesStay DEF proxyVars, proxyHistory, Sent, Calls
<1> QED
    BY <1>1, <1>2, <1>3, <1>4, <1>5, <1>6, <1>7, <1>8, <1>9, <1>10 DEF ProxyNext

-----------------------------------------------------------------------------
(* Ids of calls without an answer                                           *)

LEMMA NextIdsDiffer ==
    ProxyTypes /\ IdsDiffer /\ [ProxyNext]_proxyVars => IdsDiffer'
<1> SUFFICES ASSUME ProxyTypes, IdsDiffer, [ProxyNext]_proxyVars PROVE IdsDiffer'
    OBVIOUS
<1>1. ASSUME NEW id \in RpcIds, NEW kind \in CallKinds, ReadCall(id, kind) PROVE IdsDiffer'
    <2>1. /\ Len(rpc) \in Nat /\ Len(rpc') = Len(rpc) + 1 /\ got' = got
          /\ rpc'[Len(rpc) + 1].id = id
          /\ \A n \in 1..Len(rpc) : rpc'[n] = rpc[n] /\ (n \notin got => rpc[n].id # id)
        BY <1>1 DEF ReadCall, ProxyTypes, Calls
    <2>2. \A n \in 1..Len(rpc') : n \in 1..Len(rpc) \/ n = Len(rpc) + 1
        BY <2>1
    <2> QED
        BY <2>1, <2>2 DEF IdsDiffer, Calls
<1>2. CASE rpc' = rpc /\ got \subseteq got'
    BY <1>2 DEF IdsDiffer, Calls
<1> QED
    BY <1>1, <1>2
       DEF ProxyNext, AskClient, RecordPrescription, Track, ForwardCall, ForwardFails,
           AnswerCall, UpstreamDies, ReadResponse, RecordReport, Deliver, proxyVars

-----------------------------------------------------------------------------
(* The table and the file                                                   *)

\* What an entry adds to the file.
LEMMA Writes ==
    ASSUME file \in Seq(FileEntry), proxyFaults \in Nat, NEW e \in FileEntry, Write(e)
    PROVE  /\ \A t, n : InFile(t, n) => InFile(t, n)'
           /\ \A t, n : InFile(t, n)' => InFile(t, n) \/ (e.type = t /\ e.of = n)
           /\ proxyFaults' = 0 => proxyFaults = 0 /\ file' = Append(file, e)
                                  /\ InFile(e.type, e.of)'
<1>1. CASE file' = Append(file, e) /\ proxyFaults' = proxyFaults
    <2>1. /\ Len(file) \in Nat /\ Len(file') = Len(file) + 1 /\ file'[Len(file) + 1] = e
          /\ \A k \in 1..Len(file) : file'[k] = file[k] /\ k \in 1..Len(file')
          /\ Len(file) + 1 \in 1..Len(file')
        BY <1>1
    <2>2. \A k \in 1..Len(file') : k \in 1..Len(file) \/ k = Len(file) + 1
        BY <2>1
    <2> QED
        BY <1>1, <2>1, <2>2 DEF InFile
<1>2. CASE proxyFaults' = proxyFaults + 1 /\ file' = file
    BY <1>2 DEF InFile
<1> QED
    BY <1>1, <1>2 DEF Write

\* What may wait goes on waiting, and what has begun has.
LEMMA MayWaitStays ==
    ASSUME ProxyTypes, Reading, [ProxyNext]_proxyVars
    PROVE  \A n : /\ MayWait(n) => MayWait(n)'
                  /\ n \in Calls => n \in Calls' /\ rpc'[n] = rpc[n]
<1>0. line \in Line /\ Len(rpc) \in Nat
    BY DEF ProxyTypes
<1>1. ASSUME NEW id \in RpcIds, NEW kind \in CallKinds, ReadCall(id, kind)
      PROVE  \A n \in Calls : n \in Calls' /\ rpc'[n] = rpc[n] /\ MayWait(n)'
    BY <1>0, <1>1 DEF ReadCall, MayWait, Calls, ProxyTypes, Line
<1>2. CASE RecordPrescription \/ Track \/ ForwardCall \/ ForwardFails
    <2>1. \/ line'.call = 0
          \/ line'.call = line.call /\ line.step # 3
        BY <1>0, <1>2, Advances, Lines
           DEF RecordPrescription, Track, ForwardCall, ForwardFails, AtStep
    <2>2. rpc' = rpc
        BY <1>2 DEF RecordPrescription, Track, ForwardCall, ForwardFails
    <2> QED
        BY <1>0, <2>1, <2>2 DEF MayWait, Calls
<1>3. CASE line' = line /\ rpc' = rpc
    BY <1>3 DEF MayWait, Calls
<1> QED
    BY <1>1, <1>2, <1>3
       DEF ProxyNext, AskClient, AnswerCall, UpstreamDies, ReadResponse, RecordReport,
           Deliver, proxyVars, MayWait

\* A step that leaves the table and the response relay alone.
LEMMA WaitingStays ==
    ASSUME Waiting, \A n : MayWait(n) => MayWait(n)', \A n \in Calls : rpc'[n] = rpc[n],
           pending' = pending, hand' = hand, got' = got, crossed' = crossed,
           answered \subseteq answered', \A n : Reported(n)' <=> Reported(n)
    PROVE  Waiting'
BY DEF Waiting, Pends, Holds, MayWait

LEMMA NextWaiting ==
    ASSUME ProxyTypes, Reading, Places, IdsDiffer, Waiting, [ProxyNext]_proxyVars
    PROVE  Waiting'
<1>0. /\ line \in Line /\ line.call \in Nat /\ hand \in Hand
      /\ \A n : MayWait(n) => MayWait(n)'
      /\ \A n \in Calls : rpc'[n] = rpc[n]
    BY MayWaitStays DEF ProxyTypes, Line
<1>1. ASSUME NEW id \in RpcIds, AskClient(id) \/ \E kind \in CallKinds : ReadCall(id, kind)
      PROVE  Waiting'
    BY <1>0, <1>1, WaitingStays DEF AskClient, ReadCall, proxyHistory, Reported, InFile
<1>2. CASE RecordPrescription
    <2>1. [type |-> "prescribe", of |-> line.call, exit |-> "zero"] \in FileEntry
        BY <1>0 DEF Code, FileEntry
    <2>2. \A n : Reported(n)' <=> Reported(n)
        <3>1. CASE file' = file
            BY <3>1 DEF Reported, InFile
        <3>2. CASE Write([type |-> "prescribe", of |-> line.call, exit |-> "zero"])
            BY <2>1, <3>2, Writes DEF Reported, ProxyTypes
        <3> QED
            BY <1>2, <3>1, <3>2 DEF RecordPrescription
    <2> QED
        BY <1>0, <1>2, <2>2, WaitingStays DEF RecordPrescription, proxyHistory
<1>3. CASE Track
    <2>1. /\ line.call # 0 /\ line.step = 2 /\ line'.call = line.call /\ line'.step = 3
          /\ rpc' = rpc /\ file' = file /\ hand' = hand /\ got' = got /\ crossed' = crossed
          /\ answered' = answered
        BY <1>0, <1>3, Stepping, Advances DEF Track, proxyHistory
    <2>2. CASE ~Tracked(rpc[line.call].kind)
        BY <1>0, <1>3, <2>1, <2>2, WaitingStays DEF Track, Reported, InFile
    <2>3. CASE Tracked(rpc[line.call].kind)
        <3>1. ~MayWait(line.call) /\ ~Sent(line.call) /\ line.call \in Calls
            BY <1>0, <2>1 DEF MayWait, Sent, Reading, Calls, ProxyTypes
        <3>2. /\ line.call \notin got /\ line.call # hand.call /\ ~Reported(line.call)
              /\ hand.pc = "report" => line.call # hand.of
            BY <2>1, <3>1 DEF Places, InHand, Done, Waiting, Holds
        <3>3. \A n : n = line.call => MayWait(n)'
            BY <2>1, <3>1 DEF MayWait, Calls
        <3>4. \A n : Reported(n)' <=> Reported(n)
            BY <2>1 DEF Reported, InFile
        <3>5. ASSUME NEW i \in RpcIds PROVE Pends(i)'
            <4>1. \/ pending'[i] = pending[i]
                  \/ pending'[i] = line.call /\ i = rpc[line.call].id
                BY <1>3, <2>3 DEF Track, ProxyTypes
            <4> QED
                BY <1>0, <2>1, <3>2, <3>3, <3>4, <4>1 DEF Pends, Waiting
        <3>6. Holds'
            BY <1>0, <2>1, <3>4 DEF Waiting, Holds
        <3> QED
            BY <1>0, <3>4, <3>5, <3>6 DEF Waiting
    <2> QED
        BY <2>2, <2>3
<1>4. CASE ForwardCall \/ ForwardFails \/ UpstreamDies
    BY <1>0, <1>4, WaitingStays
       DEF ForwardCall, ForwardFails, UpstreamDies, proxyHistory, Reported, InFile
<1>5. ASSUME NEW n \in working, NEW a \in Answers, AnswerCall(n, a) PROVE Waiting'
    BY <1>0, <1>5, WaitingStays DEF AnswerCall, Reported, InFile
<1>6. CASE ReadResponse
    <2> DEFINE m == out[1]
               p == pending[m.id]
    <2>1. /\ out \in Seq(Message) /\ 1 \in 1..Len(out)
          /\ Head(out) = out[1]
        <3>1. out \in Seq(Message) /\ out # <<>> /\ Len(out) \in Nat
            BY <1>6 DEF ReadResponse, ProxyTypes
        <3>2. Len(out) >= 1
            BY <3>1
        <3> QED
            BY <3>1, <3>2
    <2>2. m \in Message /\ m.id \in RpcIds /\ OutOK(1)
        <3>1. m \in Message
            BY <2>1
        <3>2. OutOK(1)
            BY <2>1 DEF Places
        <3> QED
            BY <3>1, <3>2 DEF Message
    <2>3. /\ pending' = [pending EXCEPT ![m.id] = 0]
          /\ hand'.pc = IF p # 0 THEN "report" ELSE "deliver"
          /\ hand'.call = m.call /\ hand'.of = p /\ hand'.exit = ExitCode(m.answer)
          /\ crossed' = IF m.call # 0 THEN crossed ELSE crossed \cup ({p} \ {0})
          /\ rpc' = rpc /\ file' = file /\ got' = got /\ answered' = answered
        BY <1>6, <2>1 DEF ReadResponse, Matched
    <2>4. Pends(m.id) /\ \A n : Reported(n)' <=> Reported(n)
        BY <2>2, <2>3 DEF Waiting, Reported, InFile
    <2> HIDE DEF m, p
    <2>5. p # 0 /\ m.call # 0 => p = m.call
        BY <2>2, <2>4 DEF OutOK, Pends, IdsDiffer, Sent, MayWait, m, p
    <2>6. p # 0 => \/ p \in crossed'
                   \/ \E r \in answered : r.call = p /\ ExitCode(r.answer) = hand'.exit
        <3>1. CASE m.call = 0
            BY <2>3, <3>1
        <3>2. CASE p # 0 /\ m.call # 0
            <4>1. [call |-> m.call, answer |-> m.answer] \in answered
                BY <2>2, <3>2 DEF OutOK, m
            <4> QED
                BY <2>3, <2>5, <3>2, <4>1
        <3> QED
            BY <3>1, <3>2
    <2>7. Holds'
        BY <1>0, <2>3, <2>4, <2>6 DEF Holds, Pends, p
    <2>8. ASSUME NEW i \in RpcIds PROVE Pends(i)'
        <3>1. CASE i = m.id
            <4>1. pending'[i] = 0
                BY <2>3, <3>1 DEF ProxyTypes
            <4> QED
                BY <4>1 DEF Pends
        <3>2. CASE i # m.id
            <4>1. pending'[i] = pending[i] /\ Pends(i)
                BY <2>3, <3>2 DEF ProxyTypes, Waiting
            <4>2. pending[i] # 0 => pending[i] # m.call /\ pending[i] # p
                BY <2>2, <2>4, <3>2, <4>1 DEF Pends, OutOK, m, p
            <4> QED
                BY <1>0, <2>3, <2>4, <4>1, <4>2 DEF Pends
        <3> QED
            BY <3>1, <3>2
    <2> QED
        BY <1>0, <2>4, <2>7, <2>8 DEF Waiting
<1>7. CASE RecordReport
    <2>1. /\ hand.pc = "report" /\ hand'.pc = "deliver" /\ hand'.call = hand.call
          /\ rpc' = rpc /\ pending' = pending /\ got' = got
        BY <1>0, <1>7 DEF RecordReport, Hand
    <2>2. [type |-> "report", of |-> hand.of, exit |-> hand.exit] \in FileEntry
        BY <1>0 DEF FileEntry, Hand
    <2>3. \A n : Reported(n)' => Reported(n) \/ n = hand.of
        BY <1>7, <2>2, Writes DEF RecordReport, Reported, ProxyTypes
    <2>4. MayWait(hand.of) /\ \A i \in RpcIds : Pends(i)
        BY <2>1 DEF Waiting, Holds
    <2>5. ASSUME NEW i \in RpcIds PROVE Pends(i)'
        BY <1>0, <2>1, <2>3, <2>4 DEF Pends
    <2> QED
        BY <1>0, <2>1, <2>3, <2>4, <2>5 DEF Waiting, Holds
<1>8. CASE Deliver
    <2>1. /\ hand'.pc = "read" /\ hand'.call = 0 /\ rpc' = rpc /\ pending' = pending
          /\ got' = got \cup ({hand.call} \ {0}) /\ \A n : Reported(n)' <=> Reported(n)
        BY <1>8 DEF Deliver, NoHand, Reported, InFile
    <2>2. ASSUME NEW i \in RpcIds PROVE Pends(i)'
        BY <1>0, <2>1 DEF Pends, Waiting
    <2> QED
        BY <1>0, <2>1, <2>2 DEF Waiting, Holds
<1>9. CASE UNCHANGED proxyVars
    BY <1>0, <1>9, WaitingStays DEF proxyVars, proxyHistory, Reported, InFile
<1> QED
    BY <1>1, <1>2, <1>3, <1>4, <1>5, <1>6, <1>7, <1>8, <1>9 DEF ProxyNext

-----------------------------------------------------------------------------
(* What the file says                                                       *)

LEMMA NextOutcomes ==
    ASSUME ProxyTypes, Waiting, OwnOutcomes, [ProxyNext]_proxyVars
    PROVE  OwnOutcomes'
<1> DEFINE Owed(e) == \/ e.of \in crossed
                     \/ \E r \in answered : r.call = e.of /\ ExitCode(r.answer) = e.exit
<1>0. file \in Seq(FileEntry) /\ Len(file) \in Nat
    BY DEF ProxyTypes
<1>1. crossed \subseteq crossed' /\ answered \subseteq answered'
    BY DEF ProxyNext, AskClient, ReadCall, RecordPrescription, Track, ForwardCall,
           ForwardFails, AnswerCall, UpstreamDies, ReadResponse, RecordReport, Deliver,
           proxyVars, proxyHistory
<1>2. ASSUME NEW e, file' = Append(file, e),
             e.type = "report" => Owed(e) /\ ~Reported(e.of)
      PROVE  OwnOutcomes'
    <2>1. /\ Len(file') = Len(file) + 1 /\ file'[Len(file) + 1] = e
          /\ \A k \in 1..Len(file) : file'[k] = file[k]
        BY <1>0, <1>2
    <2>2. ASSUME NEW k \in 1..Len(file'), file'[k].type = "report"
          PROVE  /\ \A j \in 1..k-1 : file'[j].type = "report" => file'[j].of # file'[k].of
                 /\ \/ file'[k].of \in crossed'
                    \/ \E r \in answered' : /\ r.call = file'[k].of
                                            /\ ExitCode(r.answer) = file'[k].exit
        <3>1. \A j \in 1..k-1 : j \in 1..Len(file) /\ file'[j] = file[j]
            BY <1>0, <2>1
        <3>2. CASE k \in 1..Len(file)
            <4>1. file'[k] = file[k]
                BY <2>1, <3>2
            <4> QED
                BY <1>1, <2>2, <3>1, <3>2, <4>1 DEF OwnOutcomes
        <3>3. CASE k = Len(file) + 1
            BY <1>1, <1>2, <2>1, <2>2, <3>1, <3>3 DEF Reported, InFile
        <3> QED
            BY <1>0, <2>1, <3>2, <3>3
    <2> QED
        BY <2>2 DEF OwnOutcomes
<1>3. CASE file' = file
    BY <1>1, <1>3 DEF OwnOutcomes
<1>4. CASE RecordPrescription
    <2>1. file' = Append(file, [type |-> "prescribe", of |-> line.call, exit |-> "zero"])
             \/ file' = file
        BY <1>4 DEF RecordPrescription, Write
    <2> QED
        BY <1>2, <1>3, <2>1
<1>5. CASE RecordReport
    <2>1. file' = Append(file, [type |-> "report", of |-> hand.of, exit |-> hand.exit])
             \/ file' = file
        BY <1>5 DEF RecordReport, Write
    <2>2. /\ ~Reported(hand.of)
          /\ \/ hand.of \in crossed
             \/ \E r \in answered : r.call = hand.of /\ ExitCode(r.answer) = hand.exit
        BY <1>5 DEF RecordReport, Waiting, Holds
    <2> QED
        BY <1>2, <1>3, <2>1, <2>2
<1> QED
    BY <1>3, <1>4, <1>5
       DEF ProxyNext, AskClient, ReadCall, Track, ForwardCall, ForwardFails, AnswerCall,
           UpstreamDies, ReadResponse, Deliver, proxyVars

\* A step after which the same calls wait, and the same entries are there.
LEMMA FollowingStays ==
    ASSUME Following, rpc' = rpc, pending' = pending, line' = line,
           proxyFaults' = 0 => proxyFaults = 0,
           \A t, n : InFile(t, n) => InFile(t, n)',
           hand.pc # "report" \/ hand' = hand, 
           Calls' = Calls
    PROVE  Following'
BY DEF Following, Follows, MayWait, ProxyBegun, Reported

LEMMA NextFollowing ==
    ASSUME ProxyTypes, Reading, Places, IdsDiffer, Waiting, Following, [ProxyNext]_proxyVars
    PROVE  Following'
<1>0. /\ line \in Line /\ line.call \in Nat /\ hand \in Hand /\ proxyFaults \in Nat
      /\ Len(rpc) \in Nat
    BY DEF ProxyTypes, Line
<1>f. \A n \in Calls : n # 0
    BY <1>0 DEF Calls
<1>1. ASSUME NEW id \in RpcIds, NEW kind \in CallKinds, ReadCall(id, kind) PROVE Following'
    <2>1. /\ line.call = 0 /\ line.step = 1 /\ line'.call = Len(rpc) + 1 /\ line'.step = 1
          /\ Len(rpc') = Len(rpc) + 1 /\ \A n \in 1..Len(rpc) : rpc'[n] = rpc[n]
          /\ pending' = pending /\ hand' = hand /\ proxyFaults' = proxyFaults /\ file' = file
        BY <1>0, <1>1 DEF ReadCall, Reading, ProxyTypes, Line, proxyHistory
    <2>2. \A n : Reported(n)' <=> Reported(n)
        BY <2>1 DEF Reported, InFile
    <2>3. ASSUME proxyFaults' = 0, NEW n \in 1..Len(rpc') PROVE Follows(n)'
        <3>1. CASE n = Len(rpc) + 1
            BY <2>1, <3>1 DEF Follows, ProxyBegun, MayWait
        <3>2. CASE n \in 1..Len(rpc)
            <4>1. Follows(n) /\ ProxyBegun(n) /\ MayWait(n) /\ rpc'[n] = rpc[n]
                BY <2>1, <2>3, <3>2 DEF Following, ProxyBegun, MayWait, Calls
            <4> QED
                BY <2>1, <2>2, <4>1 DEF Follows, InFile
        <3> QED
            BY <1>0, <2>1, <3>1, <3>2
    <2> QED
        BY <2>3 DEF Following, Calls
<1>2. CASE RecordPrescription
    <2>1. /\ line.call # 0 /\ line.step = 1 /\ line'.call = line.call /\ line'.step = 2
          /\ rpc' = rpc /\ pending' = pending /\ hand' = hand
        BY <1>0, <1>2, Stepping, Advances DEF RecordPrescription
    <2>2. [type |-> "prescribe", of |-> line.call, exit |-> "zero"] \in FileEntry
        BY <1>0 DEF Code, FileEntry
    <2>3. /\ \A t, n : InFile(t, n) => InFile(t, n)'
          /\ proxyFaults' = 0 => /\ proxyFaults = 0
                                 /\ \A n : n = line.call /\ Tracked(rpc[n].kind)
                                           => InFile("prescribe", n)'
        <3>1. CASE file' = file /\ proxyFaults' = proxyFaults /\ ~Tracked(rpc[line.call].kind)
            BY <3>1 DEF InFile
        <3>2. CASE Write([type |-> "prescribe", of |-> line.call, exit |-> "zero"])
            <4>1. /\ \A t, n : InFile(t, n) => InFile(t, n)'
                  /\ proxyFaults' = 0 =>
                        /\ proxyFaults = 0
                        /\ file' = Append(file, [type |-> "prescribe", of |-> line.call,
                                                 exit |-> "zero"])
                BY <1>0, <2>2, <3>2, Writes DEF ProxyTypes
            <4>2. ASSUME proxyFaults' = 0, NEW n, n = line.call PROVE InFile("prescribe", n)'
                <5>1. /\ Len(file) + 1 \in 1..Len(file')
                      /\ file'[Len(file) + 1]
                            = [type |-> "prescribe", of |-> line.call, exit |-> "zero"]
                    BY <4>1, <4>2 DEF ProxyTypes
                <5> QED
                    BY <4>2, <5>1 DEF InFile
            <4> QED
                BY <4>1, <4>2
        <3> QED
            BY <1>2, <3>1, <3>2 DEF RecordPrescription
    <2>4. ASSUME proxyFaults' = 0, NEW n \in Calls PROVE Follows(n)'
        <3>1. Follows(n) /\ (MayWait(n)' => MayWait(n)) /\ (ProxyBegun(n)' => ProxyBegun(n) \/ n = line.call)
            BY <2>1, <2>3, <2>4 DEF Following, MayWait, ProxyBegun, Calls
        <3> QED
            BY <2>1, <2>3, <2>4, <3>1 DEF Follows, Reported
    <2> QED
        BY <2>1, <2>4 DEF Following, Calls
<1>3. CASE Track
    <2>1. /\ line.call # 0 /\ line.step = 2 /\ line'.call = line.call /\ line'.step = 3
          /\ rpc' = rpc /\ file' = file /\ hand' = hand /\ proxyFaults' = proxyFaults
        BY <1>0, <1>3, Stepping, Advances DEF Track, proxyHistory
    <2>2. line.call \in Calls /\ line.call \notin got /\ rpc[line.call].id \in RpcIds
        <3>1. line.call \in 1..Len(rpc) /\ rpc \in Seq(Call)
            BY <1>0, <2>1 DEF Reading, ProxyTypes
        <3>2. rpc[line.call] \in Call
            BY <3>1
        <3> QED
            BY <3>1, <3>2 DEF Calls, Call, Places, Done, Sent
    <2>3. ASSUME proxyFaults' = 0, NEW n \in Calls PROVE Follows(n)'
        <3>1. Follows(n) /\ (ProxyBegun(n)' => ProxyBegun(n)) /\ (InFile("prescribe", n) => InFile("prescribe", n)')
            BY <2>1, <2>3 DEF Following, ProxyBegun, Calls, InFile
        <3>2. CASE n = line.call
            <4>1. Tracked(rpc[n].kind) => pending'[rpc[n].id] = n
                BY <1>3, <2>2, <3>2 DEF Track, ProxyTypes
            <4> QED
                BY <2>1, <3>1, <4>1 DEF Follows
        <3>3. CASE n # line.call
            <4>1. MayWait(n)
                BY <3>3 DEF MayWait
            <4>2. Reported(n) => Reported(n)'
                BY <2>1 DEF Reported, InFile
            <4>3. pending[rpc[n].id] = n => pending'[rpc[n].id] = n
                <5>1. ASSUME pending[rpc[n].id] = n, pending'[rpc[n].id] # n PROVE FALSE
                    <6>1. /\ rpc[n].id = rpc[line.call].id
                        BY <1>3, <2>2, <5>1 DEF Track, ProxyTypes
                    <6>2. n \notin got
                        BY <1>f, <2>2, <5>1, <6>1 DEF Waiting, Pends
                    <6> QED
                        BY <2>2, <3>3, <6>1, <6>2 DEF IdsDiffer
                <5> QED
                    BY <5>1
            <4> QED
                BY <2>1, <3>1, <4>1, <4>2, <4>3 DEF Follows
        <3> QED
            BY <3>2, <3>3
    <2> QED
        BY <2>1, <2>3 DEF Following, Calls
<1>4. CASE ForwardCall
    <2>1. /\ line.step = 3 /\ rpc' = rpc /\ pending' = pending /\ hand' = hand /\ file' = file
          /\ proxyFaults' = proxyFaults
        BY <1>0, <1>4, Stepping DEF ForwardCall
    <2>2. \A n \in Calls : MayWait(n) /\ ProxyBegun(n)
        BY <2>1 DEF MayWait, ProxyBegun
    <2> QED
        BY <2>1, <2>2 DEF Following, Follows, Calls, Reported, InFile
<1>5. CASE ForwardFails \/ UpstreamDies
    BY <1>0, <1>5 DEF ForwardFails, UpstreamDies, Following
<1>6. CASE ReadResponse
    <2>1. /\ out \in Seq(Message) /\ out # <<>> /\ Len(out) \in Nat
        BY <1>6 DEF ReadResponse, ProxyTypes
    <2>2. Head(out) \in Message
        BY <2>1
    <2>3. PICK i \in RpcIds :
             /\ hand.pc = "read" /\ pending' = [pending EXCEPT ![i] = 0]
             /\ hand'.pc = IF pending[i] # 0 THEN "report" ELSE "deliver"
             /\ hand'.of = pending[i]
             /\ rpc' = rpc /\ line' = line /\ file' = file /\ proxyFaults' = proxyFaults
        BY <1>6, <2>2 DEF ReadResponse, Matched, Message
    <2>4. ASSUME proxyFaults' = 0, NEW n \in Calls PROVE Follows(n)'
        <3>1. /\ Follows(n) /\ (ProxyBegun(n)' <=> ProxyBegun(n)) /\ (MayWait(n)' <=> MayWait(n))
              /\ \A t : InFile(t, n)' <=> InFile(t, n)
            BY <2>3, <2>4 DEF Following, ProxyBegun, MayWait, Calls, InFile
        <3>2. pending[rpc[n].id] = n =>
                 \/ pending'[rpc[n].id] = n
                 \/ hand'.pc = "report" /\ hand'.of = n
            BY <1>f, <2>3 DEF ProxyTypes
        <3> QED
            BY <2>3, <3>1, <3>2 DEF Follows, Reported
    <2> QED
        BY <2>3, <2>4 DEF Following, Calls
<1>7. CASE RecordReport
    <2>1. /\ hand.pc = "report" /\ hand'.pc = "deliver"
          /\ rpc' = rpc /\ pending' = pending /\ line' = line
        BY <1>0, <1>7 DEF RecordReport, Hand
    <2>2. [type |-> "report", of |-> hand.of, exit |-> hand.exit] \in FileEntry
        BY <1>0 DEF FileEntry, Hand
    <2>3. /\ \A t, n : InFile(t, n) => InFile(t, n)'
          /\ proxyFaults' = 0 =>
                /\ proxyFaults = 0
                /\ file' = Append(file, [type |-> "report", of |-> hand.of, exit |-> hand.exit])
        BY <1>7, <2>2, Writes DEF RecordReport, ProxyTypes
    <2>4. ASSUME proxyFaults' = 0, NEW n, n = hand.of PROVE Reported(n)'
        <3>1. /\ Len(file) + 1 \in 1..Len(file')
              /\ file'[Len(file) + 1] = [type |-> "report", of |-> hand.of, exit |-> hand.exit]
            BY <2>3, <2>4 DEF ProxyTypes
        <3> QED
            BY <2>4, <3>1 DEF Reported, InFile
    <2>5. ASSUME proxyFaults' = 0, NEW n \in Calls PROVE Follows(n)'
        <3>1. Follows(n) /\ (ProxyBegun(n)' <=> ProxyBegun(n)) /\ (MayWait(n)' <=> MayWait(n))
            BY <2>1, <2>3, <2>5 DEF Following, ProxyBegun, MayWait, Calls
        <3> QED
            BY <2>1, <2>3, <2>4, <2>5, <3>1 DEF Follows, Reported
    <2> QED
        BY <2>1, <2>5 DEF Following, Calls
<1>8. CASE (\E id \in RpcIds : AskClient(id)) \/ (\E n \in working, a \in Answers : AnswerCall(n, a))
    BY <1>8, FollowingStays DEF AskClient, AnswerCall, Calls, InFile
<1>9. CASE Deliver
    BY <1>9, FollowingStays DEF Deliver, Calls, InFile
<1>10. CASE UNCHANGED proxyVars
    BY <1>10, FollowingStays DEF proxyVars, Calls, InFile
<1> QED
    BY <1>1, <1>2, <1>3, <1>4, <1>5, <1>6, <1>7, <1>8, <1>9, <1>10 DEF ProxyNext

-----------------------------------------------------------------------------
(* Theorem                                                                  *)

LEMMA InitProxy == ProxyInit => ProxyInv
<1> SUFFICES ASSUME ProxyInit PROVE ProxyInv
    OBVIOUS
<1>1. ProxyTypes /\ Reading
    BY InitProxyTypes, Lines DEF ProxyInit, Reading
<1>2. /\ working = {} /\ out = <<>> /\ got = {} /\ answered = {} /\ rpc = <<>> /\ file = <<>>
      /\ hand.call = 0 /\ hand.pc = "read" /\ \A i \in RpcIds : pending[i] = 0
    BY DEF ProxyInit, NoHand
<1>3. Places
    BY <1>2 DEF Places, AtWork, OutOK, InHand, Done
<1>4. IdsDiffer /\ Following /\ OwnOutcomes
    BY <1>2 DEF IdsDiffer, Following, OwnOutcomes, Calls
<1>5. Waiting
    BY <1>2 DEF Waiting, Pends, Holds, Reported, InFile
<1> QED
    BY <1>1, <1>3, <1>4, <1>5 DEF ProxyInv

\* A call that upstream works on, has answered, or whose answer the client has,
\* is in the file as far as it should be.
LEMMA Tracking == ProxyInv => MutationsTracked
<1> SUFFICES ASSUME ProxyInv, proxyFaults = 0, NEW n \in Calls, Tracked(rpc[n].kind)
             PROVE  /\ n \in working \cup {r.call : r \in answered} => InFile("prescribe", n)
                    /\ n \in got => InFile("report", n)
    BY DEF MutationsTracked
<1>1. Follows(n)
    BY DEF ProxyInv, Following
<1>2. n \in working \cup {r.call : r \in answered} => ProxyBegun(n)
    BY DEF ProxyInv, Places, AtWork, Done, Sent, ProxyBegun
<1>3. ASSUME n \in got PROVE InFile("report", n)
    <2>1. MayWait(n) /\ n # 0
        BY <1>3 DEF ProxyInv, ProxyTypes, Places, Done, Sent, MayWait, Calls
    <2>2. rpc[n].id \in RpcIds
        <3>1. n \in 1..Len(rpc) /\ rpc \in Seq(Call)
            BY DEF Calls, ProxyInv, ProxyTypes
        <3>2. rpc[n] \in Call
            BY <3>1
        <3> QED
            BY <3>2 DEF Call
    <2>3. pending[rpc[n].id] # n
        BY <1>3, <2>1, <2>2 DEF ProxyInv, Waiting, Pends
    <2>4. ~(hand.pc = "report" /\ hand.of = n)
        BY <1>3 DEF ProxyInv, Waiting, Holds
    <2> QED
        BY <1>1, <2>1, <2>3, <2>4 DEF Follows, Reported
<1> QED
    BY <1>1, <1>2, <1>3 DEF Follows

\* The evidence of a proxied session: a mutation is prescribed before upstream
\* has it and reported before the client has its answer, once and with its own
\* exit code, whatever the order of answers and requests.
THEOREM RelaysAreSound == BinarySpec => []RelaysSound
<1>1. BinaryInit => ProxyInv
    BY InitProxy DEF BinaryInit
<1>2. ProxyInv /\ [BinaryNext]_<<vars, proxyVars, proxying>> => ProxyInv'
    <2> SUFFICES ASSUME ProxyInv, [BinaryNext]_<<vars, proxyVars, proxying>> PROVE ProxyInv'
        OBVIOUS
    <2>1. [ProxyNext]_proxyVars
        BY DEF BinaryNext
    <2>2. ProxyTypes /\ Reading /\ Places /\ IdsDiffer /\ Waiting /\ Following /\ OwnOutcomes
        BY DEF ProxyInv
    <2> QED
        BY <2>1, <2>2, NextProxyTypes, NextReading, NextPlaces, NextIdsDiffer, NextWaiting,
           NextFollowing, NextOutcomes DEF ProxyInv
<1>3. ProxyInv => RelaysSound
    BY Tracking DEF ProxyInv, RelaysSound
<1> QED
    BY <1>1, <1>2, <1>3, PTL DEF BinarySpec

=============================================================================
