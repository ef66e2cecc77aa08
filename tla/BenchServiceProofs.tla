------------------------- MODULE BenchServiceProofs -------------------------
(***************************************************************************)
(* Theorems about the benchmark service: about the job that a trigger runs  *)
(* (BenchTrigger) for any number of scenarios, streams and repeated         *)
(* callbacks and channels of any capacity, and about the queue of jobs      *)
(* (BenchRunners) for any number of runners, jobs, scenarios and claims.    *)
(***************************************************************************)
EXTENDS BenchTrigger, BenchRunners, FiniteSetTheorems, WellFoundedInduction, TLAPS

\* What TriggerStore.Update makes of a job.
LEMMA UpdatedJob ==
    ASSUME job \in Job, NEW u \in Update
    PROVE  /\ Updated(u) \in Job
           /\ Updated(u).completed = u.completed
           /\ Updated(u).status \in Final <=> u.completed = Total
           /\ Updated(u).status # "none"
           /\ Updated(u).status = "completed" => Updated(u).failed = 0
           /\ Updated(u).passed = job.passed + (IF u.status = "passed" THEN 1 ELSE 0)
           /\ Updated(u).failed =
                 job.failed + (IF u.status \in {"failed", "error"} THEN 1 ELSE 0)
           /\ Updated(u).progress =
                 IF u.scenario \in Scenario THEN [job.progress EXCEPT ![u.scenario] = u.status]
                 ELSE job.progress
<1> DEFINE j == IF u.scenario \in Scenario
                THEN [job EXCEPT !.progress[u.scenario] = u.status] ELSE job
           k == Counted(j, u)
<1> USE TriggerAssumption
<1>1. /\ j \in Job /\ j.passed = job.passed /\ j.failed = job.failed
      /\ j.progress = IF u.scenario \in Scenario
                      THEN [job.progress EXCEPT ![u.scenario] = u.status] ELSE job.progress
    BY DEF Job, Update
<1> HIDE DEF j
<1>2. u.completed \in 0..Total /\ u.status \in {"running", "error", "passed", "failed"}
    BY DEF Update, Outcome
<1>3. /\ k \in Job /\ k.progress = j.progress
      /\ k.passed = j.passed + (IF u.status = "passed" THEN 1 ELSE 0)
      /\ k.failed = j.failed + (IF u.status \in {"failed", "error"} THEN 1 ELSE 0)
    BY <1>1, <1>2 DEF Counted, Job
<1>4. Updated(u) = [k EXCEPT !.completed = u.completed,
                             !.status = IF ~DoneWith(u) THEN "running"
                                        ELSE IF k.failed > 0 THEN "failed" ELSE "completed"]
    BY DEF Updated, j
<1> HIDE DEF k
<1>5. DoneWith(u) <=> u.completed = Total
    BY <1>2 DEF DoneWith
<1>6. k.failed \in Nat
    BY <1>3 DEF Job
<1> DEFINE st == IF ~DoneWith(u) THEN "running"
                 ELSE IF k.failed > 0 THEN "failed" ELSE "completed"
<1>7. /\ st \in {"running", "failed", "completed"}
      /\ st \in Final <=> u.completed = Total
      /\ st = "completed" => k.failed = 0
    BY <1>5, <1>6 DEF Final
<1>8. Updated(u) = [k EXCEPT !.completed = u.completed, !.status = st]
    BY <1>4
<1> HIDE DEF st
<1>9. /\ Updated(u) \in Job /\ Updated(u).completed = u.completed /\ Updated(u).status = st
      /\ Updated(u).passed = k.passed /\ Updated(u).failed = k.failed
      /\ Updated(u).progress = k.progress
    BY <1>2, <1>3, <1>7, <1>8 DEF Job, Final
<1> QED
    BY <1>1, <1>3, <1>7, <1>9

-----------------------------------------------------------------------------
(* Types                                                                    *)

LEMMA NewJobs == NoJob \in Job /\ [NoJob EXCEPT !.status = "pending"] \in Job
<1>1. [i \in Scenario |-> "pending"]
         \in [Scenario -> {"pending", "running", "error"} \cup Outcome]
    OBVIOUS
<1>2. 0 \in 0..Total
    BY TriggerAssumption
<1> QED
    BY <1>1, <1>2 DEF NoJob, Job

LEMMA InitType == Init => TypeOK
<1> SUFFICES ASSUME Init PROVE TypeOK
    OBVIOUS
<1>1. 0 \in 0..Total /\ 0 \in 0..Repeats /\ Buffer \in Nat
    BY TriggerAssumption
<1>2. /\ buf \in [Streams -> Seq(Update)] /\ \A s \in Streams : Len(buf[s]) <= Buffer
      /\ net \in Seq(Update)
    BY <1>1 DEF Init
<1>3. job \in Job /\ work \in [at: 0..Total, on: BOOLEAN] /\ repeats \in 0..Repeats
    BY <1>1, NewJobs DEF Init
<1> QED
    BY <1>2, <1>3 DEF Init, TypeOK

LEMMA UpdateType ==
    ASSUME TypeOK, NEW u \in Update, StoreUpdate(u)
    PROVE  /\ job' \in Job /\ subs' \subseteq Streams /\ closed' \subseteq Streams
           /\ buf' \in [Streams -> Seq(Update)]
           /\ \A s \in Streams : Len(buf'[s]) <= Buffer
           /\ pc' = pc /\ seen' = seen /\ said' = said
<1>1. job' \in Job /\ pc' = pc /\ seen' = seen /\ said' = said
    BY UpdatedJob DEF StoreUpdate, TypeOK
<1>2. subs' \subseteq Streams /\ closed' \subseteq Streams
    BY DEF StoreUpdate, Notify, TypeOK
<1>3. buf' = [s \in Streams |-> IF s \in subs /\ Len(buf[s]) < Buffer
                                THEN Append(buf[s], u) ELSE buf[s]]
    BY DEF StoreUpdate, Notify
<1>4. ASSUME NEW s \in Streams PROVE buf'[s] \in Seq(Update) /\ Len(buf'[s]) <= Buffer
    <2>1. buf[s] \in Seq(Update) /\ Len(buf[s]) <= Buffer
        BY DEF TypeOK
    <2>2. CASE s \in subs /\ Len(buf[s]) < Buffer
        BY <1>3, <2>1, <2>2, TriggerAssumption
    <2>3. CASE ~(s \in subs /\ Len(buf[s]) < Buffer)
        BY <1>3, <2>1, <2>3
    <2> QED
        BY <2>2, <2>3
<1> QED
    BY <1>1, <1>2, <1>3, <1>4

\* What the executor says when a scenario starts or ends.
LEMMA Reports ==
    ASSUME TypeOK
    PROVE  /\ (work.at < Total /\ ~work.on) => Running \in Update
           /\ \A outcome \in Outcome : work.on => Ended(outcome) \in Update
BY TriggerAssumption DEF TypeOK, Running, Ended, Update, Outcome

LEMMA Reported ==
    ASSUME NEW u, Report(u)
    PROVE  /\ remote => net' = Append(net, u) /\ UNCHANGED <<job, stream>>
           /\ ~remote => StoreUpdate(u) /\ UNCHANGED net
BY Zenon DEF Report

LEMMA NextType == TypeOK /\ [Next]_vars => TypeOK'
<1> SUFFICES ASSUME TypeOK, [Next]_vars PROVE TypeOK'
    OBVIOUS
<1> USE TriggerAssumption
<1>1. CASE Create
    BY <1>1, NewJobs DEF Create, stream, TypeOK
<1>2. CASE StartScenario
    <2>1. Running \in Update /\ [at |-> work.at + 1, on |-> TRUE] \in [at: 0..Total, on: BOOLEAN]
        BY <1>2, Reports DEF StartScenario, TypeOK
    <2>2. CASE remote
        <3>1. net' \in Seq(Update)
            <4>1. net' = Append(net, Running)
                BY <1>2, <2>2, Reported, Zenon DEF StartScenario
            <4> QED
                BY <2>1, <4>1 DEF TypeOK
        <3>2. UNCHANGED <<remote, crashed, start, repeats, job, subs, buf, closed, pc, seen, said>>
            BY <1>2, <2>2 DEF StartScenario, Report, stream
        <3>3. work' \in [at: 0..Total, on: BOOLEAN]
            BY <1>2, <2>1 DEF StartScenario
        <3> QED
            BY <3>1, <3>2, <3>3 DEF TypeOK
    <2>3. CASE ~remote
        BY <1>2, <2>1, <2>3, UpdateType DEF StartScenario, Report, TypeOK
    <2> QED
        BY <2>2, <2>3
<1>3. CASE EndScenario
    <2>1. PICK outcome \in Outcome : Report(Ended(outcome))
        BY <1>3 DEF EndScenario
    <2>2. Ended(outcome) \in Update /\ work' \in [at: 0..Total, on: BOOLEAN]
        BY <1>3, Reports DEF EndScenario, TypeOK
    <2>3. CASE remote
        <3>1. net' \in Seq(Update)
            <4>1. net' = Append(net, Ended(outcome))
                BY <2>1, <2>3, Reported, Zenon
            <4> QED
                BY <2>2, <4>1 DEF TypeOK
        <3>2. UNCHANGED <<remote, crashed, start, repeats, job, subs, buf, closed, pc, seen, said>>
            BY <1>3, <2>1, <2>3 DEF EndScenario, Report, stream
        <3> QED
            BY <2>2, <3>1, <3>2 DEF TypeOK
    <2>4. CASE ~remote
        BY <1>3, <2>1, <2>2, <2>4, UpdateType DEF EndScenario, Report, TypeOK
    <2> QED
        BY <2>3, <2>4
<1>4. CASE Deliver
    BY <1>4, UpdateType DEF Deliver, TypeOK
<1>5. CASE Repeat
    BY <1>5, UpdateType DEF Repeat, TypeOK
<1>6. CASE StartReturns
    BY <1>6 DEF StartReturns, stream, TypeOK
<1>7. CASE StartFails
    <2>1. [scenario |-> 0, status |-> "error", completed |-> Total] \in Update
        BY DEF Update
    <2> QED
        BY <1>7, <2>1, UpdateType DEF StartFails, TypeOK
<1>8. CASE ExecutorCrash
    BY <1>8 DEF ExecutorCrash, stream, TypeOK
<1>9. ASSUME NEW s \in Streams, Streaming(s) PROVE TypeOK'
    <2>1. CASE Get(s)
        BY <2>1 DEF Get, Goto, Job, TypeOK
    <2>2. CASE SendStatus(s)
        <3>1. said' \subseteq Streams
            BY <2>2 DEF SendStatus, TypeOK
        <3>2. pc' \in [Streams -> {"new", "got", "gap", "loop", "check", "end", "gone"}]
            BY <2>2 DEF SendStatus, Goto, TypeOK
        <3> QED
            BY <2>2, <3>1, <3>2 DEF SendStatus, TypeOK
    <2>3. CASE Subscribe(s)
        BY <2>3 DEF Subscribe, Goto, TypeOK
    <2>4. CASE Receive(s)
        BY <2>4 DEF Receive, Goto, TypeOK
    <2>5. CASE CheckDone(s)
        <3>1. said' \subseteq Streams /\ subs' \subseteq Streams
            BY <2>5 DEF CheckDone, TypeOK
        <3>2. pc' \in [Streams -> {"new", "got", "gap", "loop", "check", "end", "gone"}]
            BY <2>5 DEF CheckDone, Goto, TypeOK
        <3>3. seen' \in [Streams -> {"none", "pending", "running"} \cup Final]
            BY <2>5 DEF CheckDone, Job, TypeOK
        <3> QED
            BY <2>5, <3>1, <3>2, <3>3 DEF CheckDone, TypeOK
    <2>6. CASE ChannelClosed(s)
        BY <2>6 DEF ChannelClosed, Goto, TypeOK
    <2> QED
        BY <1>9, <2>1, <2>2, <2>3, <2>4, <2>5, <2>6 DEF Streaming
<1>10. ASSUME NEW s \in Streams, Leave(s) PROVE TypeOK'
    BY <1>10 DEF Leave, Goto, TypeOK
<1>11. CASE UNCHANGED vars
    BY <1>11 DEF vars, stream, TypeOK
<1> QED
    BY <1>1, <1>2, <1>3, <1>4, <1>5, <1>6, <1>7, <1>8, <1>9, <1>10, <1>11 DEF Next, Executing

-----------------------------------------------------------------------------
(* A job that is done stays done                                            *)

InTime == start \notin {"refused", "timeout"}

\* The scenarios whose end has been reported.
Sent == IF work.on THEN work.at - 1 ELSE work.at

\* Callbacks come in the order in which the scenarios end.
Ordered ==
    /\ job.completed <= Sent
    /\ \A m \in 1..Len(net) : job.completed <= net[m].completed /\ net[m].completed <= Sent
    /\ \A m, n \in 1..Len(net) : m <= n => net[m].completed <= net[n].completed

Progressing ==
    /\ work.at = 0 => net = <<>> /\ ~work.on
    /\ ~remote => net = <<>>
    /\ Terminal => job.completed = Total
    /\ job.status = "none" => start = "new"
    /\ start = "refused" => work.at = 0
    /\ InTime => Ordered

\* A callback about the last scenario joins those on their way.
LEMMA OrderedSend ==
    ASSUME TypeOK, Ordered, NEW m \in Update, net' = Append(net, m), job' = job,
           Sent \in Nat, Sent' \in Nat, Sent <= Sent', m.completed = Sent'
    PROVE  Ordered'
<1>1. /\ net \in Seq(Update) /\ Len(net) \in Nat /\ Len(net') = Len(net) + 1
      /\ net'[Len(net) + 1] = m /\ \A i \in 1..Len(net) : net'[i] = net[i]
    BY DEF TypeOK
<1>2. \A i \in 1..Len(net) : net[i].completed \in Nat /\ net[i].completed <= Sent
    <2>1. \A u \in Update : u.completed \in Nat
        BY TriggerAssumption DEF Update
    <2>2. \A i \in 1..Len(net) : net[i] \in Update
        BY <1>1
    <2> QED
        BY <2>1, <2>2 DEF Ordered
<1>3. job.completed \in Nat /\ job.completed <= Sent
    BY TriggerAssumption DEF TypeOK, Job, Ordered
<1>4. ASSUME NEW i \in 1..Len(net')
      PROVE  job'.completed <= net'[i].completed /\ net'[i].completed <= Sent'
    <2>1. CASE i \in 1..Len(net)
        BY <1>1, <1>2, <1>3, <2>1 DEF Ordered
    <2>2. CASE i = Len(net) + 1
        BY <1>1, <1>3, <2>2
    <2> QED
        BY <1>1, <2>1, <2>2
<1>5. ASSUME NEW i \in 1..Len(net'), NEW k \in 1..Len(net'), i <= k
      PROVE  net'[i].completed <= net'[k].completed
    <2>1. CASE k \in 1..Len(net)
        BY <1>1, <1>5, <2>1 DEF Ordered
    <2>2. CASE k = Len(net) + 1
        BY <1>1, <1>4, <2>2
    <2> QED
        BY <1>1, <2>1, <2>2
<1> QED
    BY <1>3, <1>4, <1>5 DEF Ordered

LEMMA InitProgressing == Init => Progressing
BY DEF Init, Progressing, Terminal, NoJob, Final, InTime, Ordered, Sent

\* An update sets the job's progress, and ends it when all scenarios are.
LEMMA UpdateProgress ==
    ASSUME TypeOK, NEW u \in Update, StoreUpdate(u)
    PROVE  /\ job'.completed = u.completed /\ (Terminal' <=> u.completed = Total)
           /\ job'.status # "none"
BY UpdatedJob DEF StoreUpdate, TypeOK, Terminal

LEMMA NextProgressing == TypeOK /\ Progressing /\ [Next]_vars => Progressing'
<1> SUFFICES ASSUME TypeOK, Progressing, [Next]_vars PROVE Progressing'
    OBVIOUS
<1> USE TriggerAssumption
<1>1. /\ net \in Seq(Update) /\ work.at \in 0..Total /\ work.on \in BOOLEAN
      /\ job.completed \in 0..Total /\ Total \in Nat \ {0}
      /\ \A m \in 1..Len(net) : net[m] \in Update /\ net[m].completed \in 0..Total
    <2>1. net \in Seq(Update) /\ \A u \in Update : u.completed \in 0..Total
        BY DEF TypeOK, Update
    <2>2. /\ work.at \in 0..Total /\ work.on \in BOOLEAN
          /\ job.completed \in 0..Total
        BY DEF TypeOK, Job
    <2> QED
        BY <2>1, <2>2
<1>2. CASE Create
    <2>1. job'.completed = 0 /\ job'.status = "pending" /\ InTime
        BY <1>2 DEF Create, NoJob, Progressing, InTime
    <2>2. 0 <= Sent /\ Sent' = Sent
        BY <1>1, <1>2 DEF Create, Sent, Progressing
    <2> QED
        BY <1>1, <1>2, <2>1, <2>2
           DEF Create, Progressing, Terminal, Final, InTime, Ordered
<1>3. CASE StartScenario
    <2>1. /\ (start # "refused" /\ start # "new") \/ work.at > 0
          /\ Running \in Update /\ Running.completed = work.at
          /\ work'.at = work.at + 1 /\ work'.on /\ ~work.on /\ start' = start /\ remote' = remote
        BY <1>1, <1>3, Reports DEF StartScenario, Progressing, Running
    <2>2. Sent' = Sent /\ Sent = work.at
        BY <1>1, <2>1 DEF Sent
    <2>3. CASE remote
        <3>1. net' = Append(net, Running) /\ job' = job
            BY <1>3, <2>3, Reported, Zenon DEF StartScenario
        <3>2. Sent \in Nat /\ Sent <= Sent' /\ Running.completed = Sent'
            BY <1>1, <2>1, <2>2 DEF TypeOK
        <3>3. InTime' => Ordered'
            BY <1>1, <2>1, <3>1, <3>2, OrderedSend DEF Progressing, InTime
        <3> QED
            BY <1>1, <2>1, <2>3, <3>1, <3>3 DEF Progressing, Terminal
    <2>4. CASE ~remote
        <3>1. StoreUpdate(Running) /\ net' = net
            BY <1>3, <2>4, Reported, Zenon DEF StartScenario
        <3>2. job'.completed = work.at /\ (Terminal' <=> work.at = Total) /\ job'.status # "none"
            BY <2>1, <3>1, UpdateProgress
        <3> QED
            BY <1>1, <2>1, <2>2, <2>4, <3>1, <3>2 DEF Progressing, InTime, Ordered
    <2> QED
        BY <2>3, <2>4
<1>4. CASE EndScenario
    <2>1. PICK outcome \in Outcome : Report(Ended(outcome))
        BY <1>4 DEF EndScenario
    <2>2. /\ Ended(outcome) \in Update /\ Ended(outcome).completed = work.at
          /\ work'.at = work.at /\ ~work'.on /\ work.on /\ start' = start /\ remote' = remote
          /\ work.at > 0
        BY <1>1, <1>4, Reports DEF EndScenario, Progressing, Ended, TypeOK
    <2>3. Sent' = work.at /\ Sent = work.at - 1
        BY <1>1, <2>2 DEF Sent
    <2>4. CASE remote
        <3>1. net' = Append(net, Ended(outcome)) /\ job' = job
            BY <2>1, <2>4, Reported, Zenon
        <3>2. Sent \in Nat /\ Sent' \in Nat /\ Sent <= Sent' /\ Ended(outcome).completed = Sent'
            BY <1>1, <2>2, <2>3 DEF TypeOK
        <3>3. InTime' => Ordered'
            BY <1>1, <2>2, <3>1, <3>2, OrderedSend DEF Progressing, InTime
        <3> QED
            BY <1>1, <2>2, <2>4, <3>1, <3>3 DEF Progressing, Terminal
    <2>5. CASE ~remote
        <3>1. StoreUpdate(Ended(outcome)) /\ net' = net
            BY <2>1, <2>5, Reported, Zenon
        <3>2. job'.completed = work.at /\ (Terminal' <=> work.at = Total) /\ job'.status # "none"
            BY <2>2, <3>1, UpdateProgress
        <3> QED
            BY <1>1, <2>2, <2>3, <2>5, <3>1, <3>2 DEF Progressing, InTime, Ordered
    <2> QED
        BY <2>4, <2>5
<1>5. CASE Deliver
    <2>1. /\ net # <<>> /\ Head(net) = net[1] /\ 1 \in 1..Len(net) /\ StoreUpdate(net[1])
          /\ net' = Tail(net) /\ work' = work /\ start' = start /\ remote' = remote
        BY <1>1, <1>5 DEF Deliver
    <2>2. \A m \in 1..Len(net') : m+1 \in 1..Len(net) /\ net'[m] = net[m+1]
        BY <1>1, <2>1
    <2>3. /\ job'.completed = net[1].completed /\ (Terminal' <=> net[1].completed = Total)
          /\ job'.status # "none"
        BY <1>1, <2>1, UpdateProgress
    <2>4. Sent' = Sent
        BY <2>1 DEF Sent
    <2>5. InTime' => Ordered'
        <3> SUFFICES ASSUME InTime' PROVE Ordered'
            OBVIOUS
        <3>1. Ordered
            BY <1>1, <2>1 DEF Progressing, InTime
        <3>2. \A m, n \in 1..Len(net') : 1 <= m + 1 /\ (m <= n => m + 1 <= n + 1)
            OBVIOUS
        <3>3. job'.completed <= Sent'
            BY <2>1, <2>3, <2>4, <3>1 DEF Ordered
        <3>4. \A m \in 1..Len(net') : /\ job'.completed <= net'[m].completed
                                      /\ net'[m].completed <= Sent'
            BY <2>1, <2>2, <2>3, <2>4, <3>1, <3>2 DEF Ordered
        <3>5. \A m, n \in 1..Len(net') : m <= n => net'[m].completed <= net'[n].completed
            BY <2>2, <3>1, <3>2 DEF Ordered
        <3> QED
            BY <3>3, <3>4, <3>5 DEF Ordered
    <2> QED
        BY <1>1, <2>1, <2>3, <2>5 DEF Progressing
<1>6. CASE Repeat
    <2>1. /\ net # <<>> /\ Head(net) = net[1] /\ 1 \in 1..Len(net) /\ StoreUpdate(net[1])
          /\ net' = net /\ work' = work /\ start' = start /\ remote' = remote
        BY <1>1, <1>6 DEF Repeat
    <2>2. /\ job'.completed = net[1].completed /\ (Terminal' <=> net[1].completed = Total)
          /\ job'.status # "none"
        BY <1>1, <2>1, UpdateProgress
    <2>3. Sent' = Sent
        BY <2>1 DEF Sent
    <2>4. InTime' => Ordered'
        BY <1>1, <2>1, <2>2, <2>3 DEF Progressing, InTime, Ordered
    <2> QED
        BY <1>1, <2>1, <2>2, <2>4 DEF Progressing
<1>7. CASE StartReturns
    BY <1>7 DEF StartReturns, Progressing, Terminal, InTime, Ordered, Sent
<1>8. CASE StartFails
    <2>1. [scenario |-> 0, status |-> "error", completed |-> Total] \in Update
        BY DEF Update
    <2>2. job'.completed = Total /\ job'.status # "none"
        BY <1>8, <2>1, UpdateProgress DEF StartFails
    <2> QED
        BY <1>8, <2>2 DEF StartFails, Progressing, InTime
<1>9. CASE ExecutorCrash
    <2>1. /\ work'.at = Total /\ ~work'.on /\ work.at > 0 /\ job' = job /\ net' = net
          /\ start' = start /\ remote' = remote
        BY <1>9 DEF ExecutorCrash, stream
    <2>2. Sent' = Total /\ Sent <= Total /\ Sent \in Nat
        BY <1>1, <2>1 DEF Sent
    <2> QED
        BY <1>1, <2>1, <2>2 DEF Progressing, InTime, Ordered, Terminal
<1>10. ASSUME UNCHANGED <<remote, job, start, work, net>> PROVE Progressing'
    BY <1>10 DEF Progressing, Terminal, InTime, Ordered, Sent
<1>11. ASSUME NEW s \in Streams, Streaming(s) \/ Leave(s) PROVE Progressing'
    BY <1>10, <1>11 DEF Streaming, Get, SendStatus, Subscribe, Receive, CheckDone,
                        ChannelClosed, Leave
<1>12. CASE UNCHANGED vars
    BY <1>10, <1>12 DEF vars
<1> QED
    BY <1>2, <1>3, <1>4, <1>5, <1>6, <1>7, <1>8, <1>9, <1>11, <1>12 DEF Next, Executing

\* Unless its start has timed out, no late callback revives a job.
LEMMA DoneStays ==
    ASSUME TypeOK, Progressing, [Next]_vars, Terminal, start' # "timeout"
    PROVE  Terminal'
<1> USE TriggerAssumption
<1>1. /\ net \in Seq(Update) /\ work.at \in 0..Total /\ work.on \in BOOLEAN
      /\ Total \in Nat \ {0} /\ job.completed = Total
      /\ \A m \in 1..Len(net) : net[m] \in Update /\ net[m].completed \in 0..Total
    <2>1. net \in Seq(Update) /\ \A u \in Update : u.completed \in 0..Total
        BY DEF TypeOK, Update
    <2>2. work.at \in 0..Total /\ work.on \in BOOLEAN /\ job.completed = Total
        BY DEF TypeOK, Progressing
    <2> QED
        BY <2>1, <2>2
<1>2. CASE Create
    BY <1>2 DEF Create, Terminal, Final
<1>3. CASE StartScenario \/ EndScenario
    <2>1. start' = start /\ start # "timeout"
        BY <1>3 DEF StartScenario, EndScenario
    <2>2. CASE InTime
        <3>1. Sent >= Total
            BY <1>1, <2>2 DEF Progressing, Ordered, Sent
        <3> QED
            BY <1>1, <1>3, <3>1 DEF StartScenario, EndScenario, Sent
    <2>3. CASE start = "refused"
        BY <1>3, <2>3 DEF StartScenario, EndScenario, Progressing
    <2> QED
        BY <2>1, <2>2, <2>3 DEF InTime
<1>4. CASE Deliver \/ Repeat
    <2>1. net # <<>> /\ StoreUpdate(net[1]) /\ 1 \in 1..Len(net) /\ start' = start
        BY <1>1, <1>4 DEF Deliver, Repeat
    <2>2. InTime
        BY <2>1 DEF Progressing, InTime
    <2>3. net[1].completed = Total
        BY <1>1, <2>1, <2>2 DEF Progressing, Ordered
    <2> QED
        BY <1>1, <2>1, <2>3, UpdateProgress
<1>5. CASE StartFails
    <2>1. [scenario |-> 0, status |-> "error", completed |-> Total] \in Update
        BY DEF Update
    <2> QED
        BY <1>5, <2>1, UpdateProgress DEF StartFails
<1>6. ASSUME job' = job PROVE Terminal'
    BY <1>6 DEF Terminal
<1>7. CASE StartReturns \/ ExecutorCrash
    BY <1>6, <1>7 DEF StartReturns, ExecutorCrash
<1>8. ASSUME NEW s \in Streams, Streaming(s) \/ Leave(s) PROVE Terminal'
    BY <1>6, <1>8 DEF Streaming, Get, SendStatus, Subscribe, Receive, CheckDone,
                      ChannelClosed, Leave
<1>9. CASE UNCHANGED vars
    BY <1>6, <1>9 DEF vars
<1> QED
    BY <1>2, <1>3, <1>4, <1>5, <1>7, <1>8, <1>9 DEF Next, Executing

-----------------------------------------------------------------------------
(* Streams                                                                  *)

\* A stream whose channel is closed has still an update to read.
Told(s) ==
    /\ s \in subs => pc[s] \in {"loop", "check"}
    /\ s \in closed => s \notin subs /\ pc[s] \in {"loop", "check", "end", "gone"}
    /\ start # "timeout" =>
          /\ s \in closed => Terminal
          /\ (s \in closed /\ pc[s] = "loop") => buf[s] # <<>>
          /\ pc[s] = "end" => s \in said

AllTold == \A s \in Streams : Told(s)

LEMMA InitTold == Init => AllTold
BY DEF Init, AllTold, Told

LEMMA UpdateTold ==
    ASSUME TypeOK, AllTold, NEW u \in Update, StoreUpdate(u),
           start' # "timeout" => start # "timeout",
           (Terminal /\ start' # "timeout") => Terminal'
    PROVE  AllTold'
<1> SUFFICES ASSUME NEW s \in Streams PROVE Told(s)'
    BY DEF AllTold
<1>1. pc' = pc /\ said' = said /\ Buffer \in Nat \ {0} /\ buf[s] \in Seq(Update)
    BY TriggerAssumption DEF StoreUpdate, TypeOK
<1>2. Updated(u).status \in Final <=> Terminal'
    BY DEF StoreUpdate, Terminal
<1>3. /\ subs' \subseteq subs /\ closed' \subseteq closed \cup subs
      /\ ~Terminal' => closed' = closed
      /\ closed' = closed \/ subs' = {}
    BY <1>2 DEF StoreUpdate, Notify
<1>4. buf'[s] = IF s \in subs /\ Len(buf[s]) < Buffer THEN Append(buf[s], u) ELSE buf[s]
    BY DEF StoreUpdate, Notify
<1>5. (buf[s] # <<>> \/ s \in subs) => buf'[s] # <<>>
    BY <1>1, <1>4
<1> QED
    BY <1>1, <1>3, <1>5 DEF AllTold, Told

LEMMA NextTold == TypeOK /\ Progressing /\ AllTold /\ [Next]_vars => AllTold'
<1> SUFFICES ASSUME TypeOK, Progressing, AllTold, [Next]_vars PROVE AllTold'
    OBVIOUS
<1>1. (Terminal /\ start' # "timeout") => Terminal'
    BY DoneStays
<1>2. ASSUME UNCHANGED stream, start' # "timeout" => start # "timeout" PROVE AllTold'
    BY <1>1, <1>2 DEF stream, AllTold, Told
<1>3. CASE Create
    BY <1>2, <1>3 DEF Create, Progressing
<1>4. CASE StartScenario
    <2>1. Running \in Update /\ start' = start
        BY <1>4, Reports DEF StartScenario
    <2>2. CASE remote
        BY <1>2, <1>4, <2>1, <2>2, Reported DEF StartScenario
    <2>3. CASE ~remote
        <3>1. StoreUpdate(Running)
            BY <1>4, <2>3, Reported, Zenon DEF StartScenario
        <3> QED
            BY <1>1, <2>1, <3>1, UpdateTold
    <2> QED
        BY <2>2, <2>3
<1>5. CASE EndScenario
    <2>1. PICK outcome \in Outcome : Report(Ended(outcome))
        BY <1>5 DEF EndScenario
    <2>2. Ended(outcome) \in Update /\ start' = start
        BY <1>5, Reports DEF EndScenario
    <2>3. CASE remote
        BY <1>2, <2>1, <2>2, <2>3, Reported
    <2>4. CASE ~remote
        <3>1. StoreUpdate(Ended(outcome))
            BY <2>1, <2>4, Reported, Zenon
        <3> QED
            BY <1>1, <2>2, <3>1, UpdateTold
    <2> QED
        BY <2>3, <2>4
<1>6. CASE Deliver \/ Repeat
    <2>1. Head(net) \in Update /\ StoreUpdate(Head(net)) /\ start' = start
        BY <1>6 DEF Deliver, Repeat, TypeOK
    <2> QED
        BY <1>1, <2>1, UpdateTold
<1>7. CASE StartFails
    <2>1. [scenario |-> 0, status |-> "error", completed |-> Total] \in Update
        BY TriggerAssumption DEF Update
    <2> QED
        BY <1>1, <1>7, <2>1, UpdateTold DEF StartFails
<1>8. CASE StartReturns \/ ExecutorCrash
    BY <1>2, <1>8 DEF StartReturns, ExecutorCrash
<1>9. ASSUME NEW s \in Streams, Streaming(s) \/ Leave(s) PROVE AllTold'
    <2>1. /\ start' = start /\ job' = job /\ pc' = [pc EXCEPT ![s] = pc'[s]]
          /\ closed' = closed /\ subs' \subseteq subs \cup {s} /\ said \subseteq said'
          /\ \A t \in Streams \ {s} : buf'[t] = buf[t]
        BY <1>9 DEF Streaming, Get, SendStatus, Subscribe, Receive, CheckDone,
                    ChannelClosed, Leave, Goto, TypeOK
    <2>2. ASSUME NEW t \in Streams \ {s} PROVE Told(t)'
        BY <2>1, <2>2 DEF AllTold, Told, Terminal, TypeOK
    <2>3. Told(s)'
        <3>1. CASE Get(s)
            BY <3>1 DEF Get, Goto, AllTold, Told, Terminal, TypeOK
        <3>2. CASE SendStatus(s)
            BY <3>2 DEF SendStatus, Goto, AllTold, Told, Terminal, TypeOK
        <3>3. CASE Subscribe(s)
            BY <3>3 DEF Subscribe, Goto, AllTold, Told, Terminal, TypeOK
        <3>4. CASE Receive(s)
            BY <3>4 DEF Receive, Goto, AllTold, Told, Terminal, TypeOK
        <3>5. CASE CheckDone(s)
            BY <3>5 DEF CheckDone, Goto, AllTold, Told, Terminal, TypeOK
        <3>6. CASE ChannelClosed(s)
            BY <3>6 DEF ChannelClosed, Goto, AllTold, Told, Terminal, TypeOK
        <3>7. CASE Leave(s)
            BY <3>7 DEF Leave, Goto, AllTold, Told, Terminal, TypeOK
        <3> QED
            BY <1>9, <3>1, <3>2, <3>3, <3>4, <3>5, <3>6, <3>7 DEF Streaming
    <2> QED
        BY <2>2, <2>3 DEF AllTold
<1>10. CASE UNCHANGED vars
    BY <1>2, <1>10 DEF vars
<1> QED
    BY <1>3, <1>4, <1>5, <1>6, <1>7, <1>8, <1>9, <1>10 DEF Next, Executing

-----------------------------------------------------------------------------
(* Counters                                                                 *)

\* Callbacks that are applied once, in time.
Regular == repeats = 0 /\ InTime

Passed == {i \in Scenario : job.progress[i] = "passed"}
Failed == {i \in Scenario : job.progress[i] = "failed"}

Agree ==
    /\ job.passed = Cardinality(Passed)
    /\ job.failed = Cardinality(Failed)
    /\ job.completed = job.passed + job.failed
    /\ Terminal <=> job.completed = Total
    /\ job.status = "completed" => job.failed = 0

\* The scenarios that have ended are the first ones.
FirstOnes == \A i \in Scenario : job.progress[i] \in Outcome <=> i <= job.completed

\* The updates of a job, numbered: scenario s starts with 2s-1 and ends with 2s.
Proper(u) ==
    /\ u \in Update /\ u.scenario \in Scenario
    /\ \/ u.status = "running" /\ u.completed = u.scenario - 1
       \/ u.status \in Outcome /\ u.completed = u.scenario
Number(u) == u.scenario + u.completed
Reached == IF work.on THEN 2 * work.at - 1 ELSE 2 * work.at
UpTo(k) == 2 * job.completed <= k /\ k <= 2 * job.completed + 1

\* What is on its way are the updates that follow the last one applied, up to
\* where the executor is.
Counting ==
    /\ FirstOnes /\ Agree
    /\ \A m \in 1..Len(net) : Proper(net[m])
    /\ \A m \in 1..Len(net)-1 : Number(net[m+1]) = Number(net[m]) + 1
    /\ net # <<>> => UpTo(Number(net[1]) - 1)
    /\ ~crashed => IF net = <<>> THEN UpTo(Reached) ELSE Number(net[Len(net)]) = Reached

Fresh ==
    /\ job.status = "none" => job = NoJob
    /\ crashed => work.at = Total /\ ~work.on

CountInv == Fresh /\ (Regular => Counting)

\* Applying the next update keeps the counters and the list of scenarios equal.
LEMMA CountUpdate ==
    ASSUME job \in Job, FirstOnes, Agree, NEW u, Proper(u), UpTo(Number(u) - 1),
           job' = Updated(u)
    PROVE  FirstOnes' /\ Agree' /\ UpTo(Number(u))'
<1> USE TriggerAssumption
<1> DEFINE s == u.scenario
<1>1. /\ u \in Update /\ s \in Scenario /\ s \in Nat /\ u.completed \in Nat
      /\ job.completed \in Nat /\ job.passed \in Nat /\ job.failed \in Nat
      /\ job.progress \in [Scenario -> {"pending", "running", "error"} \cup Outcome]
    BY DEF Proper, Scenario, Update, Job
<1>2. s = job.completed + 1
    <2>1. CASE u.status = "running" /\ u.completed = s - 1
        BY <1>1, <2>1 DEF UpTo, Number
    <2>2. CASE u.status \in Outcome /\ u.completed = s
        BY <1>1, <2>2 DEF UpTo, Number
    <2> QED
        BY <2>1, <2>2 DEF Proper
<1>3. /\ job'.completed = u.completed /\ (Terminal' <=> u.completed = Total)
      /\ job'.progress = [job.progress EXCEPT ![s] = u.status]
      /\ job'.passed = job.passed + (IF u.status = "passed" THEN 1 ELSE 0)
      /\ job'.failed = job.failed + (IF u.status \in {"failed", "error"} THEN 1 ELSE 0)
      /\ job'.status = "completed" => job'.failed = 0
    BY <1>1, UpdatedJob DEF Terminal
<1>4. IsFiniteSet(Passed) /\ IsFiniteSet(Failed) /\ s \notin Passed /\ s \notin Failed
    <2>1. IsFiniteSet(Scenario)
        BY FS_Interval DEF Scenario
    <2>2. job.progress[s] \notin Outcome
        BY <1>1, <1>2 DEF FirstOnes
    <2> QED
        BY <2>1, <2>2, FS_Subset DEF Passed, Failed, Outcome
<1>5. CASE u.status = "running" /\ u.completed = s - 1
    <2>1. Passed' = Passed /\ Failed' = Failed
        BY <1>1, <1>3, <1>4, <1>5 DEF Passed, Failed
    <2>2. FirstOnes'
        BY <1>1, <1>2, <1>3, <1>5 DEF FirstOnes, Outcome, Scenario
    <2>3. Agree'
        BY <1>1, <1>2, <1>3, <1>5, <2>1 DEF Agree
    <2>4. UpTo(Number(u))'
        BY <1>1, <1>2, <1>3, <1>5 DEF UpTo, Number
    <2> QED
        BY <2>2, <2>3, <2>4
<1>6. CASE u.status \in Outcome /\ u.completed = s
    <2>1. /\ Passed' = IF u.status = "passed" THEN Passed \cup {s} ELSE Passed
          /\ Failed' = IF u.status = "failed" THEN Failed \cup {s} ELSE Failed
        BY <1>1, <1>3, <1>4, <1>6 DEF Passed, Failed, Outcome
    <2>2. /\ Cardinality(Passed \cup {s}) = Cardinality(Passed) + 1
          /\ Cardinality(Failed \cup {s}) = Cardinality(Failed) + 1
        BY <1>4, FS_AddElement
    <2>3. FirstOnes'
        BY <1>1, <1>2, <1>3, <1>6 DEF FirstOnes, Outcome, Scenario
    <2>4. Agree'
        BY <1>1, <1>2, <1>3, <1>6, <2>1, <2>2 DEF Agree, Outcome
    <2>5. UpTo(Number(u))'
        BY <1>1, <1>2, <1>3, <1>6 DEF UpTo, Number
    <2> QED
        BY <2>3, <2>4, <2>5
<1> QED
    BY <1>5, <1>6 DEF Proper

LEMMA InitCounting == Init => CountInv
<1> SUFFICES ASSUME Init PROVE CountInv
    OBVIOUS
<1>1. job = NoJob /\ net = <<>> /\ ~work.on /\ work.at = 0 /\ ~crashed
    BY DEF Init
<1>2. \A i \in Scenario : job.progress[i] = "pending" /\ i \in Nat /\ i > 0
    BY <1>1, TriggerAssumption DEF NoJob, Scenario
<1>3. Passed = {} /\ Failed = {} /\ Cardinality({}) = 0
    BY <1>2, FS_EmptySet DEF Passed, Failed
<1>4. FirstOnes
    BY <1>1, <1>2 DEF FirstOnes, NoJob, Outcome
<1>5. Agree
    BY <1>1, <1>3, TriggerAssumption DEF Agree, Terminal, Final, NoJob
<1> QED
    BY <1>1, <1>4, <1>5 DEF CountInv, Fresh, Counting, UpTo, Reached, NoJob

LEMMA NextCounting == TypeOK /\ Progressing /\ CountInv /\ [Next]_vars => CountInv'
<1> SUFFICES ASSUME TypeOK, Progressing, CountInv, [Next]_vars PROVE CountInv'
    OBVIOUS
<1> USE TriggerAssumption
<1>1. /\ net \in Seq(Update) /\ work.at \in Nat /\ work.on \in BOOLEAN /\ job \in Job
      /\ job.completed \in Nat /\ repeats \in Nat
    BY DEF TypeOK, Job
<1>2. \A u : Proper(u) => Number(u) \in Nat
    BY DEF Proper, Number, Update, Scenario
<1>3. CASE Create
    <2>1. /\ job = NoJob /\ job'.progress = job.progress /\ job'.completed = job.completed
          /\ job'.passed = job.passed /\ job'.failed = job.failed /\ job'.status = "pending"
        BY <1>3 DEF Create, CountInv, Fresh, NoJob
    <2>2. ASSUME Regular' PROVE Counting'
        <3>1. Counting /\ ~Terminal
            BY <1>1, <1>3, <2>2 DEF Create, Progressing, CountInv, Terminal, Final, Regular, InTime
        <3>2. Passed' = Passed /\ Failed' = Failed /\ FirstOnes' /\ ~Terminal'
            BY <2>1, <3>1 DEF Passed, Failed, FirstOnes, Counting, Terminal, Final
        <3>3. Agree'
            BY <2>1, <3>1, <3>2 DEF Agree, Counting
        <3> QED
            BY <1>3, <2>1, <3>1, <3>2, <3>3 DEF Create, Counting, UpTo, Reached
    <2> QED
        BY <1>3, <2>1, <2>2 DEF Create, CountInv, Fresh
\* The executor sends the next update of a job.
<1>4. ASSUME NEW u, Proper(u), Report(u), Number(u) = Reached + 1, Reached' = Number(u),
             ~crashed, crashed' = crashed, Regular' => Regular, remote' = remote
      PROVE  CountInv'
    <2>1. CASE remote
        <3>1. net' = Append(net, u) /\ job' = job
            BY <1>4, <2>1, Reported, Zenon
        <3>2. u \in Update
            BY <1>4 DEF Proper
        <3>3. /\ Len(net') = Len(net) + 1 /\ net'[Len(net) + 1] = u /\ Len(net) \in Nat
              /\ \A m \in 1..Len(net) : net'[m] = net[m]
            BY <1>1, <3>1, <3>2
        <3>4. Regular' => Counting'
            <4> SUFFICES ASSUME Regular' PROVE Counting'
                OBVIOUS
            <4>1. Counting
                BY <1>4 DEF CountInv
            <4>2. FirstOnes' /\ Agree'
                BY <3>1, <4>1 DEF Counting, FirstOnes, Agree, Passed, Failed, Terminal
            <4>3. \A m \in 1..Len(net') : Proper(net'[m])
                BY <1>4, <3>3, <4>1 DEF Counting
            <4>4. CASE net = <<>>
                BY <1>1, <1>2, <1>4, <3>1, <3>3, <4>1, <4>2, <4>3, <4>4
                   DEF Counting, UpTo, Reached
            <4>5. CASE net # <<>>
                <5>1. /\ 1 \in 1..Len(net) /\ Number(net[Len(net)]) = Reached
                      /\ net' # <<>> /\ net'[1] = net[1] /\ net'[Len(net')] = u
                    BY <1>1, <1>4, <3>3, <4>1, <4>5 DEF Counting
                <5>2. \A m \in 1..Len(net')-1 : Number(net'[m+1]) = Number(net'[m]) + 1
                    <6>1. ASSUME NEW m \in 1..Len(net')-1
                          PROVE  Number(net'[m+1]) = Number(net'[m]) + 1
                        <7>1. CASE m = Len(net)
                            BY <1>4, <3>3, <5>1, <7>1
                        <7>2. CASE m \in 1..Len(net)-1
                            <8>1. m \in 1..Len(net) /\ m+1 \in 1..Len(net)
                                BY <3>3, <7>2
                            <8> QED
                                BY <3>3, <4>1, <7>2, <8>1 DEF Counting
                        <7> QED
                            BY <3>3, <7>1, <7>2
                    <6> QED
                        BY <6>1
                <5>3. UpTo(Number(net[1]) - 1)'
                    BY <3>1, <4>1, <4>5, <5>1 DEF Counting, UpTo, Number
                <5> QED
                    BY <1>4, <4>2, <4>3, <5>1, <5>2, <5>3 DEF Counting, UpTo
            <4> QED
                BY <4>4, <4>5
        <3>5. Fresh'
            BY <1>4, <3>1 DEF CountInv, Fresh
        <3> QED
            BY <3>4, <3>5 DEF CountInv
    <2>2. CASE ~remote
        <3>1. job' = Updated(u) /\ net' = net /\ u \in Update /\ StoreUpdate(u)
            BY <1>4, <2>2, Reported, Zenon DEF StoreUpdate, Proper
        <3>2. net = <<>> /\ job'.status # "none"
            BY <2>2, <3>1, UpdateProgress DEF Progressing
        <3>3. Regular' => Counting'
            <4> SUFFICES ASSUME Regular' PROVE Counting'
                OBVIOUS
            <4>1. FirstOnes /\ Agree /\ UpTo(Number(u) - 1)
                BY <1>1, <1>2, <1>4, <3>2 DEF CountInv, Counting, Reached
            <4>2. FirstOnes' /\ Agree' /\ UpTo(Number(u))'
                BY <1>1, <1>4, <3>1, <4>1, CountUpdate
            <4> QED
                BY <1>4, <3>1, <3>2, <4>2 DEF Counting, UpTo
        <3> QED
            BY <1>4, <3>2, <3>3 DEF CountInv, Fresh
    <2> QED
        BY <2>1, <2>2
<1>5. CASE StartScenario
    <2>1. /\ Report(Running) /\ ~work.on /\ work.at < Total
          /\ work'.at = work.at + 1 /\ work'.on /\ start' = start /\ repeats' = repeats
          /\ crashed' = crashed /\ remote' = remote /\ Running \in Update
        BY <1>5, Reports DEF StartScenario
    <2>2. Proper(Running) /\ Number(Running) = 2 * work.at + 1
        BY <1>1, <2>1 DEF Proper, Number, Running, Scenario
    <2>3. Reached = 2 * work.at /\ Reached' = 2 * work.at + 1 /\ ~crashed
        BY <1>1, <2>1 DEF Reached, CountInv, Fresh
    <2> QED
        BY <1>1, <1>4, <2>1, <2>2, <2>3 DEF Regular, InTime
<1>6. CASE EndScenario
    <2>1. PICK outcome \in Outcome : Report(Ended(outcome))
        BY <1>6 DEF EndScenario
    <2>2. /\ work.on /\ work'.at = work.at /\ ~work'.on /\ start' = start
          /\ repeats' = repeats /\ crashed' = crashed /\ remote' = remote
          /\ Ended(outcome) \in Update /\ work.at > 0 /\ work.at <= Total
        BY <1>1, <1>6, Reports DEF EndScenario, Progressing, TypeOK
    <2>3. Proper(Ended(outcome)) /\ Number(Ended(outcome)) = 2 * work.at
        BY <1>1, <2>2 DEF Proper, Number, Ended, Scenario
    <2>4. Reached = 2 * work.at - 1 /\ Reached' = 2 * work.at /\ ~crashed
        BY <1>1, <2>2 DEF Reached, CountInv, Fresh
    <2> QED
        BY <1>1, <1>4, <2>1, <2>2, <2>3, <2>4 DEF Regular, InTime
<1>7. CASE Deliver
    <2> DEFINE done == job'.completed
    <2>1. /\ net # <<>> /\ 1 \in 1..Len(net) /\ StoreUpdate(net[1]) /\ job' = Updated(net[1])
          /\ net' = Tail(net) /\ start' = start /\ repeats' = repeats /\ work' = work
          /\ crashed' = crashed /\ remote' = remote /\ net[1] \in Update
        BY <1>1, <1>7 DEF Deliver, StoreUpdate
    <2>2. /\ Len(net') = Len(net) - 1 /\ Len(net) \in Nat /\ net' \in Seq(Update)
          /\ \A m \in 1..Len(net') : m+1 \in 1..Len(net) /\ net'[m] = net[m+1]
        BY <1>1, <2>1
    <2>3. Regular' => Counting'
        <3> SUFFICES ASSUME Regular' PROVE Counting'
            OBVIOUS
        <3>1. Counting
            BY <2>1 DEF CountInv, Regular, InTime
        <3>2. FirstOnes' /\ Agree' /\ 2 * done <= Number(net[1]) /\ Number(net[1]) <= 2 * done + 1
            <4>1. FirstOnes /\ Agree /\ Proper(net[1]) /\ UpTo(Number(net[1]) - 1)
                BY <2>1, <3>1 DEF Counting
            <4>2. ASSUME NEW u, u = net[1]
                  PROVE  /\ FirstOnes' /\ Agree'
                         /\ 2 * done <= Number(u) /\ Number(u) <= 2 * done + 1
                <5>1. Proper(u) /\ UpTo(Number(u) - 1) /\ job' = Updated(u)
                    BY <2>1, <4>1, <4>2
                <5>2. FirstOnes' /\ Agree' /\ UpTo(Number(u))'
                    BY <1>1, <4>1, <5>1, CountUpdate
                <5> QED
                    BY <5>2 DEF UpTo
            <4> QED
                BY <4>2
        <3>3. \A m \in 1..Len(net') : Proper(net'[m])
            BY <2>2, <3>1 DEF Counting
        <3>4. \A m \in 1..Len(net')-1 : Number(net'[m+1]) = Number(net'[m]) + 1
            <4>1. ASSUME NEW m \in 1..Len(net')-1
                  PROVE  Number(net'[m+1]) = Number(net'[m]) + 1
                <5>1. /\ m \in 1..Len(net') /\ m+1 \in 1..Len(net') /\ m+1 \in 1..Len(net)-1
                    BY <2>2
                <5> QED
                    BY <2>2, <3>1, <5>1 DEF Counting
            <4> QED
                BY <4>1
        <3>5. CASE net' = <<>>
            <4>1. Len(net) = 1
                BY <2>2, <3>5
            <4>2. ~crashed' => Reached' = Number(net[1])
                BY <2>1, <3>1, <4>1 DEF Counting, Reached
            <4> QED
                BY <3>2, <3>3, <3>4, <3>5, <4>2 DEF Counting, UpTo
        <3>6. CASE net' # <<>>
            <4>1. /\ Len(net) > 1 /\ net'[1] = net[2] /\ net'[Len(net')] = net[Len(net)]
                  /\ 1 \in 1..Len(net)-1 /\ 1 \in 1..Len(net')
                BY <2>1, <2>2, <3>6
            <4>2. Number(net'[1]) = Number(net[1]) + 1 /\ Number(net[1]) \in Nat
                BY <1>2, <2>1, <3>1, <4>1 DEF Counting
            <4>3. ~crashed' => Number(net'[Len(net')]) = Reached'
                BY <2>1, <3>1, <4>1 DEF Counting, Reached
            <4>4. Number(net'[1]) - 1 = Number(net[1])
                BY <4>2
            <4> QED
                BY <3>2, <3>3, <3>4, <3>6, <4>3, <4>4 DEF Counting, UpTo, Number
        <3> QED
            BY <3>5, <3>6
    <2>4. job'.status # "none"
        BY <2>1, UpdateProgress
    <2> QED
        BY <2>1, <2>3, <2>4 DEF CountInv, Fresh
<1>8. CASE Repeat
    <2>1. net # <<>> /\ Head(net) \in Update /\ StoreUpdate(Head(net)) /\ repeats' = repeats + 1
        BY <1>1, <1>8 DEF Repeat
    <2>2. job'.status # "none" /\ ~Regular'
        BY <1>1, <2>1, UpdateProgress DEF Regular
    <2> QED
        BY <1>8, <2>2 DEF Repeat, CountInv, Fresh
<1>9. CASE StartFails
    <2>1. [scenario |-> 0, status |-> "error", completed |-> Total] \in Update
        BY DEF Update
    <2>2. job'.status # "none" /\ ~Regular'
        BY <1>9, <2>1, UpdateProgress DEF StartFails, Regular, InTime
    <2> QED
        BY <1>9, <2>2 DEF StartFails, CountInv, Fresh
<1>10. ASSUME UNCHANGED <<job, net, repeats>>, Regular' => Regular,
              \/ crashed' /\ work'.at = Total /\ ~work'.on
              \/ UNCHANGED <<work, crashed>>
       PROVE  CountInv'
    <2>1. Fresh'
        BY <1>10 DEF CountInv, Fresh
    <2>2. Regular' => Counting'
        BY <1>10 DEF CountInv, Counting, FirstOnes, Agree, Passed, Failed, Terminal, UpTo, Reached
    <2> QED
        BY <2>1, <2>2 DEF CountInv
<1>11. CASE StartReturns
    BY <1>10, <1>11 DEF StartReturns, Regular, InTime
<1>12. CASE ExecutorCrash
    BY <1>10, <1>12 DEF ExecutorCrash, Regular, InTime
<1>13. ASSUME NEW s \in Streams, Streaming(s) \/ Leave(s) PROVE CountInv'
    BY <1>10, <1>13 DEF Streaming, Get, SendStatus, Subscribe, Receive, CheckDone,
                        ChannelClosed, Leave, Regular, InTime
<1>14. CASE UNCHANGED vars
    BY <1>10, <1>14 DEF vars, Regular, InTime
<1> QED
    BY <1>3, <1>5, <1>6, <1>7, <1>8, <1>9, <1>11, <1>12, <1>13, <1>14 DEF Next, Executing

\* Types: the job, the streams and the callbacks stay what they are declared as.
THEOREM TypeCorrect == Spec => []TypeOK
<1>1. Init => TypeOK
    BY InitType
<1>2. TypeOK /\ [Next]_vars => TypeOK'
    BY NextType
<1> QED
    BY <1>1, <1>2, PTL DEF Spec

\* A stream that the server ends was told that the job is complete, unless the
\* start timed out: TriggerStore.Update closes a channel only after an update
\* that the stream has yet to read, and what it then sees is the final state.
THEOREM EndedStreamsWereTold == Spec => []EndsComplete
<1>1. Init => TypeOK /\ Progressing /\ AllTold
    BY InitType, InitProgressing, InitTold
<1>2. (TypeOK /\ Progressing /\ AllTold) /\ [Next]_vars => (TypeOK /\ Progressing /\ AllTold)'
    BY NextType, NextProgressing, NextTold
<1>3. AllTold => EndsComplete
    BY DEF AllTold, Told, EndsComplete
<1> QED
    BY <1>1, <1>2, <1>3, PTL DEF Spec

\* Update keeps the counters beside the scenario list: with every callback
\* applied once and in time they agree, and the job is done exactly when all
\* scenarios are.
THEOREM JobsAreSound == Spec => []JobsSound
<1>1. Init => TypeOK /\ Progressing /\ CountInv
    BY InitType, InitProgressing, InitCounting
<1>2. (TypeOK /\ Progressing /\ CountInv) /\ [Next]_vars
         => (TypeOK /\ Progressing /\ CountInv)'
    BY NextType, NextProgressing, NextCounting
<1>3. TypeOK /\ CountInv => JobsSound
    BY DEF CountInv, Regular, InTime, Counting, Agree, Passed, Failed, JobsSound, CountsAgree
<1> QED
    BY <1>1, <1>2, <1>3, PTL DEF Spec

-----------------------------------------------------------------------------
(* The queue of jobs: who may take a job away, and who may end it.          *)

\* "ORDER BY created_at LIMIT 1" over a set of jobs that is not empty.
LEMMA OldestExists ==
    ASSUME NEW S, S \subseteq Nat, S # {}
    PROVE  Min(S) \in S
<1>1. PICK x \in S : \A y \in S : ~ (<<y, x>> \in OpToRel(<, Nat))
    BY NatLessThanWellFounded, WFMin
<1>2. \A y \in S : x <= y
    <2> SUFFICES ASSUME NEW y \in S, ~(x <= y) PROVE FALSE
        OBVIOUS
    <2>1. <<y, x>> \in Nat \X Nat /\ y < x
        OBVIOUS
    <2>2. <<y, x>> \in OpToRel(<, Nat)
        BY <2>1 DEF OpToRel
    <2> QED
        BY <1>1, <2>2
<1> QED
    BY <1>2 DEF Min

\* A job that waits in the queue belongs to nobody.
QueuedUnowned == \A j \in Jobs : jobs[j].status \in {"none", "queued"} => jobs[j].owner = NoRunner

QueueInv == QueueTypeOK /\ QueuedUnowned

LEMMA QueueInitInv == QueueInit => QueueInv
BY RunnersAssumption
   DEF QueueInit, QueueInv, QueueTypeOK, QueuedUnowned, QueuedJob, NoQueuedJob, Finished

LEMMA QueueNextInv == QueueInv /\ [QueueNext]_queueVars => QueueInv'
<1> SUFFICES ASSUME QueueInv, [QueueNext]_queueVars PROVE QueueInv'
    OBVIOUS
<1> USE RunnersAssumption DEF QueueInv
<1>1. ASSUME NEW r \in Runners, RegisterRunner(r) PROVE QueueInv'
    BY <1>1 DEF RegisterRunner, QueueTypeOK, QueuedUnowned
<1>2. ASSUME NEW r \in Runners, DeleteRunner(r) PROVE QueueInv'
    BY <1>2 DEF DeleteRunner, QueueTypeOK, QueuedUnowned
<1>3. ASSUME NEW r \in Runners, TouchRunner(r) PROVE QueueInv'
    BY <1>3 DEF TouchRunner, QueueTypeOK, QueuedUnowned
<1>4. ASSUME NEW r \in Runners, ClaimJob(r) PROVE QueueInv'
    <2>1. CASE Claimable(r) = {} /\ UNCHANGED <<jobs, stale, doing>>
        BY <1>4, <2>1 DEF ClaimJob, QueueTypeOK, QueuedUnowned
    <2>2. CASE Claimable(r) # {}
        <3> DEFINE j == Min(Claimable(r))
        <3>1. j \in Jobs
            BY <2>2, OldestExists DEF Claimable
        <3>2. jobs[j] \in QueuedJob /\ jobs[j].claims < MaxClaims
            BY <1>4, <2>2, <3>1 DEF ClaimJob, QueueTypeOK
        <3>3. [jobs[j] EXCEPT !.status = "claimed", !.owner = r, !.claims = @ + 1] \in QueuedJob
            <4>1. jobs[j].claims + 1 \in 0..MaxClaims
                BY <3>2 DEF QueuedJob
            <4> HIDE DEF j
            <4> QED
                BY <3>2, <4>1 DEF QueuedJob, Finished
        <3>4. jobs' = [jobs EXCEPT ![j] =
                  [jobs[j] EXCEPT !.status = "claimed", !.owner = r, !.claims = @ + 1]]
              /\ stale' = stale \ {j}
            BY <1>4, <2>2, <3>1 DEF ClaimJob, Claimed, QueueTypeOK
        <3>5. [claim |-> jobs[j].claims + 1, at |-> 0] \in Work
            BY <3>2 DEF QueuedJob, Work
        <3>6. doing' \in [Runners -> [Jobs -> SUBSET Work]]
            BY <1>4, <2>2, <3>1, <3>5 DEF ClaimJob, QueueTypeOK
        <3> QED
            BY <1>4, <3>1, <3>2, <3>3, <3>4, <3>6
               DEF ClaimJob, QueueTypeOK, QueuedUnowned, QueuedJob
    <2> QED
        BY <1>4, <2>1, <2>2 DEF ClaimJob
<1>5. ASSUME NEW r \in Runners, Die(r) PROVE QueueInv'
    BY <1>5 DEF Die, QueueTypeOK, QueuedUnowned
<1>6. ASSUME NEW r \in Runners, FallSilent(r) PROVE QueueInv'
    BY <1>6 DEF FallSilent, QueueTypeOK, QueuedUnowned
<1>7. ASSUME NEW r \in Runners, NEW j \in Jobs, Progress(r, j) PROVE QueueInv'
    <2>1. PICK w \in doing[r][j] :
            /\ w.at < Scenarios
            /\ doing' = [doing EXCEPT ![r][j] = (@ \ {w}) \cup {[w EXCEPT !.at = @ + 1]}]
            /\ Progressed(j, w.at + 1)
        BY <1>7 DEF Progress
    <2>2. w \in Work /\ doing[r][j] \subseteq Work
        BY DEF QueueTypeOK
    <2>3. w.at + 1 \in 0..Scenarios /\ [w EXCEPT !.at = @ + 1] \in Work
        BY <2>1, <2>2 DEF Work
    <2>4. doing' \in [Runners -> [Jobs -> SUBSET Work]]
        BY <2>1, <2>2, <2>3 DEF QueueTypeOK
    <2>5. CASE UNCHANGED <<jobs, stale>>
        BY <1>7, <2>4, <2>5 DEF Progress, QueueTypeOK, QueuedUnowned
    <2>6. CASE /\ jobs' = [jobs EXCEPT ![j].status = "running", ![j].completed = w.at + 1]
               /\ stale' = stale \ {j}
        <3>1. jobs[j] \in QueuedJob
            BY DEF QueueTypeOK
        <3>2. [jobs[j] EXCEPT !.status = "running", !.completed = w.at + 1] \in QueuedJob
            BY <2>3, <3>1 DEF QueuedJob
        <3> QED
            BY <1>7, <2>4, <2>6, <3>1, <3>2 DEF Progress, QueueTypeOK, QueuedUnowned, QueuedJob
    <2> QED
        BY <2>1, <2>5, <2>6 DEF Progressed
<1>8. ASSUME NEW r \in Runners, NEW j \in Jobs, CompleteJob(r, j) PROVE QueueInv'
    <2>1. PICK w \in doing[r][j], status \in Finished :
            /\ doing' \in {doing, [doing EXCEPT ![r][j] = @ \ {w}]}
            /\ jobs' = IF Owns(r, j)
                       THEN [jobs EXCEPT ![j].status = status, ![j].completed = w.at]
                       ELSE jobs
        BY <1>8 DEF CompleteJob
    <2>2. w \in Work /\ doing[r][j] \subseteq Work
        BY DEF QueueTypeOK
    <2>3. doing' \in [Runners -> [Jobs -> SUBSET Work]]
        <3>1. doing[r][j] \ {w} \subseteq Work
            BY <2>2
        <3>2. [doing EXCEPT ![r][j] = @ \ {w}] \in [Runners -> [Jobs -> SUBSET Work]]
            BY <3>1 DEF QueueTypeOK
        <3> QED
            BY <2>1, <3>2 DEF QueueTypeOK
    <2>4. CASE jobs' = jobs
        BY <1>8, <2>3, <2>4 DEF CompleteJob, QueueTypeOK, QueuedUnowned
    <2>5. CASE jobs' = [jobs EXCEPT ![j].status = status, ![j].completed = w.at]
        <3>1. jobs[j] \in QueuedJob
            BY DEF QueueTypeOK
        <3>2. [jobs[j] EXCEPT !.status = status, !.completed = w.at] \in QueuedJob
            <4>1. w.at \in 0..Scenarios
                BY <2>2 DEF Work
            <4>2. status \in {"none", "queued", "claimed", "running"} \cup Finished
                BY <2>1
            <4> HIDE RunnersAssumption
            <4> QED
                BY <3>1, <4>1, <4>2 DEF QueuedJob
        <3>3. status \notin {"none", "queued"}
            BY <2>1 DEF Finished
        <3> QED
            BY <1>8, <2>3, <2>5, <3>1, <3>2, <3>3
               DEF CompleteJob, QueueTypeOK, QueuedUnowned, QueuedJob
    <2> QED
        BY <2>1, <2>4, <2>5
<1>9. ASSUME NEW j \in Jobs, EnqueueJob(j) PROVE QueueInv'
    <2>1. PICK pin \in Runners \cup {NoRunner} :
            jobs' = [jobs EXCEPT ![j].status = "queued", ![j].pin = pin]
        BY <1>9 DEF EnqueueJob
    <2>2. jobs[j] \in QueuedJob /\ jobs[j].status = "none"
        BY <1>9 DEF EnqueueJob, QueueTypeOK
    <2>3. [jobs[j] EXCEPT !.status = "queued", !.pin = pin] \in QueuedJob
        BY <2>2 DEF QueuedJob
    <2> QED
        BY <1>9, <2>1, <2>2, <2>3 DEF EnqueueJob, QueueTypeOK, QueuedUnowned, QueuedJob
<1>10. ASSUME NEW j \in Jobs, CreateTrigger(j) PROVE QueueInv'
    BY <1>10 DEF CreateTrigger, QueueTypeOK, QueuedUnowned
<1>11. ASSUME NEW j \in Jobs, GrowStale(j) PROVE QueueInv'
    BY <1>11 DEF GrowStale, QueueTypeOK, QueuedUnowned
<1>12. CASE MarkUnhealthyRunners
    BY <1>12 DEF MarkUnhealthyRunners, QueueTypeOK, QueuedUnowned
<1>13. CASE ResetStaleJobs
    <2>1. \A j \in Jobs : jobs[j] \in QueuedJob
        BY DEF QueueTypeOK
    <2>2. \A j \in Jobs : Reset(j) \in QueuedJob /\ Reset(j).owner = NoRunner
        BY <2>1 DEF Reset, QueuedJob
    <2> QED
        BY <1>13, <2>1, <2>2 DEF ResetStaleJobs, QueueTypeOK, QueuedUnowned
<1>14. CASE Restart
    BY <1>14 DEF Restart, QueueTypeOK, QueuedUnowned
<1>15. CASE UNCHANGED queueVars
    BY <1>15 DEF queueVars, QueueTypeOK, QueuedUnowned
<1> QED
    BY <1>1, <1>2, <1>3, <1>4, <1>5, <1>6, <1>7, <1>8, <1>9, <1>10, <1>11, <1>12, <1>13,
       <1>14, <1>15 DEF QueueNext, Polls

\* Every step of every execution keeps the invariant.
THEOREM QueueInvHolds == QueueSpec => []QueueInv
<1>1. QueueInit => QueueInv
    BY QueueInitInv
<1>2. QueueInv /\ [QueueNext]_queueVars => QueueInv'
    BY QueueNextInv
<1> QED
    BY <1>1, <1>2, PTL DEF QueueSpec

\* The rows of the queue, the runners and their work have their types: no job
\* reports more scenarios than it has, and the work of a runner belongs to one
\* of the claims that were made.
THEOREM QueueTypeCorrect == QueueSpec => []QueueTypeOK
<1>1. QueueInv => QueueTypeOK
    BY DEF QueueInv
<1> QED
    BY <1>1, QueueInvHolds, PTL

-----------------------------------------------------------------------------
(* Who takes a job from its runner.                                         *)

\* A claim by another poll needs a queued job, and a queued job has no owner:
\* so a runner loses its job only to the janitor's reset.
THEOREM TakenOnlyIfStale == QueueSpec => OnlyStaleTaken
<1> DEFINE Taken(j) == jobs[j].owner # NoRunner /\ jobs'[j].owner # jobs[j].owner
           Allowed(j) == /\ j \in stale /\ jobs[j].status = "claimed"
                         /\ jobs'[j].owner = NoRunner
<1>1. ASSUME QueueInv, QueueNext, NEW j \in Jobs, Taken(j) PROVE Allowed(j)
    <2> USE RunnersAssumption DEF QueueInv
    <2>1. jobs \in [Jobs -> QueuedJob] /\ jobs[j] \in QueuedJob
        BY <1>1 DEF QueueTypeOK
    <2>2. CASE ResetStaleJobs
        BY <1>1, <2>1, <2>2 DEF ResetStaleJobs, Resettable, Reset, QueuedJob
    <2>3. ASSUME NEW r \in Runners, ClaimJob(r) PROVE Allowed(j)
        <3> SUFFICES ASSUME Claimable(r) # {} PROVE FALSE
            BY <1>1, <2>3 DEF ClaimJob
        <3> DEFINE i == Min(Claimable(r))
        <3>1. i \in Jobs /\ jobs[i].status = "queued"
            BY OldestExists DEF Claimable
        <3>2. jobs[i].owner = NoRunner
            BY <1>1, <3>1 DEF QueuedUnowned
        <3>3. jobs' = [jobs EXCEPT ![i].status = "claimed", ![i].owner = r, ![i].claims = @ + 1]
            BY <2>3 DEF ClaimJob, Claimed
        <3> HIDE DEF i
        <3> QED
            BY <1>1, <2>1, <3>1, <3>2, <3>3 DEF QueuedJob
    <2>4. ASSUME NEW r \in Runners, NEW i \in Jobs, Progress(r, i) PROVE FALSE
        <3>1. PICK w \in doing[r][i] : Progressed(i, w.at + 1)
            BY <2>4 DEF Progress
        <3> QED
            BY <1>1, <2>1, <3>1 DEF Progressed, QueuedJob
    <2>5. ASSUME NEW r \in Runners, NEW i \in Jobs, CompleteJob(r, i) PROVE FALSE
        BY <1>1, <2>1, <2>5 DEF CompleteJob, QueuedJob
    <2>6. ASSUME NEW i \in Jobs, EnqueueJob(i) PROVE FALSE
        BY <1>1, <2>1, <2>6 DEF EnqueueJob, QueuedJob
    <2>7. CASE jobs' = jobs
        BY <1>1, <2>7
    <2> QED
        BY <1>1, <2>2, <2>3, <2>4, <2>5, <2>6, <2>7
           DEF QueueNext, Polls, RegisterRunner, DeleteRunner, TouchRunner, Die, FallSilent,
               CreateTrigger, GrowStale, MarkUnhealthyRunners, Restart
<1>2. QueueInv /\ [QueueNext]_queueVars => [\A j \in Jobs : Taken(j) => Allowed(j)]_queueVars
    BY <1>1
<1> QED
    BY <1>2, QueueInvHolds, PTL DEF QueueSpec, OnlyStaleTaken

-----------------------------------------------------------------------------
(* Who ends a job.                                                          *)

\* The final status is written by a report of the owner alone, and what would
\* take a job from its owner or continue it asks for a job that has not ended.
THEOREM EndedOnlyByOwner == QueueSpec => EndedByOwner
<1> DEFINE Stays(j) == HasEnded(jobs[j]) => HasEnded(jobs'[j]) /\ jobs'[j].owner = jobs[j].owner
           ByOwner(j) == \E r \in Runners :
                            /\ jobs[j].owner = r /\ jobs'[j].owner = r
                            /\ \E w \in doing[r][j] : jobs'[j].completed = w.at
           Ends(j) == HasEnded(jobs'[j]) /\ jobs'[j] # jobs[j] => ByOwner(j)
<1>1. ASSUME QueueInv, QueueNext, NEW j \in Jobs PROVE Stays(j) /\ Ends(j)
    <2> USE RunnersAssumption DEF QueueInv
    <2>1. jobs \in [Jobs -> QueuedJob] /\ jobs[j] \in QueuedJob
        BY <1>1 DEF QueueTypeOK
    <2>2. ASSUME NEW r \in Runners, NEW i \in Jobs, CompleteJob(r, i) PROVE Stays(j) /\ Ends(j)
        <3>1. PICK w \in doing[r][i], status \in Finished :
                jobs' = IF Owns(r, i)
                        THEN [jobs EXCEPT ![i].status = status, ![i].completed = w.at]
                        ELSE jobs
            BY <2>2 DEF CompleteJob
        <3>2. CASE jobs'[j] = jobs[j]
            BY <3>2 DEF HasEnded
        <3>3. CASE jobs'[j] # jobs[j]
            <4>1. i = j /\ jobs[j].owner = r
                BY <2>1, <3>1, <3>3 DEF Owns
            <4>2. jobs'[j] = [jobs[j] EXCEPT !.status = status, !.completed = w.at]
                BY <2>1, <3>1, <3>3, <4>1
            <4>3. /\ jobs'[j].owner = jobs[j].owner /\ jobs'[j].completed = w.at
                  /\ jobs'[j].status = status
                BY <2>1, <4>2 DEF QueuedJob
            <4> QED
                BY <4>1, <4>3 DEF HasEnded
        <3> QED
            BY <3>2, <3>3
    <2>3. ASSUME NEW r \in Runners, ClaimJob(r) PROVE Stays(j) /\ Ends(j)
        <3>1. CASE jobs' = jobs
            BY <3>1 DEF HasEnded
        <3>2. CASE Claimable(r) # {}
            <4> DEFINE i == Min(Claimable(r))
            <4>1. i \in Jobs /\ jobs[i].status = "queued"
                BY <3>2, OldestExists DEF Claimable
            <4>2. jobs' = [jobs EXCEPT ![i].status = "claimed", ![i].owner = r, ![i].claims = @ + 1]
                BY <2>3, <3>2 DEF ClaimJob, Claimed
            <4> HIDE DEF i
            <4> QED
                BY <2>1, <4>1, <4>2 DEF QueuedJob, Finished, HasEnded
        <3> QED
            BY <2>3, <3>1, <3>2 DEF ClaimJob
    <2>4. ASSUME NEW r \in Runners, NEW i \in Jobs, Progress(r, i) PROVE Stays(j) /\ Ends(j)
        <3>1. PICK w \in doing[r][i] : Progressed(i, w.at + 1)
            BY <2>4 DEF Progress
        <3> QED
            BY <2>1, <3>1 DEF Progressed, QueuedJob, Finished, HasEnded
    <2>5. ASSUME NEW i \in Jobs, EnqueueJob(i) PROVE Stays(j) /\ Ends(j)
        BY <2>1, <2>5 DEF EnqueueJob, QueuedJob, Finished, HasEnded
    <2>6. CASE ResetStaleJobs
        BY <2>1, <2>6 DEF ResetStaleJobs, Resettable, Reset, QueuedJob, Finished, HasEnded
    <2>7. CASE jobs' = jobs
        BY <2>7 DEF HasEnded
    <2> QED
        BY <1>1, <2>2, <2>3, <2>4, <2>5, <2>6, <2>7
           DEF QueueNext, Polls, RegisterRunner, DeleteRunner, TouchRunner, Die, FallSilent,
               CreateTrigger, GrowStale, MarkUnhealthyRunners, Restart
<1>2. QueueInv /\ [QueueNext]_queueVars => [\A j \in Jobs : /\ Stays(j)
                                                            /\ Ends(j)]_queueVars
    BY <1>1
<1> QED
    BY <1>2, QueueInvHolds, PTL DEF QueueSpec, EndedByOwner
=============================================================================
