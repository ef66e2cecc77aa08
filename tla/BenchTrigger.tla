---------------------------- MODULE BenchTrigger ----------------------------
(***************************************************************************)
(* A benchmark job in the in-memory TriggerStore of internal/benchsvc, from *)
(* POST /v1/bench/trigger to the server-sent event streams that follow it.  *)
(*                                                                          *)
(* The executor runs in a goroutine.  The local one updates the store       *)
(* itself; the remote one posts the job to a bench service, which calls     *)
(* back over HTTP.  A stream takes a snapshot of the job, writes it, and    *)
(* only then subscribes; what happens in between it does not hear of.       *)
(***************************************************************************)
EXTENDS Naturals, Sequences, SequencesExt, FiniteSets

CONSTANTS
    Total,      \* scenarios of the job
    Streams,    \* clients of GET /v1/bench/trigger/{id}
    Buffer,     \* capacity of a subscriber channel (16)
    Repeats,    \* bound: callbacks that are sent twice (a retry)
    Failures    \* which of "start", "timeout", "crash" may happen

ASSUME TriggerAssumption ==
    /\ Total \in Nat \ {0} /\ Buffer \in Nat \ {0} /\ Repeats \in Nat
    /\ Failures \subseteq {"start", "timeout", "crash"}

VARIABLES
    remote,   \* is the executor the remote one?
    job,      \* the TriggerJob
    subs,     \* subscribed streams
    buf,      \* buf[s]: updates in the channel of stream s
    closed,   \* streams whose channel is closed
    pc,       \* pc[s]: the handler of stream s
    seen,     \* seen[s]: the status it read last
    said,     \* streams that were sent the event "complete"
    start,    \* the goroutine that runs executor.Start
    work,     \* the scenario that is being run, 0 before, and whether it runs
    net,      \* callbacks on their way
    repeats,
    crashed   \* has the bench service died?

stream == <<subs, buf, closed, pc, seen, said>>
vars == <<remote, job, stream, start, work, net, repeats, crashed>>

-----------------------------------------------------------------------------
Scenario == 1..Total
Final    == {"completed", "failed"}
Outcome  == {"passed", "failed"}
Update   == [scenario: 0..Total, status: {"running", "error"} \cup Outcome,
             completed: 0..Total]
Job == [status: {"none", "pending", "running"} \cup Final, completed: 0..Total,
        passed: Nat, failed: Nat,
        progress: [Scenario -> {"pending", "running", "error"} \cup Outcome]]

NoJob == [status |-> "none", completed |-> 0, passed |-> 0, failed |-> 0,
          progress |-> [i \in Scenario |-> "pending"]]

Terminal == job.status \in Final

TypeOK ==
    /\ remote \in BOOLEAN /\ crashed \in BOOLEAN
    /\ job \in Job
    /\ subs \subseteq Streams
    /\ buf \in [Streams -> Seq(Update)]
    /\ \A s \in Streams : Len(buf[s]) <= Buffer
    /\ closed \subseteq Streams
    /\ pc \in [Streams -> {"new", "got", "gap", "loop", "check", "end", "gone"}]
    /\ seen \in [Streams -> {"none", "pending", "running"} \cup Final]
    /\ said \subseteq Streams
    /\ start \in {"new", "posting", "returned", "refused", "timeout"}
    /\ work \in [at: 0..Total, on: BOOLEAN]
    /\ net \in Seq(Update)
    /\ repeats \in 0..Repeats

Init ==
    /\ remote \in BOOLEAN
    /\ crashed = FALSE
    /\ job = NoJob
    /\ subs = {} /\ closed = {} /\ said = {}
    /\ buf = [s \in Streams |-> <<>>]
    /\ pc = [s \in Streams |-> "new"]
    /\ seen = [s \in Streams |-> "none"]
    /\ start = "new"
    /\ work = [at |-> 0, on |-> FALSE]
    /\ net = <<>>
    /\ repeats = 0

-----------------------------------------------------------------------------
(* TriggerStore.Update, under its mutex.                                    *)

CountedOnlyPassed(j, u) ==
    IF u.status = "passed" THEN [j EXCEPT !.passed = @ + 1] ELSE j
Counted(j, u) ==
    CASE u.status = "passed"              -> [j EXCEPT !.passed = @ + 1]
      [] u.status \in {"failed", "error"} -> [j EXCEPT !.failed = @ + 1]
      [] OTHER                            -> j

DoneBeyondTotal(u) == u.completed > Total
DoneWith(u) == u.completed >= Total

Updated(u) ==
    LET j == Counted(IF u.scenario \in Scenario
                     THEN [job EXCEPT !.progress[u.scenario] = u.status] ELSE job, u)
    IN  [j EXCEPT !.completed = u.completed,
                  !.status = IF ~DoneWith(u) THEN "running"
                             ELSE IF j.failed > 0 THEN "failed" ELSE "completed"]

\* select { case ch <- u: default: }, and close on a terminal state.
CloseFirst(u) ==
    /\ buf' = IF Updated(u).status \in Final THEN buf
              ELSE [s \in Streams |-> IF s \in subs /\ Len(buf[s]) < Buffer
                                      THEN Append(buf[s], u) ELSE buf[s]]
    /\ IF Updated(u).status \in Final
       THEN closed' = closed \cup subs /\ subs' = {}
       ELSE UNCHANGED <<closed, subs>>
Notify(u) ==
    /\ buf' = [s \in Streams |-> IF s \in subs /\ Len(buf[s]) < Buffer
                                 THEN Append(buf[s], u) ELSE buf[s]]
    /\ IF Updated(u).status \in Final
       THEN closed' = closed \cup subs /\ subs' = {}
       ELSE UNCHANGED <<closed, subs>>

StoreUpdate(u) ==
    /\ job' = Updated(u)
    /\ Notify(u)
    /\ UNCHANGED <<pc, seen, said>>

-----------------------------------------------------------------------------
(* handleTrigger and the executors.                                         *)

Create ==
    /\ job.status = "none"
    /\ job' = [NoJob EXCEPT !.status = "pending"]
    /\ start' = "posting"
    /\ UNCHANGED <<remote, crashed, stream, work, net, repeats>>

\* LocalExecutor.Start, or the bench service with its callbacks: a scenario
\* starts, and it ends.
Running == [scenario |-> work.at + 1, status |-> "running", completed |-> work.at]
Ended(outcome) == [scenario |-> work.at, status |-> outcome, completed |-> work.at]

Report(u) ==
    IF remote THEN net' = Append(net, u) /\ UNCHANGED <<job, stream>>
              ELSE StoreUpdate(u) /\ UNCHANGED net

\* A service that was reached begins the job; the local executor runs in Start.
StartScenario ==
    /\ work.at < Total /\ ~work.on
    /\ work.at = 0 => start \in {"posting", "timeout"}
    /\ work' = [at |-> work.at + 1, on |-> TRUE]
    /\ Report(Running)
    /\ UNCHANGED <<remote, crashed, start, repeats>>

EndScenario ==
    /\ work.on
    /\ work' = [work EXCEPT !.on = FALSE]
    /\ \E outcome \in Outcome : Report(Ended(outcome))
    /\ UNCHANGED <<remote, crashed, start, repeats>>

\* handleTriggerProgress
Deliver ==
    /\ net # <<>>
    /\ StoreUpdate(Head(net))
    /\ net' = Tail(net)
    /\ UNCHANGED <<remote, crashed, start, work, repeats>>

\* The service got no answer to its callback and sends it again.
Repeat ==
    /\ net # <<>> /\ repeats < Repeats
    /\ StoreUpdate(Head(net))
    /\ repeats' = repeats + 1
    /\ UNCHANGED <<remote, crashed, start, work, net>>

\* executor.Start returns nil.
StartReturns ==
    /\ start = "posting"
    /\ IF remote THEN work.at > 0 ELSE work.at = Total /\ ~work.on
    /\ start' = "returned"
    /\ UNCHANGED <<remote, crashed, job, stream, work, net, repeats>>

\* executor.Start fails: the service was not reached ("start"), or its answer
\* came too late for the HTTP client ("timeout").
StartFails ==
    /\ start = "posting"
    /\ \/ "start" \in Failures /\ work.at = 0 /\ start' = "refused"
       \/ "timeout" \in Failures /\ remote /\ start' = "timeout"
    /\ StoreUpdate([scenario |-> 0, status |-> "error", completed |-> Total])
    /\ UNCHANGED <<remote, crashed, work, net, repeats>>

\* The bench service dies.
ExecutorCrash ==
    /\ "crash" \in Failures
    /\ remote /\ work.at > 0 /\ (work.on \/ work.at < Total)
    /\ work' = [at |-> Total, on |-> FALSE]
    /\ crashed' = TRUE
    /\ UNCHANGED <<remote, job, stream, start, net, repeats>>

-----------------------------------------------------------------------------
(* handleTriggerStatus with Accept: text/event-stream.                      *)

Goto(s, step) == pc' = [pc EXCEPT ![s] = step]

\* store.Get; a job that is not there is answered 404.
Get(s) ==
    /\ pc[s] = "new"
    /\ job.status # "none"
    /\ seen' = [seen EXCEPT ![s] = job.status]
    /\ Goto(s, "got")
    /\ UNCHANGED <<remote, crashed, job, subs, buf, closed, said, start, work, net, repeats>>

\* The event "status", and "complete" if there is nothing to wait for.
SendStatus(s) ==
    /\ pc[s] = "got"
    /\ IF seen[s] \in Final
       THEN said' = said \cup {s} /\ Goto(s, "end")
       ELSE UNCHANGED said /\ Goto(s, "gap")
    /\ UNCHANGED <<remote, crashed, job, subs, buf, closed, seen, start, work, net, repeats>>

Subscribe(s) ==
    /\ pc[s] = "gap"
    /\ subs' = subs \cup {s}
    /\ Goto(s, "loop")
    /\ UNCHANGED <<remote, crashed, job, buf, closed, seen, said, start, work, net, repeats>>

\* Receive an update and write the event "progress" ...
Receive(s) ==
    /\ pc[s] = "loop" /\ buf[s] # <<>>
    /\ buf' = [buf EXCEPT ![s] = Tail(@)]
    /\ Goto(s, "check")
    /\ UNCHANGED <<remote, crashed, job, subs, closed, seen, said, start, work, net, repeats>>

\* ... and look whether the job is done.
CheckDone(s) ==
    /\ pc[s] = "check"
    /\ seen' = [seen EXCEPT ![s] = job.status]
    /\ IF Terminal
       THEN said' = said \cup {s} /\ subs' = subs \ {s} /\ Goto(s, "end")
       ELSE UNCHANGED <<said, subs>> /\ Goto(s, "loop")
    /\ UNCHANGED <<remote, crashed, job, buf, closed, start, work, net, repeats>>

\* The channel is closed and drained.
ChannelClosed(s) ==
    /\ pc[s] = "loop" /\ buf[s] = <<>> /\ s \in closed
    /\ Goto(s, "end")
    /\ UNCHANGED <<remote, crashed, job, subs, buf, closed, seen, said, start, work, net, repeats>>

\* The client disconnects: the deferred Unsubscribe.
Leave(s) ==
    /\ pc[s] = "loop"
    /\ subs' = subs \ {s}
    /\ Goto(s, "gone")
    /\ UNCHANGED <<remote, crashed, job, buf, closed, seen, said, start, work, net, repeats>>

-----------------------------------------------------------------------------
Executing == StartScenario \/ EndScenario \/ Deliver \/ StartReturns

Streaming(s) ==
    Get(s) \/ SendStatus(s) \/ Subscribe(s) \/ Receive(s) \/ CheckDone(s) \/ ChannelClosed(s)

Next ==
    \/ Create
    \/ Executing
    \/ Repeat
    \/ StartFails
    \/ ExecutorCrash
    \/ \E s \in Streams : Streaming(s) \/ Leave(s)

Spec == Init /\ [][Next]_vars

\* Goroutines are scheduled, scenarios end (they have a timeout) and callbacks
\* are answered.
FairSpec ==
    /\ Spec
    /\ WF_vars(StartScenario) /\ WF_vars(EndScenario) /\ WF_vars(Deliver)
    /\ WF_vars(StartReturns)
    /\ \A s \in Streams : WF_vars(Streaming(s))

-----------------------------------------------------------------------------
(* Properties.                                                              *)

\* With every callback applied once and no error of the executor, the counters
\* are those of the scenario list, and the job is done exactly when all its
\* scenarios are (Update keeps both side by side).
CountsAgree ==
    (repeats = 0 /\ start \notin {"refused", "timeout"}) =>
        /\ job.passed = Cardinality({i \in Scenario : job.progress[i] = "passed"})
        /\ job.failed = Cardinality({i \in Scenario : job.progress[i] = "failed"})
        /\ job.completed = job.passed + job.failed
        /\ Terminal <=> job.completed = Total
        /\ job.status = "completed" => job.failed = 0

\* A stream that the server ends has been told the final state, even if its
\* channel was full when the last update came, unless a late callback revived
\* a job whose start had timed out.
EndsComplete ==
    start # "timeout" => \A s \in Streams : pc[s] = "end" => s \in said

\* A stream that subscribes before the job is done comes to its end, however
\* slow its client is and however often a callback is sent, unless the bench
\* service dies.
SubscribersEnd ==
    \A s \in Streams :
        (s \in subs /\ ~Terminal) ~> (pc[s] \in {"end", "gone"} \/ crashed)

\* The state of a job: its types and the counters beside its scenario list.
JobsSound == TypeOK /\ CountsAgree
=============================================================================
