---------------------------- MODULE BenchRunners ----------------------------
(***************************************************************************)
(* The job queue of remote benchmark runners (internal/benchsvc): runners   *)
(* register and poll, the oldest queued job is claimed in one statement,    *)
(* progress callbacks and the final report come over HTTP, and a janitor    *)
(* looks for silent runners and stale jobs every ten seconds.               *)
(*                                                                          *)
(* Time is abstract: a healthy runner may fall silent and a claimed job may *)
(* grow stale at any moment, until the next poll or callback.  A runner     *)
(* keeps working on a job that was taken from it; it cannot know, and if it *)
(* claims the job again it has two attempts at it.                          *)
(***************************************************************************)
EXTENDS Naturals, Sequences, FiniteSets, FiniteSetsExt

CONSTANTS
    Runners,    \* runner ids; each registration takes a new one
    NoRunner,
    Jobs,       \* 1..n, in the order they may be enqueued
    Scenarios,  \* scenarios per job
    MaxClaims   \* bound: claims of one job

ASSUME RunnersAssumption ==
    /\ NoRunner \notin Runners
    /\ Jobs \subseteq Nat
    /\ Scenarios \in Nat \ {0} /\ MaxClaims \in Nat

VARIABLES
    infra,    \* infra[r]: the status of runner r in bench_infra
    silent,   \* runners whose updated_at is older than 15 seconds
    jobs,     \* the bench_jobs rows
    stale,    \* claimed jobs without progress for five minutes
    trigger,  \* trigger[j]: is job j in the in-memory TriggerStore
    polling,  \* runners between TouchRunner and ClaimJob
    doing,    \* doing[r][j]: the attempts of runner r at job j
    dead      \* runners that have crashed

queueVars == <<infra, silent, jobs, stale, trigger, polling, doing, dead>>

-----------------------------------------------------------------------------
Finished == {"completed", "failed"}
QueuedJob == [status: {"none", "queued", "claimed", "running"} \cup Finished,
              owner: Runners \cup {NoRunner}, pin: Runners \cup {NoRunner},
              claims: 0..MaxClaims, completed: 0..Scenarios]
NoQueuedJob == [status |-> "none", owner |-> NoRunner, pin |-> NoRunner,
                claims |-> 0, completed |-> 0]

\* An attempt: the claim it belongs to, and the scenarios that have ended.
Work == [claim: 1..MaxClaims, at: 0..Scenarios]

Healthy(r) == infra[r] = "healthy"
Works(r, j) == doing[r][j] # {}

QueueTypeOK ==
    /\ infra \in [Runners -> {"none", "healthy", "unhealthy", "deleted"}]
    /\ silent \subseteq Runners
    /\ jobs \in [Jobs -> QueuedJob]
    /\ stale \subseteq Jobs
    /\ trigger \in [Jobs -> {"no", "adding", "in", "lost"}]
    /\ polling \subseteq Runners
    /\ doing \in [Runners -> [Jobs -> SUBSET Work]]
    /\ dead \subseteq Runners

QueueInit ==
    /\ infra = [r \in Runners |-> "none"]
    /\ silent = {} /\ stale = {} /\ polling = {} /\ dead = {}
    /\ jobs = [j \in Jobs |-> NoQueuedJob]
    /\ trigger = [j \in Jobs |-> "no"]
    /\ doing = [r \in Runners |-> [j \in Jobs |-> {}]]

-----------------------------------------------------------------------------
(* Runners.                                                                 *)

RegisterRunner(r) ==
    /\ infra[r] = "none"
    /\ infra' = [infra EXCEPT ![r] = "healthy"]
    /\ UNCHANGED <<silent, jobs, stale, trigger, polling, doing, dead>>

DeleteRunner(r) ==
    /\ infra[r] \in {"healthy", "unhealthy"}
    /\ infra' = [infra EXCEPT ![r] = "deleted"]
    /\ UNCHANGED <<silent, jobs, stale, trigger, polling, doing, dead>>

\* handlePollJob: TouchRunner refuses a runner that is not healthy ...
TouchRunner(r) ==
    /\ Healthy(r) /\ r \notin dead \cup polling
    /\ silent' = silent \ {r}
    /\ polling' = polling \cup {r}
    /\ UNCHANGED <<infra, jobs, stale, trigger, doing, dead>>

\* ... and ClaimJob takes the oldest job the runner may have.
ClaimableTwice(r) ==
    {j \in Jobs : jobs[j].status \in {"queued", "claimed"} /\ jobs[j].pin \in {r, NoRunner}}
Claimable(r) == {j \in Jobs : jobs[j].status = "queued" /\ jobs[j].pin \in {r, NoRunner}}

Claimed(r, j) ==
    /\ jobs' = [jobs EXCEPT ![j].status = "claimed", ![j].owner = r, ![j].claims = @ + 1]
    /\ stale' = stale \ {j}

ClaimJob(r) ==
    /\ r \in polling
    /\ polling' = polling \ {r}
    /\ \/ Claimable(r) = {} /\ UNCHANGED <<jobs, stale, doing>>
       \/ LET j == Min(Claimable(r))
          IN  /\ Claimable(r) # {} /\ jobs[j].claims < MaxClaims
              /\ Claimed(r, j)
              \* The response reaches the runner, or it is lost.
              /\ \/ UNCHANGED doing
                 \/ doing' = [doing EXCEPT ![r][j] = @ \cup {[claim |-> jobs[j].claims + 1, at |-> 0]}]
    /\ UNCHANGED <<infra, silent, trigger, dead>>

\* The runner process dies with all its work.
Die(r) ==
    /\ infra[r] # "none" /\ r \notin dead
    /\ dead' = dead \cup {r}
    /\ polling' = polling \ {r}
    /\ doing' = [doing EXCEPT ![r] = [j \in Jobs |-> {}]]
    /\ UNCHANGED <<infra, silent, jobs, stale, trigger>>

-----------------------------------------------------------------------------
(* Jobs.                                                                    *)

\* handleTrigger: a healthy runner is found, the job is enqueued, pinned to
\* this runner if the request names it ...
EnqueueJob(j) ==
    /\ jobs[j].status = "none"
    /\ \E r \in Runners : \E pin \in {r, NoRunner} :
          /\ Healthy(r)
          /\ jobs' = [jobs EXCEPT ![j].status = "queued", ![j].pin = pin]
    /\ trigger' = [trigger EXCEPT ![j] = "adding"]
    /\ UNCHANGED <<infra, silent, stale, polling, doing, dead>>

\* ... and only then put into the TriggerStore.
CreateTrigger(j) ==
    /\ trigger[j] = "adding"
    /\ trigger' = [trigger EXCEPT ![j] = "in"]
    /\ UNCHANGED <<infra, silent, jobs, stale, polling, doing, dead>>

\* handleTriggerProgress: 404 for a job that is not in the TriggerStore,
\* otherwise UpdateJobProgress, which asks neither for owner nor for claim.
Progressed(j, n) ==
    IF trigger[j] = "in" /\ jobs[j].status \in {"claimed", "running"}
    THEN /\ jobs' = [jobs EXCEPT ![j].status = "running", ![j].completed = n]
         /\ stale' = stale \ {j}
    ELSE UNCHANGED <<jobs, stale>>

Progress(r, j) ==
    /\ \E w \in doing[r][j] :
          /\ w.at < Scenarios
          /\ doing' = [doing EXCEPT ![r][j] = (@ \ {w}) \cup {[w EXCEPT !.at = @ + 1]}]
          /\ Progressed(j, w.at + 1)
    /\ UNCHANGED <<infra, silent, trigger, polling, dead>>

\* CompleteJob: the runner must be the one that holds the job.  What it reports
\* is not compared with its callbacks, nor with the status of the job, and a
\* runner that gets no answer reports again.
AnyOwner(r, j) == jobs[j].status # "none"
Owns(r, j) == jobs[j].owner = r

CompleteJob(r, j) ==
    /\ \E w \in doing[r][j], status \in Finished :
          /\ doing' \in {doing, [doing EXCEPT ![r][j] = @ \ {w}]}
          /\ jobs' = IF Owns(r, j)
                     THEN [jobs EXCEPT ![j].status = status, ![j].completed = w.at]
                     ELSE jobs
    /\ UNCHANGED <<infra, silent, stale, trigger, polling, dead>>

-----------------------------------------------------------------------------
(* Time, and the janitor.                                                   *)

FallSilent(r) ==
    /\ Healthy(r) /\ r \notin silent
    /\ silent' = silent \cup {r}
    /\ UNCHANGED <<infra, jobs, stale, trigger, polling, doing, dead>>

GrowStale(j) ==
    /\ jobs[j].status \in {"claimed", "running"} /\ j \notin stale
    /\ stale' = stale \cup {j}
    /\ UNCHANGED <<infra, silent, jobs, trigger, polling, doing, dead>>

MarkUnhealthyRunners ==
    /\ \E r \in silent : Healthy(r)
    /\ infra' = [r \in Runners |-> IF r \in silent /\ Healthy(r) THEN "unhealthy" ELSE infra[r]]
    /\ UNCHANGED <<silent, jobs, stale, trigger, polling, doing, dead>>

ResettableIfUnhealthy(j) ==
    /\ jobs[j].status = "claimed" /\ j \in stale
    /\ infra[jobs[j].owner] # "healthy"
Resettable(j) == jobs[j].status = "claimed" /\ j \in stale

Reset(j) == [jobs[j] EXCEPT !.status = "queued", !.owner = NoRunner]

ResetStaleJobs ==
    /\ \E j \in Jobs : Resettable(j)
    /\ jobs' = [j \in Jobs |-> IF Resettable(j) THEN Reset(j) ELSE jobs[j]]
    /\ UNCHANGED <<infra, silent, stale, trigger, polling, doing, dead>>

\* evidra-api is restarted: the TriggerStore is empty again, and a handler that
\* has enqueued a job does not get to Create.
Restart ==
    /\ \E j \in Jobs : trigger[j] \in {"adding", "in"}
    /\ trigger' = [j \in Jobs |-> IF trigger[j] = "no" THEN "no" ELSE "lost"]
    /\ polling' = {}
    /\ UNCHANGED <<infra, silent, jobs, stale, doing, dead>>

-----------------------------------------------------------------------------
Polls(r) == TouchRunner(r) \/ ClaimJob(r)

QueueNext ==
    \/ \E r \in Runners :
          \/ RegisterRunner(r) \/ DeleteRunner(r) \/ Polls(r)
          \/ Die(r) \/ FallSilent(r)
          \/ \E j \in Jobs : Progress(r, j) \/ CompleteJob(r, j)
    \/ \E j \in Jobs : EnqueueJob(j) \/ CreateTrigger(j) \/ GrowStale(j)
    \/ MarkUnhealthyRunners
    \/ ResetStaleJobs
    \/ Restart

QueueSpec == QueueInit /\ [][QueueNext]_queueVars

\* Time passes, the janitor ticks, requests are answered and scenarios end.
QueueFairSpec ==
    /\ QueueSpec
    /\ WF_queueVars(ResetStaleJobs) /\ WF_queueVars(MarkUnhealthyRunners)
    /\ \A j \in Jobs : WF_queueVars(GrowStale(j)) /\ WF_queueVars(CreateTrigger(j))
    /\ \A r \in Runners : WF_queueVars(ClaimJob(r))
    /\ \A r \in Runners, j \in Jobs : WF_queueVars(Progress(r, j) \/ CompleteJob(r, j))

-----------------------------------------------------------------------------
(* Properties.                                                              *)

\* A runner loses a job only to the janitor, after five minutes without
\* progress and before the first callback: never to another runner's poll, and
\* not because it is itself taken for unhealthy or deleted.
OnlyStaleTaken ==
    [][\A j \in Jobs :
         (jobs[j].owner # NoRunner /\ jobs'[j].owner # jobs[j].owner) =>
            /\ j \in stale /\ jobs[j].status = "claimed"
            /\ jobs'[j].owner = NoRunner]_queueVars

\* "prevent stale runners from overwriting state": a job ends, and what it ended
\* with is overwritten, only by a report of the runner that holds it, with the
\* count of one of its attempts.  No late callback, poll or reset brings a job
\* back that has ended or takes it from its runner.
HasEnded(row) == row.status \in Finished
EndedByOwner ==
    [][\A j \in Jobs :
         /\ HasEnded(jobs[j]) => HasEnded(jobs'[j]) /\ jobs'[j].owner = jobs[j].owner
         /\ HasEnded(jobs'[j]) /\ jobs'[j] # jobs[j] =>
              \E r \in Runners :
                 /\ jobs[j].owner = r /\ jobs'[j].owner = r
                 /\ \E w \in doing[r][j] : jobs'[j].completed = w.at]_queueVars

Abandoned(j) == \A r \in Runners : ~Works(r, j)

\* A claimed job that nobody works on, because its runner died or never got
\* the answer, is given back to the queue.
ClaimedRequeued ==
    \A j \in Jobs :
        (jobs[j].status = "claimed" /\ Abandoned(j)) ~> (jobs[j].status # "claimed")
=============================================================================
