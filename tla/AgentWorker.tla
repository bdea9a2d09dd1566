----------------------------- MODULE AgentWorker -----------------------------
(***************************************************************************)
(* The worker cycles of lib/worker.ts and the dispatcher of                *)
(* lib/dispatcher.ts, on the job queue and the run lifecycle.              *)
(*                                                                         *)
(* All of them run in one Node process.  Between two awaits a cycle has    *)
(* the only thread: a label outside Awaiting means "holds the thread", and *)
(* nothing else moves until the cycle awaits again (Turn).  Each store     *)
(* write is a step of its own all the same, because the process may be     *)
(* killed between two of them; the stores survive, the cycles do not.      *)
(*                                                                         *)
(* Left out: the sandbox binding (dispatchTask always makes one), incident *)
(* and recovery-plan records (they decide only whether a recovery plan was *)
(* begun), and the bound of ten jobs a cycle (Leave covers it).            *)
(*                                                                         *)
(* A definition marked "Variant" is a deliberately wrong form of the one   *)
(* after it: with the variant in its place a property below is violated.   *)
(***************************************************************************)
EXTENDS JobQueue, RunLifecycle

CONSTANTS
    Cycle,       \* calls of runWorkerCycle that may be in progress at once
    Owner,       \* the workerId each cycle was called with
    Operator,    \* the default workerId of leaseJob, used by the queue route
    Docker,      \* does every runtime operation wait for a docker command?
    Manual,      \* does an operator use the queue and run routes?
    Stalls,      \* may a lease lapse although its holder's heartbeat is on?
    Posted,      \* the tasks whose runs the runs route makes ("task:T"); dispatchTask
                 \* makes the others ("task:T:A")
    MaxCrashes,  \* bound: how often the process is killed and restarted
    MaxStarts    \* bound: attempts up to which the operator starts a run

ASSUME WorkerAssumption ==
    /\ Owner \in [Cycle -> Worker]
    /\ Operator \in Worker /\ \A c \in Cycle : Owner[c] # Operator
    /\ Docker \in BOOLEAN /\ Manual \in BOOLEAN /\ Stalls \in BOOLEAN
    /\ Posted \in SUBSET Task /\ MaxCrashes \in Nat /\ MaxStarts \in Nat

VARIABLES
    pc,        \* where each cycle is
    job,       \* the job each cycle claimed
    ticket,    \* the attempt it was claimed for
    dispatch,  \* the dispatchTask in progress: where it is, its run
    crashes    \* how often the process was killed

cycleVars == <<pc, job, ticket>>
vars == <<jobVars, runVars, cycleVars, dispatch, crashes>>

\* The awaits of runWorkerCycle: reconcileActiveRuntime, executeAuthorized,
\* investigateError, and prepareErrorRecovery with beginRecoveryPlan.  The local
\* runtime awaits a child process in execute; its other operations are
\* synchronous, and awaiting them does not let another request in.
Awaiting == {"idle", "execute"} \cup IF Docker THEN {"reconcile", "investigate", "recover"} ELSE {}
Labels == {"idle", "stale", "reconcile", "claim", "bind", "start", "leaseRun", "startRun",
           "execute", "completeRun", "investigate", "rootCause", "failJob", "verdict",
           "failRun", "recover", "verify", "defer", "outer"}
\* Between setInterval and clearInterval.
Beating == {"execute", "completeRun", "investigate", "rootCause", "failJob", "verdict",
            "failRun", "recover", "verify", "defer"}

run(c) == jobs[job[c]].run

TypeOK ==
    /\ JobTypeOK /\ RunTypeOK
    /\ pc \in [Cycle -> Labels]
    /\ job \in [Cycle -> Job \cup {Nobody}]
    /\ ticket \in [Cycle -> 0..MaxAttempts]
    /\ dispatch \in [at : {"idle", "enqueue", "queue"}, run : Run \cup {Nobody}]
    /\ crashes \in 0..MaxCrashes

Init ==
    /\ JobInit /\ RunInit
    /\ pc = [c \in Cycle |-> "idle"]
    /\ job = [c \in Cycle |-> Nobody]
    /\ ticket = [c \in Cycle |-> 0]
    /\ dispatch = [at |-> "idle", run |-> Nobody]
    /\ crashes = 0

\* No failJob, expireLeases or expireStaleRuns is between its two writes.
Settled == settling = {} /\ requeuing = {}
ThreadFree == Settled /\ dispatch.at = "idle" /\ \A c \in Cycle : pc[c] \in Awaiting

At(c, label) ==
    /\ pc[c] = label /\ Settled
    /\ label \in Awaiting => ThreadFree

Goto(c, label) == pc' = [pc EXCEPT ![c] = label] /\ UNCHANGED <<job, ticket>>
\* The effect of a cycle's step on the queue alone, or on the runs alone.
OnJobs(c, label) == Goto(c, label) /\ UNCHANGED <<runVars, dispatch, crashes>>
OnRuns(c, label) == Goto(c, label) /\ UNCHANGED <<jobVars, dispatch, crashes>>

----------------------------------------------------------------------------
(* One cycle.  The first half of a cycle expires what lapsed.              *)

BeginCycle(c) == At(c, "idle") /\ ExpireLeases /\ OnJobs(c, "stale")

StaleRuns(c) == At(c, "stale") /\ ExpireStaleRuns /\ OnRuns(c, "reconcile")

\* Any cycle or the operator may be the one whose second write this is.
SettleStep ==
    \/ \E j \in Job : Settle(j) /\ UNCHANGED <<runVars, cycleVars, dispatch, crashes>>
    \/ \E r \in Run : Requeue(r) /\ UNCHANGED <<jobVars, cycleVars, dispatch, crashes>>

Claim(c) ==
    /\ At(c, "claim") \/ At(c, "reconcile")
    /\ \E j \in Job : /\ Lease(j, Owner[c])
                      /\ job' = [job EXCEPT ![c] = j]
                      /\ ticket' = [ticket EXCEPT ![c] = jobs'[j].attempt]
    /\ pc' = [pc EXCEPT ![c] = "bind"]
    /\ UNCHANGED <<runVars, dispatch, crashes>>

\* Nothing to claim, ten jobs done, or the reconciliation failed.
Leave(c) ==
    /\ At(c, "claim") \/ At(c, "reconcile")
    /\ OnJobs(c, "idle") /\ UNCHANGED jobVars

BindCreated(c) ==
    /\ At(c, "bind") /\ RunIs(run(c), {"CREATED"})
    /\ QueueRun(run(c)) /\ OnRuns(c, "start")

\* Variant: the job of a run in treatment is cancelled.
BindTreatedCancel(c) ==
    /\ At(c, "bind") /\ RunIs(run(c), Treatment)
    /\ Cancel(job[c]) /\ OnJobs(c, "claim")

\* Variant: the job goes back with its owner, and to be claimed at once.
BindTreatedAtOnce(c) ==
    /\ At(c, "bind") /\ RunIs(run(c), Treatment)
    /\ JobTo(job[c], "QUEUED", "none", FALSE, jobs[job[c]].owner)
    /\ UNCHANGED settling /\ OnJobs(c, "claim")

\* A run in treatment must not be executed: its job goes back.
BindTreated(c) ==
    /\ At(c, "bind") /\ RunIs(run(c), Treatment)
    /\ Defer(job[c]) /\ OnJobs(c, "claim")

StartJob(c) ==
    /\ At(c, "start") \/ (At(c, "bind") /\ ~RunIs(run(c), Treatment \cup {"CREATED"}))
    /\ Start(job[c], Owner[c]) /\ OnJobs(c, "leaseRun")

LeaseRunStep(c) == At(c, "leaseRun") /\ LeaseRun(run(c)) /\ OnRuns(c, "startRun")

\* A run that is neither queued nor leased: the job is cancelled.
NotExecutable(c) ==
    /\ At(c, "leaseRun") /\ ~RunIs(run(c), {"QUEUED", "LEASED"})
    /\ Cancel(job[c]) /\ OnJobs(c, "claim")

StartRunStep(c) ==
    /\ At(c, "startRun") \/ (At(c, "leaseRun") /\ RunIs(run(c), {"LEASED"}))
    /\ StartRun(run(c)) /\ OnRuns(c, "execute")

----------------------------------------------------------------------------
(* The execution is accepted, or it fails and is treated.                  *)

\* The results of completeJob and completeRun are not looked at.
Succeed(c) ==
    /\ At(c, "execute")
    /\ IF CanComplete(job[c], Owner[c]) THEN Complete(job[c], Owner[c]) ELSE UNCHANGED jobVars
    /\ OnJobs(c, "completeRun")

\* Variant: only a run under verification is completed.
CompleteVerified(c) ==
    /\ At(c, "completeRun")
    /\ IF RunIs(run(c), {"VERIFYING"}) THEN CompleteRun(run(c)) ELSE UNCHANGED runVars
    /\ OnRuns(c, "claim")

CompleteRunStep(c) ==
    /\ At(c, "completeRun")
    /\ IF CanGo(run(c), "SUCCEEDED") THEN CompleteRun(run(c)) ELSE UNCHANGED runVars
    /\ OnRuns(c, "claim")

Break(c) == At(c, "execute") /\ OnJobs(c, "investigate") /\ UNCHANGED jobVars

Diagnose(c) ==
    /\ At(c, "investigate")
    /\ IF CanGo(run(c), "DIAGNOSING") THEN BeginDiagnosis(run(c)) ELSE UNCHANGED runVars
    /\ OnRuns(c, "rootCause")

RootCause(c) ==
    /\ At(c, "rootCause")
    /\ IF CanGo(run(c), "ROOT_CAUSE_FOUND") THEN RecordRootCause(run(c)) ELSE UNCHANGED runVars
    /\ OnRuns(c, "failJob")

\* On a job that is QUEUED again failJob throws, past the handling of the run.
FailJobStep(c) ==
    /\ At(c, "failJob")
    /\ \/ Fail(job[c], Owner[c]) /\ OnJobs(c, "verdict")
       \/ FailThrows(job[c], Owner[c]) /\ OnJobs(c, "outer") /\ UNCHANGED jobVars
       \/ /\ ~CanFail(job[c], Owner[c]) /\ ~FailThrows(job[c], Owner[c])
          /\ OnJobs(c, "failRun") /\ UNCHANGED jobVars

DeadLetterStep(c) ==
    /\ At(c, "verdict") /\ JobIs(job[c], {"DEAD_LETTER"})
    /\ IF CanGo(run(c), "DEAD_LETTER") THEN DeadLetterRun(run(c)) ELSE UNCHANGED runVars
    /\ OnRuns(c, "claim")

FailRunStep(c) ==
    /\ At(c, "failRun") \/ (At(c, "verdict") /\ ~JobIs(job[c], {"DEAD_LETTER"}))
    /\ IF CanGo(run(c), "FAILED") THEN FailRun(run(c)) ELSE UNCHANGED runVars
    /\ OnRuns(c, "recover")

\* A recovery plan was begun: FAILED, RECOVERING, VERIFYING, and the job waits.
Recover(c) ==
    /\ At(c, "recover")
    /\ \/ BeginRecovery(run(c)) /\ OnRuns(c, "verify")
       \/ ~CanGo(run(c), "RECOVERING") /\ OnRuns(c, "claim") /\ UNCHANGED runVars

Verify(c) == At(c, "verify") /\ BeginVerification(run(c)) /\ OnRuns(c, "defer")

DeferStep(c) ==
    /\ At(c, "defer")
    /\ IF CanDefer(job[c]) THEN Defer(job[c]) ELSE UNCHANGED jobVars
    /\ OnJobs(c, "claim")

\* There is no recovery plan: the run is retried.
Retry(c) ==
    /\ At(c, "recover")
    /\ \/ ScheduleRetry(run(c)) /\ OnRuns(c, "claim")
       \/ RetryThrows(run(c)) /\ OnRuns(c, "outer") /\ UNCHANGED runVars

\* The outer catch fails the job once more, if it can.
Outer(c) ==
    /\ At(c, "outer")
    /\ IF CanFail(job[c], Owner[c]) THEN Fail(job[c], Owner[c]) ELSE UNCHANGED jobVars
    /\ OnJobs(c, "claim")

Step(c) ==
    \/ BeginCycle(c) \/ StaleRuns(c) \/ Claim(c) \/ Leave(c) \/ BindCreated(c)
    \/ BindTreated(c) \/ StartJob(c) \/ LeaseRunStep(c) \/ NotExecutable(c)
    \/ StartRunStep(c) \/ Succeed(c) \/ CompleteRunStep(c) \/ Break(c) \/ Diagnose(c)
    \/ RootCause(c) \/ FailJobStep(c) \/ DeadLetterStep(c) \/ FailRunStep(c)
    \/ Recover(c) \/ Verify(c) \/ DeferStep(c) \/ Retry(c) \/ Outer(c)

----------------------------------------------------------------------------
(* dispatchTask: createRun, enqueueJob with attachExecution, queueRun.     *)

Dispatch(t) ==
    /\ ThreadFree
    /\ \E j \in Job : JobIs(j, {"ABSENT"})   \* bound: there is a job id left
    /\ \E r \in Run : /\ CreateRun(t, r)
                      /\ dispatch' = [at |-> "enqueue", run |-> r]
    /\ UNCHANGED <<jobVars, cycleVars, crashes>>

DispatchEnqueue ==
    /\ dispatch.at = "enqueue" /\ Enqueue(dispatch.run)
    /\ dispatch' = [dispatch EXCEPT !.at = "queue"]
    /\ UNCHANGED <<runVars, cycleVars, crashes>>

\* queueRun throws for a run that was already dispatched.
DispatchQueue ==
    /\ dispatch.at = "queue"
    /\ IF CanGo(dispatch.run, "QUEUED") THEN QueueRun(dispatch.run) ELSE UNCHANGED runVars
    /\ dispatch' = [at |-> "idle", run |-> Nobody]
    /\ UNCHANGED <<jobVars, cycleVars, crashes>>

----------------------------------------------------------------------------
(* The timers, the clock, the operator and the kill signal.                *)

\* setInterval: both leases are renewed, the run's whoever executes it.
Beat(c) ==
    /\ ThreadFree /\ pc[c] \in Beating
    /\ \/ Heartbeat(job[c], Owner[c]) /\ UNCHANGED runVars
       \/ HeartbeatRun(run(c)) /\ UNCHANGED jobVars
    /\ UNCHANGED <<cycleVars, dispatch, crashes>>

JobBeaten(j) == \E c \in Cycle : pc[c] \in Beating /\ job[c] = j /\ Holds(j, Owner[c])
RunBeaten(r) == RunIs(r, RunLeased) /\ \E c \in Cycle : pc[c] \in Beating /\ run(c) = r

\* Time passes.  Without stalls a heartbeat is always in time.
JobLapses(j) ==
    /\ ThreadFree /\ LeaseLapses(j) /\ (Stalls \/ ~JobBeaten(j))
    /\ UNCHANGED <<runVars, cycleVars, dispatch, crashes>>
JobDue(j) ==
    /\ ThreadFree /\ BackoffElapses(j)
    /\ UNCHANGED <<runVars, cycleVars, dispatch, crashes>>
RunLapses(r) ==
    /\ ThreadFree /\ RunLeaseLapses(r) /\ (Stalls \/ ~RunBeaten(r))
    /\ UNCHANGED <<jobVars, cycleVars, dispatch, crashes>>
Clock == (\E j \in Job : JobLapses(j) \/ JobDue(j)) \/ \E r \in Run : RunLapses(r)

\* POST and GET of the queue route: no caller is named except in lease.
QueueRoute ==
    \/ ExpireLeases
    \/ \E j \in Job : \/ Lease(j, Operator) \/ Start(j, Nobody) \/ Heartbeat(j, Nobody)
                      \/ Complete(j, Nobody) \/ Fail(j, Nobody) \/ Cancel(j)

\* "start" of the runs route queues and leases before it starts (one step: a
\* process that dies in between is left out here).
RouteStart(r) ==
    /\ runs[r].attempt < MaxStarts
    /\ \/ StartRun(r)
       \/ /\ RunIs(r, {"CREATED", "QUEUED"})
          /\ runs' = [runs EXCEPT ![r].state = "RUNNING", ![r].attempt = @ + 1,
                                  ![r].lease = "live"]
          /\ UNCHANGED requeuing

RunsRoute ==
    \/ \E t \in Posted, r \in Run : CreateRun(t, r)
    \/ \E r \in Run : \/ RouteStart(r) \/ CompleteRun(r) \/ FailRun(r) \/ CancelRun(r)
                      \/ BeginRecovery(r) \/ RollbackRun(r)

Operate ==
    /\ Manual /\ ThreadFree
    /\ \/ QueueRoute /\ UNCHANGED runVars
       \/ RunsRoute /\ UNCHANGED jobVars
    /\ UNCHANGED <<cycleVars, dispatch, crashes>>

Crash ==
    /\ crashes < MaxCrashes
    /\ crashes' = crashes + 1
    /\ Forget /\ ForgetRuns
    /\ pc' = [c \in Cycle |-> "idle"]
    /\ job' = [c \in Cycle |-> Nobody]
    /\ ticket' = [c \in Cycle |-> 0]
    /\ dispatch' = [at |-> "idle", run |-> Nobody]

Next ==
    \/ \E c \in Cycle : Step(c) \/ Beat(c)
    \/ SettleStep
    \/ \E t \in Task \ Posted : Dispatch(t)
    \/ DispatchEnqueue \/ DispatchQueue
    \/ Clock \/ Operate \/ Crash

Spec == Init /\ [][Next]_vars

\* What begins, ends: the event loop comes back to every cycle, an awaited
\* call settles, and so does the second write of a step.  Somebody keeps
\* posting worker cycles, not every reconciliation fails, and time passes.
Fairness ==
    /\ WF_vars(SettleStep) /\ WF_vars(DispatchEnqueue) /\ WF_vars(DispatchQueue)
    /\ \A c \in Cycle : SF_vars(Step(c)) /\ SF_vars(Claim(c))
    /\ \A j \in Job : SF_vars(JobLapses(j)) /\ SF_vars(JobDue(j))
    /\ \A r \in Run : SF_vars(RunLapses(r))

FairSpec == Spec /\ Fairness
----------------------------------------------------------------------------
(* Properties.                                                             *)

Executing(c) == pc[c] \in {"execute", "investigate"}

\* A cycle executes under its lease: the job is running, its own, and the
\* attempt it claimed, and so is the run (worker.ts:114-160, queue.ts:18).
ExecutesUnderLease ==
    \A c \in Cycle : Executing(c) =>
        /\ jobs[job[c]].state = "RUNNING" /\ jobs[job[c]].owner = Owner[c]
        /\ jobs[job[c]].attempt = ticket[c]
        /\ RunIs(run(c), {"RUNNING"})

\* The two stores agree on success as soon as the thread is free, unless the
\* process was killed between the two writes (worker.ts:170-171).
SuccessAgrees ==
    ThreadFree /\ crashes = 0 =>
        \A j \in Job : JobIs(j, {"SUCCEEDED"}) => RunIs(jobs[j].run, {"SUCCEEDED"})

\* FAILED is a state jobs pass through, unless the process is killed between
\* the two writes (queue.ts:9-11, 210-217).
FailedIsTransient ==
    crashes = 0 => \A j \in Job : JobIs(j, {"FAILED"}) => j \in settling

\* No run is started more often than its budget allows (runs.ts:12, 327, 346).
RunBudget == \A r \in Run : runs[r].attempt <= MaxAttempts

\* A task has one active run (runs.ts:15-16, 113).
OneRunPerTask ==
    \A q, r \in Run : Active(q) /\ Active(r) /\ runs[q].task = runs[r].task => q = r

\* A run that waits to be executed has a job that waits or runs
\* (worker.ts:82, 210-211).
QueuedRunHasJob ==
    ThreadFree => \A r \in Run : RunIs(r, {"QUEUED"}) =>
                      \E j \in Job : Unfinished(j) /\ jobs[j].run = r

\* The worker, the dispatcher and the routes change jobs only as lib/queue.ts
\* does, one call at a time: what holds of the queue under arbitrary callers
\* holds here.
UsesQueue == JobQueueSpec

\* A job that was taken does not stay taken, whoever dies (queue.ts:15).
HeldJobsReturn == \A j \in Job : JobIs(j, Held) ~> ~JobIs(j, Held)

\* A run is not RUNNING for ever: its worker settles it, or it is found when its
\* lease has lapsed (runs.ts:334-350).
RunningReturns == \A r \in Run : RunIs(r, {"RUNNING"}) ~> ~RunIs(r, {"RUNNING"})

\* As long as no process is killed, a run that is executed is settled by its
\* cycle (worker.ts:133-249).
RunningSettles ==
    \A r \in Run : RunIs(r, {"RUNNING"}) ~> ~RunIs(r, {"RUNNING"}) \/ crashes > 0
=============================================================================
