--------------------------- MODULE MCWorkers_proofs ---------------------------
(***************************************************************************)
(* What MCWorkers checks on a small instance, proved for any cycles, jobs, *)
(* runs, tasks and budgets.  The settings are proved apart: each instance  *)
(* of AgentWorker brings the lemmas of AgentWorker_proofs for its own      *)
(* constants, the invariant of a setting is carried by them, and here it   *)
(* is only put together.                                                   *)
(***************************************************************************)
EXTENDS MCWorkers, AgentWorker_proofs

L == INSTANCE AgentWorker_proofs WITH Docker <- FALSE, MaxCrashes <- 0
S == INSTANCE AgentWorker_proofs WITH Owner <- OwnId, Stalls <- TRUE, MaxCrashes <- 0

USE OwnIdAssumption

----------------------------------------------------------------------------
(* L and S are Local and Stalled of MCWorkers, on the variables of all.    *)

LEMMA SameVars == UNCHANGED vars => UNCHANGED L!vars /\ UNCHANGED S!vars
BY DEF L!vars, S!vars, vars, L!jobVars, S!jobVars, jobVars, L!runVars, S!runVars, runVars,
       L!cycleVars, S!cycleVars, cycleVars

LEMMA LocalIs == Local!Next <=> L!Next
BY DEF L!Active, L!At, L!Awaiting, L!BackoffElapses, L!Beat, L!Beating, L!BeginCycle, L!BeginDiagnosis,
       L!BeginRecovery, L!BeginVerification, L!BindCreated, L!BindTreated, L!Break, L!CanCancel,
       L!CanComplete, L!CanDefer, L!CanFail, L!CanGo, L!CanStart, L!CanStartRun, L!Cancel, L!CancelRun,
       L!Claim, L!Claimable, L!Clock, L!Complete, L!CompleteRun, L!CompleteRunStep, L!Crash, L!CreateRun,
       L!DeadLetterRun, L!DeadLetterStep, L!Defer, L!DeferStep, L!Diagnose, L!Dispatch, L!DispatchEnqueue,
       L!DispatchQueue, L!Enqueue, L!Exhausted, L!ExpireLeases, L!ExpireStaleRuns, L!Fail, L!FailJobStep,
       L!FailRun, L!FailRunStep, L!FailThrows, L!Forget, L!ForgetRuns, L!Go, L!Goto, L!Heartbeat,
       L!HeartbeatRun, L!Held, L!Holds, L!JobBeaten, L!JobDue, L!JobIs, L!JobLapses, L!JobNext, L!JobTo,
       L!Lease, L!LeaseLapses, L!LeaseRun, L!LeaseRunStep, L!Leave, L!Next, L!NotExecutable, L!OnJobs,
       L!OnRuns, L!Operate, L!Outer, L!QueueRoute, L!QueueRun, L!RecordRootCause, L!Recover, L!Requeue,
       L!Retry, L!RetryThrows, L!RollbackRun, L!RootCause, L!RouteStart, L!RunBeaten, L!RunInactive,
       L!RunIs, L!RunLapses, L!RunLeaseLapses, L!RunLeased, L!RunNext, L!RunsRoute, L!ScheduleRetry,
       L!Settle, L!SettleStep, L!Settled, L!StaleRuns, L!Start, L!StartJob, L!StartRun, L!StartRunStep,
       L!Step, L!Succeed, L!ThreadFree, L!Treatment, L!Unfinished, L!Verify, L!cycleVars, L!jobVars, L!run,
       L!runVars, Local!Active, Local!At, Local!Awaiting, Local!BackoffElapses, Local!Beat, Local!Beating,
       Local!BeginCycle, Local!BeginDiagnosis, Local!BeginRecovery, Local!BeginVerification,
       Local!BindCreated, Local!BindTreated, Local!Break, Local!CanCancel, Local!CanComplete,
       Local!CanDefer, Local!CanFail, Local!CanGo, Local!CanStart, Local!CanStartRun, Local!Cancel,
       Local!CancelRun, Local!Claim, Local!Claimable, Local!Clock, Local!Complete, Local!CompleteRun,
       Local!CompleteRunStep, Local!Crash, Local!CreateRun, Local!DeadLetterRun, Local!DeadLetterStep,
       Local!Defer, Local!DeferStep, Local!Diagnose, Local!Dispatch, Local!DispatchEnqueue,
       Local!DispatchQueue, Local!Enqueue, Local!Exhausted, Local!ExpireLeases, Local!ExpireStaleRuns,
       Local!Fail, Local!FailJobStep, Local!FailRun, Local!FailRunStep, Local!FailThrows, Local!Forget,
       Local!ForgetRuns, Local!Go, Local!Goto, Local!Heartbeat, Local!HeartbeatRun, Local!Held, Local!Holds,
       Local!JobBeaten, Local!JobDue, Local!JobIs, Local!JobLapses, Local!JobNext, Local!JobTo, Local!Lease,
       Local!LeaseLapses, Local!LeaseRun, Local!LeaseRunStep, Local!Leave, Local!Next, Local!NotExecutable,
       Local!OnJobs, Local!OnRuns, Local!Operate, Local!Outer, Local!QueueRoute, Local!QueueRun,
       Local!RecordRootCause, Local!Recover, Local!Requeue, Local!Retry, Local!RetryThrows,
       Local!RollbackRun, Local!RootCause, Local!RouteStart, Local!RunBeaten, Local!RunInactive,
       Local!RunIs, Local!RunLapses, Local!RunLeaseLapses, Local!RunLeased, Local!RunNext, Local!RunsRoute,
       Local!ScheduleRetry, Local!Settle, Local!SettleStep, Local!Settled, Local!StaleRuns, Local!Start,
       Local!StartJob, Local!StartRun, Local!StartRunStep, Local!Step, Local!Succeed, Local!ThreadFree,
       Local!Treatment, Local!Unfinished, Local!Verify, Local!cycleVars, Local!jobVars, Local!run,
       Local!runVars

LEMMA StalledIs == Stalled!Next <=> S!Next
BY DEF S!Active, S!At, S!Awaiting, S!BackoffElapses, S!Beat, S!Beating, S!BeginCycle, S!BeginDiagnosis,
       S!BeginRecovery, S!BeginVerification, S!BindCreated, S!BindTreated, S!Break, S!CanCancel,
       S!CanComplete, S!CanDefer, S!CanFail, S!CanGo, S!CanStart, S!CanStartRun, S!Cancel, S!CancelRun,
       S!Claim, S!Claimable, S!Clock, S!Complete, S!CompleteRun, S!CompleteRunStep, S!Crash, S!CreateRun,
       S!DeadLetterRun, S!DeadLetterStep, S!Defer, S!DeferStep, S!Diagnose, S!Dispatch, S!DispatchEnqueue,
       S!DispatchQueue, S!Enqueue, S!Exhausted, S!ExpireLeases, S!ExpireStaleRuns, S!Fail, S!FailJobStep,
       S!FailRun, S!FailRunStep, S!FailThrows, S!Forget, S!ForgetRuns, S!Go, S!Goto, S!Heartbeat,
       S!HeartbeatRun, S!Held, S!Holds, S!JobBeaten, S!JobDue, S!JobIs, S!JobLapses, S!JobNext, S!JobTo,
       S!Lease, S!LeaseLapses, S!LeaseRun, S!LeaseRunStep, S!Leave, S!Next, S!NotExecutable, S!OnJobs,
       S!OnRuns, S!Operate, S!Outer, S!QueueRoute, S!QueueRun, S!RecordRootCause, S!Recover, S!Requeue,
       S!Retry, S!RetryThrows, S!RollbackRun, S!RootCause, S!RouteStart, S!RunBeaten, S!RunInactive,
       S!RunIs, S!RunLapses, S!RunLeaseLapses, S!RunLeased, S!RunNext, S!RunsRoute, S!ScheduleRetry,
       S!Settle, S!SettleStep, S!Settled, S!StaleRuns, S!Start, S!StartJob, S!StartRun, S!StartRunStep,
       S!Step, S!Succeed, S!ThreadFree, S!Treatment, S!Unfinished, S!Verify, S!cycleVars, S!jobVars, S!run,
       S!runVars, Stalled!Active, Stalled!At, Stalled!Awaiting, Stalled!BackoffElapses, Stalled!Beat,
       Stalled!Beating, Stalled!BeginCycle, Stalled!BeginDiagnosis, Stalled!BeginRecovery,
       Stalled!BeginVerification, Stalled!BindCreated, Stalled!BindTreated, Stalled!Break,
       Stalled!CanCancel, Stalled!CanComplete, Stalled!CanDefer, Stalled!CanFail, Stalled!CanGo,
       Stalled!CanStart, Stalled!CanStartRun, Stalled!Cancel, Stalled!CancelRun, Stalled!Claim,
       Stalled!Claimable, Stalled!Clock, Stalled!Complete, Stalled!CompleteRun, Stalled!CompleteRunStep,
       Stalled!Crash, Stalled!CreateRun, Stalled!DeadLetterRun, Stalled!DeadLetterStep, Stalled!Defer,
       Stalled!DeferStep, Stalled!Diagnose, Stalled!Dispatch, Stalled!DispatchEnqueue,
       Stalled!DispatchQueue, Stalled!Enqueue, Stalled!Exhausted, Stalled!ExpireLeases,
       Stalled!ExpireStaleRuns, Stalled!Fail, Stalled!FailJobStep, Stalled!FailRun, Stalled!FailRunStep,
       Stalled!FailThrows, Stalled!Forget, Stalled!ForgetRuns, Stalled!Go, Stalled!Goto, Stalled!Heartbeat,
       Stalled!HeartbeatRun, Stalled!Held, Stalled!Holds, Stalled!JobBeaten, Stalled!JobDue, Stalled!JobIs,
       Stalled!JobLapses, Stalled!JobNext, Stalled!JobTo, Stalled!Lease, Stalled!LeaseLapses,
       Stalled!LeaseRun, Stalled!LeaseRunStep, Stalled!Leave, Stalled!Next, Stalled!NotExecutable,
       Stalled!OnJobs, Stalled!OnRuns, Stalled!Operate, Stalled!Outer, Stalled!QueueRoute, Stalled!QueueRun,
       Stalled!RecordRootCause, Stalled!Recover, Stalled!Requeue, Stalled!Retry, Stalled!RetryThrows,
       Stalled!RollbackRun, Stalled!RootCause, Stalled!RouteStart, Stalled!RunBeaten, Stalled!RunInactive,
       Stalled!RunIs, Stalled!RunLapses, Stalled!RunLeaseLapses, Stalled!RunLeased, Stalled!RunNext,
       Stalled!RunsRoute, Stalled!ScheduleRetry, Stalled!Settle, Stalled!SettleStep, Stalled!Settled,
       Stalled!StaleRuns, Stalled!Start, Stalled!StartJob, Stalled!StartRun, Stalled!StartRunStep,
       Stalled!Step, Stalled!Succeed, Stalled!ThreadFree, Stalled!Treatment, Stalled!Unfinished,
       Stalled!Verify, Stalled!cycleVars, Stalled!jobVars, Stalled!run, Stalled!runVars

LEMMA SameInit == Init => L!Init /\ S!Init
BY DEF L!Init, L!JobInit, L!NoJob, L!NoRun, L!RunInit, L!run, S!Init, S!JobInit, S!NoJob, S!NoRun,
       S!RunInit, S!run, Init, JobInit, NoJob, NoRun, RunInit, run

----------------------------------------------------------------------------
(* One setting after the other.                                            *)

\* The module itself: docker, the shared id, kills.
KilledInv == LeaseInv /\ SuccInv /\ UseInv /\ TransInv

\* The local runtime: whatever is under way has a cycle at it.
LocalSetting == L!LeaseInv /\ L!LocalInv /\ L!UseInv /\ L!TransInv

\* Ids of their own, and leases that lapse under a living heartbeat.
StalledSetting == S!UseInv /\ S!TransInv /\ S!LateInv

LEMMA KilledInit == Init => KilledInv
BY LeaseInvInit, UseInvInit, OtherInvsInit DEF KilledInv

LEMMA KilledNext ==
    ASSUME ~Manual, ~Stalls, KilledInv, Next \/ UNCHANGED vars
    PROVE  KilledInv'
<1>1. LeaseInv'
  BY LeaseInvNext DEF KilledInv
<1>2. SuccInv'
  BY SuccNext DEF KilledInv, UseInv
<1>3. UseInv'
  BY UseInvNext DEF KilledInv
<1>4. TransInv'
  BY TransNext DEF KilledInv, UseInv
<1> QED BY <1>1, <1>2, <1>3, <1>4 DEF KilledInv

LEMMA LocalSettingInit == L!Init => LocalSetting
<1> USE AttemptsAssumption, NobodyAssumption, WorkerAssumption
<1>1. L!Init => L!LeaseInv
  BY L!LeaseInvInit
<1>2. L!Init => L!LocalInv
  BY L!LocalInit
<1>3. L!Init => L!UseInv
  BY L!UseInvInit
<1>4. L!Init => L!TransInv
  BY L!OtherInvsInit
<1> QED BY <1>1, <1>2, <1>3, <1>4 DEF LocalSetting

LEMMA LocalSettingNext ==
    ASSUME ~Manual, ~Stalls, LocalSetting, L!Next \/ UNCHANGED L!vars
    PROVE  LocalSetting'
<1> USE AttemptsAssumption, NobodyAssumption, WorkerAssumption
<1>1. L!LeaseInv'
  BY L!LeaseInvNext DEF LocalSetting
<1>2. L!LocalInv'
  BY L!LocalNext DEF LocalSetting, L!UseInv
<1>3. L!UseInv'
  BY L!UseInvNext DEF LocalSetting
<1>4. L!TransInv'
  BY L!TransNext DEF LocalSetting, L!UseInv
<1> QED BY <1>1, <1>2, <1>3, <1>4 DEF LocalSetting

LEMMA StalledSettingInit == S!Init => StalledSetting
<1> USE AttemptsAssumption, NobodyAssumption, WorkerAssumption
<1>1. S!Init => S!UseInv
  BY S!UseInvInit
<1>2. S!Init => S!TransInv
  BY S!OtherInvsInit
<1>3. S!Init => S!LateInv
  BY S!LateInit
<1> QED BY <1>1, <1>2, <1>3 DEF StalledSetting

LEMMA StalledSettingNext ==
    ASSUME StalledSetting, S!Next \/ UNCHANGED S!vars
    PROVE  StalledSetting'
<1> USE AttemptsAssumption, NobodyAssumption, WorkerAssumption
<1>1. S!UseInv'
  BY S!UseInvNext DEF StalledSetting
<1>2. S!TransInv'
  BY S!TransNext DEF StalledSetting, S!UseInv
<1>3. S!OwnersApart
  BY DEF S!OwnersApart
<1>4. S!LateInv'
  BY <1>3, S!LateNext DEF StalledSetting, S!UseInv
<1> QED BY <1>1, <1>2, <1>4 DEF StalledSetting

----------------------------------------------------------------------------
(* The settings together.                                                  *)

SettingInv ==
    /\ setting \in {"crashes", "local", "stalls", "manual"}
    /\ setting = "crashes" => KilledInv
    /\ setting = "local" => LocalSetting
    /\ setting = "stalls" => StalledSetting

LEMMA SettingInit == AnyInit => SettingInv
BY KilledInit, LocalSettingInit, StalledSettingInit, SameInit DEF AnyInit, SettingInv

LEMMA SettingNext ==
    ASSUME ~Manual, ~Stalls, SettingInv, [AnyNext]_anyVars
    PROVE  SettingInv'
<1>1. setting' = setting
  BY DEF AnyNext, anyVars
<1>2. setting = "crashes" => Next \/ UNCHANGED vars
  BY DEF AnyNext, anyVars
<1>3. setting = "local" => L!Next \/ UNCHANGED L!vars
  BY LocalIs, SameVars DEF AnyNext, anyVars
<1>4. setting = "stalls" => S!Next \/ UNCHANGED S!vars
  BY StalledIs, SameVars DEF AnyNext, anyVars
<1>5. setting = "crashes" => KilledInv'
  BY <1>2, KilledNext DEF SettingInv
<1>6. setting = "local" => LocalSetting'
  BY <1>3, LocalSettingNext DEF SettingInv
<1>7. setting = "stalls" => StalledSetting'
  BY <1>4, StalledSettingNext DEF SettingInv
<1> QED BY <1>1, <1>5, <1>6, <1>7 DEF SettingInv

LEMMA SettingAlways ==
    ASSUME ~Manual, ~Stalls
    PROVE  AnySpec => []SettingInv
<1>1. SettingInv /\ [AnyNext]_anyVars => SettingInv'
  BY SettingNext
<1> QED BY SettingInit, <1>1, PTL DEF AnySpec

----------------------------------------------------------------------------
(* What each setting shows.                                                *)

LEMMA KilledShows == KilledInv => SuccessAgrees /\ FailedIsTransient /\ ExecutesUnderLease
BY SuccShows, TransShows, LeaseShows DEF KilledInv

\* Where L asks whether the thread is free the module itself may, with docker,
\* find more cycles that wait; none of them is one of Closing.
LEMMA LocalQueued == LocalSetting => QueuedRunHasJob
<1> SUFFICES ASSUME LocalSetting, ThreadFree, NEW r \in Run, RunIs(r, {"QUEUED"})
             PROVE  \E j \in Job : Unfinished(j) /\ jobs[j].run = r
  BY DEF QueuedRunHasJob
<1>1. ~L!Closing(r)
  BY DEF L!Closing, L!AtEnd, ThreadFree, Awaiting
<1>2. L!Covered(r)
  BY <1>1 DEF LocalSetting, L!LocalInv, L!StandingCovered, L!Standing, L!RunIs, RunIs
<1> QED BY <1>2 DEF L!Covered, L!OfItsRun, L!Unfinished, L!JobIs, L!Held,
           ThreadFree, Settled, Unfinished, JobIs, Held

LEMMA LocalSettingShows ==
    LocalSetting => FailedIsTransient /\ ExecutesUnderLease /\ OneRunPerTask
<1> SUFFICES ASSUME LocalSetting PROVE FailedIsTransient /\ ExecutesUnderLease /\ OneRunPerTask
  OBVIOUS
<1>1. FailedIsTransient
  BY DEF LocalSetting, L!TransInv, L!JobIs, FailedIsTransient, JobIs
<1>2. ExecutesUnderLease
  BY DEF LocalSetting, L!LeaseInv, L!Stand, L!Has, L!JobIs, L!OnHand, L!RunIs, L!run,
         ExecutesUnderLease, Executing, JobIs, RunIs, run
<1>3. OneRunPerTask
  BY DEF LocalSetting, L!LocalInv, L!LiveAlone, L!Live, L!Active, L!RunIs, L!RunInactive,
         OneRunPerTask, Active, RunIs, RunInactive
<1> QED BY <1>1, <1>2, <1>3

LEMMA StalledShows == StalledSetting => FailedIsTransient
BY DEF StalledSetting, S!TransInv, S!JobIs, FailedIsTransient, JobIs

----------------------------------------------------------------------------
(* The properties of the runs.                                             *)

\* Job and run agree in the two stores under every setting but the operator's,
\* for any number of cycles, jobs and runs: FAILED is passed through unless a
\* process is killed between the two writes (queue.ts:9-11,210-217), success is
\* told to both (worker.ts:170-171), and a waiting run has its job (worker.ts:82).
THEOREM StoresAlwaysAgree ==
    ASSUME ~Manual, ~Stalls
    PROVE  AnySpec => []StoresAgree
<1>1. SettingInv => StoresAgree
  BY KilledShows, LocalQueued, LocalSettingShows, StalledShows DEF SettingInv, StoresAgree
<1> QED BY <1>1, SettingAlways, PTL

\* A cycle executes under its own lease, with either runtime and whenever the
\* process is killed, as long as heartbeats come in time (worker.ts:114-160).
THEOREM LeasesAlwaysCover ==
    ASSUME ~Manual, ~Stalls
    PROVE  AnySpec => []LeasesCover
<1>1. SettingInv => LeasesCover
  BY KilledShows, LocalSettingShows DEF SettingInv, LeasesCover
<1> QED BY <1>1, SettingAlways, PTL

\* With the local runtime a task has one active run, however many are dispatched
\* and whichever are retried or recovered (runs.ts:15-16,113).
THEOREM TasksAlwaysHaveOneRun ==
    ASSUME ~Manual, ~Stalls
    PROVE  AnySpec => []TasksHaveOneRun
<1>1. SettingInv => TasksHaveOneRun
  BY LocalSettingShows DEF SettingInv, TasksHaveOneRun
<1> QED BY <1>1, SettingAlways, PTL

\* With ids of their own a late answer settles nothing: the job keeps its state
\* when the attempt that was executed is no longer the job's (queue.ts:18,
\* worker.ts:170).
THEOREM LateAnswersSettle ==
    ASSUME ~Manual, ~Stalls
    PROVE  AnySpec => LateAnswersSettleNothing
<1> DEFINE A == setting = "stalls" =>
                  \A c \in Cycle : /\ pc[c] \in {"execute", "failJob"} /\ pc'[c] # pc[c]
                                   /\ jobs[job[c]].attempt # ticket[c]
                                   => jobs'[job[c]].state = jobs[job[c]].state
<1>1. SettingInv /\ [AnyNext]_anyVars => [A]_anyVars
  <2> SUFFICES ASSUME SettingInv, [AnyNext]_anyVars, setting = "stalls", NEW c \in Cycle,
                      pc[c] \in {"execute", "failJob"}, pc'[c] # pc[c], jobs[job[c]].attempt # ticket[c]
               PROVE  jobs'[job[c]].state = jobs[job[c]].state
    OBVIOUS
  <2>1. S!Next \/ UNCHANGED S!vars
    BY StalledIs, SameVars DEF AnyNext, anyVars
  <2>2. S!Named /\ S!IJobs /\ S!LateInv
    BY DEF SettingInv, StalledSetting, S!UseInv
  <2> QED BY <2>1, <2>2, S!LateSettlesNothing, AttemptsAssumption, NobodyAssumption, WorkerAssumption
<1> HIDE DEF A
<1>2. AnySpec => [][A]_anyVars
  BY <1>1, SettingAlways, PTL DEF AnySpec
<1> QED BY <1>2 DEF LateAnswersSettleNothing, A
=============================================================================
