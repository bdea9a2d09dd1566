------------------------------ MODULE MCWorkers ------------------------------
(* AgentWorker under four settings in one run: the initial state chooses one *)
(* and it stays.  The first setting is the module itself with the constants  *)
(* of the configuration (docker, the shared id, kills); the others instance  *)
(* it.  The operator of the last one works on a run of his own, r3, with one *)
(* cycle.                                                                    *)
EXTENDS MCAgentWorker

CONSTANTS
    r3,
    OwnId    \* other worker ids, one for each cycle

ASSUME OwnIdAssumption ==
    /\ OwnId \in [Cycle -> Worker]
    /\ \A c \in Cycle : OwnId[c] # Operator
    /\ \A c, d \in Cycle : OwnId[c] = OwnId[d] => c = d

VARIABLE setting

Local == INSTANCE AgentWorker WITH Docker <- FALSE, MaxCrashes <- 0
Stalled == INSTANCE AgentWorker WITH Owner <- OwnId, Stalls <- TRUE, MaxCrashes <- 0
ByHand == INSTANCE AgentWorker WITH
             Cycle <- OneCycle, Run <- {r3}, Task <- TwoTasks, Posted <- SecondTask,
             Manual <- TRUE, MaxCrashes <- 0, MaxStarts <- 3

anyVars == <<vars, setting>>

AnyInit ==
    \/ setting \in {"crashes", "local", "stalls"} /\ Init
    \/ setting = "manual" /\ ByHand!Init

AnyNext ==
    /\ \/ setting = "crashes" /\ Next
       \/ setting = "local" /\ Local!Next
       \/ setting = "stalls" /\ Stalled!Next
       \/ setting = "manual" /\ ByHand!Next
    /\ UNCHANGED setting

AnySpec == AnyInit /\ [][AnyNext]_anyVars

\* The first setting alone, with the fairness of AgentWorker.
LiveInit == setting = "crashes" /\ Init
LiveSpec == LiveInit /\ [][AnyNext]_anyVars /\ Fairness

----------------------------------------------------------------------------
(* The properties of AgentWorker, each under the settings it is about.       *)

\* Job and run agree in the two stores: on success as soon as the thread is
\* free, and FAILED is a state jobs pass through, unless the process was killed
\* between the two writes (worker.ts:170-171, queue.ts:9-11,210-217); with the
\* local runtime a run that waits has a job that waits or runs (worker.ts:82,
\* 210-211).
StoresAgree ==
    /\ setting = "crashes" => SuccessAgrees
    /\ setting # "manual" => FailedIsTransient
    /\ setting = "local" => QueuedRunHasJob

\* A cycle executes under its lease as long as no lease lapses under a living
\* heartbeat (worker.ts:114-160, queue.ts:18).
LeasesCover == setting \in {"crashes", "local"} => ExecutesUnderLease

\* The answer of an execution settles the job only if the job is still at the
\* attempt that was executed, when the cycles have ids of their own (queue.ts:18,
\* worker.ts:170).
LateAnswersSettleNothing ==
    [][setting = "stalls" =>
         \A c \in Cycle : /\ pc[c] \in {"execute", "failJob"} /\ pc'[c] # pc[c]
                          /\ jobs[job[c]].attempt # ticket[c]
                          => jobs'[job[c]].state = jobs[job[c]].state]_anyVars

\* With the local runtime a task has one active run (runs.ts:15-16, 113).
TasksHaveOneRun == setting = "local" => OneRunPerTask
=============================================================================
