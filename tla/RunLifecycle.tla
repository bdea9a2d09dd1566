---------------------------- MODULE RunLifecycle ----------------------------
(***************************************************************************)
(* The run lifecycle of lib/runs.ts.                                       *)
(*                                                                         *)
(* As in JobQueue, an operation is an action, a refused call is a step     *)
(* that is not enabled, and the runs between the two writes of             *)
(* expireStaleRuns are in "requeuing".  The lease of a run outlives the    *)
(* state it was given in, so it is kept apart from the state; a retry's    *)
(* nextAttemptAt is left out because nothing reads it.                     *)
(*                                                                         *)
(* A definition marked "Variant" is a deliberately wrong form of the one   *)
(* after it.                                                               *)
(***************************************************************************)
EXTENDS Attempts

CONSTANT
    Task   \* what runs are idempotent by: the values of idempotencyKey

VARIABLES
    runs,        \* the payload of the store "runs"
    requeuing    \* runs whose second write is still to come

runVars == <<runs, requeuing>>

Treatment == {"DIAGNOSING", "ROOT_CAUSE_FOUND", "RECOVERING", "VERIFYING"}
\* The states in which createRun does not find a run any more.
RunInactive == {"ABSENT", "FAILED", "SUCCEEDED", "CANCELLED", "DEAD_LETTER", "ROLLED_BACK"}
RunStates == Treatment \cup RunInactive \cup {"CREATED", "QUEUED", "LEASED", "RUNNING"}
\* The states heartbeatRun renews and expireStaleRuns judges.
RunLeased == {"LEASED", "RUNNING", "RECOVERING", "VERIFYING"}

NoRun == [state |-> "ABSENT", task |-> Nobody, attempt |-> 0, lease |-> "none"]

RunTypeOK ==
    /\ runs \in [Run -> [state : RunStates, task : Task \cup {Nobody}, attempt : Nat,
                         lease : {"none", "live", "lapsed"}]]
    /\ requeuing \in SUBSET Run

RunInit == runs = [r \in Run |-> NoRun] /\ requeuing = {}

\* RUN_TRANSITIONS, without PAUSED, a state no operation leads to.
RunNext(s) ==
    CASE s = "CREATED"          -> {"QUEUED", "CANCELLED"}
      [] s = "QUEUED"           -> {"LEASED", "CANCELLED", "DEAD_LETTER"}
      [] s = "LEASED"           -> {"RUNNING", "QUEUED", "FAILED", "CANCELLED"}
      [] s = "RUNNING"          -> {"SUCCEEDED", "FAILED", "CANCELLED", "RECOVERING", "DIAGNOSING"}
      [] s = "DIAGNOSING"       -> {"ROOT_CAUSE_FOUND", "FAILED", "DEAD_LETTER"}
      [] s = "ROOT_CAUSE_FOUND" -> {"RECOVERING", "FAILED", "DEAD_LETTER"}
      [] s = "RECOVERING"       -> {"VERIFYING", "RUNNING", "FAILED", "ROLLED_BACK", "DEAD_LETTER"}
      [] s = "VERIFYING"        -> {"SUCCEEDED", "FAILED", "ROLLED_BACK", "DEAD_LETTER"}
      [] s = "FAILED"           -> {"QUEUED", "DIAGNOSING", "RECOVERING", "ROLLED_BACK",
                                    "DEAD_LETTER", "CANCELLED"}
      [] s = "ROLLED_BACK"      -> {"QUEUED", "DEAD_LETTER"}
      [] OTHER                  -> {}

RunIs(r, states) == runs[r].state \in states
CanGo(r, s) == s \in RunNext(runs[r].state)
Active(r) == ~RunIs(r, RunInactive)

\* transition, for the operations that ask nothing but the table.
Go(r, s) ==
    /\ CanGo(r, s)
    /\ runs' = [runs EXCEPT ![r].state = s]
    /\ UNCHANGED requeuing

----------------------------------------------------------------------------
\* Variant: a run that was started counts as gone.
CreateRunAgain(t, r) ==
    /\ \/ RunIs(r, {"CREATED", "QUEUED"}) /\ runs[r].task = t /\ UNCHANGED runs
       \/ /\ \A q \in Run : RunIs(q, {"CREATED", "QUEUED"}) => runs[q].task # t
          /\ RunIs(r, {"ABSENT"})
          /\ runs' = [runs EXCEPT ![r] = [@ EXCEPT !.state = "CREATED", !.task = t]]
    /\ UNCHANGED requeuing

\* An active run of the same task is returned instead of a second one.
CreateRun(t, r) ==
    /\ \/ Active(r) /\ runs[r].task = t /\ UNCHANGED runs
       \/ /\ \A q \in Run : Active(q) => runs[q].task # t
          /\ RunIs(r, {"ABSENT"})
          /\ runs' = [runs EXCEPT ![r] = [@ EXCEPT !.state = "CREATED", !.task = t]]
    /\ UNCHANGED requeuing

QueueRun(r) == Go(r, "QUEUED")

LeaseRun(r) ==
    /\ RunIs(r, {"QUEUED"})
    /\ runs' = [runs EXCEPT ![r].state = "LEASED", ![r].lease = "live"]
    /\ UNCHANGED requeuing

\* startRun lets CREATED and QUEUED pass, the table does not, nor FAILED.  A
\* retry from RECOVERING keeps the old lease.
CanStartRun(r) == RunIs(r, {"LEASED", "RECOVERING"})
StartRun(r) ==
    /\ CanStartRun(r)
    /\ runs' = [runs EXCEPT ![r] = [@ EXCEPT !.state = "RUNNING", !.attempt = runs[r].attempt + 1,
                                             !.lease = IF RunIs(r, {"LEASED"}) THEN "live"
                                                       ELSE runs[r].lease]]
    /\ UNCHANGED requeuing

HeartbeatRun(r) ==
    /\ RunIs(r, RunLeased)
    /\ runs' = [runs EXCEPT ![r].lease = "live"]
    /\ UNCHANGED requeuing

CompleteRun(r)       == Go(r, "SUCCEEDED")
FailRun(r)           == Go(r, "FAILED")
BeginDiagnosis(r)    == Go(r, "DIAGNOSING")
RecordRootCause(r)   == Go(r, "ROOT_CAUSE_FOUND")
BeginRecovery(r)     == Go(r, "RECOVERING")
BeginVerification(r) == Go(r, "VERIFYING")
CancelRun(r)         == Go(r, "CANCELLED")
RollbackRun(r)       == Go(r, "ROLLED_BACK")
DeadLetterRun(r)     == Go(r, "DEAD_LETTER")

\* Variant: one attempt too many is allowed.
ExhaustedLate(r) == runs[r].attempt > MaxAttempts

Exhausted(r) == runs[r].attempt >= MaxAttempts

\* scheduleRetry throws when there are attempts left but no way to the queue.
RetryThrows(r) == ~Exhausted(r) /\ ~CanGo(r, "QUEUED")
ScheduleRetry(r) ==
    \/ Exhausted(r) /\ DeadLetterRun(r)
    \/ Exhausted(r) /\ ~CanGo(r, "DEAD_LETTER") /\ UNCHANGED runVars
    \/ ~Exhausted(r) /\ QueueRun(r)

\* expireStaleRuns, for every run whose lease lapsed: the dead letter, where
\* the table has it, for a run without attempts left; FAILED for the others.
ExpireStaleRuns ==
    LET stale == {r \in Run : RunIs(r, RunLeased) /\ runs[r].lease = "lapsed"}
        spent == {r \in stale : Exhausted(r)}
    IN  /\ runs' = [r \in Run |->
                      IF r \in spent
                      THEN [runs[r] EXCEPT !.state = IF CanGo(r, "DEAD_LETTER") THEN "DEAD_LETTER" ELSE @]
                      ELSE IF r \in stale THEN [runs[r] EXCEPT !.state = "FAILED"] ELSE runs[r]]
        /\ requeuing' = requeuing \cup (stale \ spent)

\* ... and its second write.
Requeue(r) ==
    /\ r \in requeuing
    /\ runs' = [runs EXCEPT ![r].state = "QUEUED", ![r].lease = "none"]
    /\ requeuing' = requeuing \ {r}

\* Date.now() passes leaseUntil.
RunLeaseLapses(r) ==
    /\ runs[r].lease = "live"
    /\ runs' = [runs EXCEPT ![r].lease = "lapsed"]
    /\ UNCHANGED requeuing

\* The process dies between the two writes.
ForgetRuns == requeuing' = {} /\ UNCHANGED runs
=============================================================================
