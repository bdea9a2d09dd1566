------------------------------ MODULE JobQueue ------------------------------
(***************************************************************************)
(* The job queue of lib/queue.ts.                                          *)
(*                                                                         *)
(* Every exported operation is an action.  A call that the code refuses,   *)
(* by returning null or by throwing, is a step that is not enabled; a      *)
(* caller that goes on after a refusal tests the Can... guard itself.      *)
(* failJob and expireLeases write a job twice, first FAILED, then QUEUED   *)
(* or DEAD_LETTER: the jobs between the two writes are in "settling", and  *)
(* a crash there leaves them FAILED.                                       *)
(*                                                                         *)
(* Time is abstracted to its two effects on a job: a lease lapses, and the *)
(* backoff of a waiting job elapses.  Priorities are left out: any         *)
(* claimable job may be the next one.                                      *)
(*                                                                         *)
(* A definition marked "Variant" is a deliberately wrong form of the one   *)
(* after it: with the variant in its place a property below is violated.   *)
(***************************************************************************)
EXTENDS Attempts

CONSTANTS
    Job,    \* job ids: the bound on how many jobs are ever enqueued
    Worker  \* worker ids, as stored in leaseOwner

ASSUME NobodyAssumption == Nobody \notin Worker \cup Run \cup Job

VARIABLES
    jobs,      \* the payload of the store "queue"
    settling   \* jobs whose second write is still to come

jobVars == <<jobs, settling>>

Held == {"LEASED", "RUNNING"}
JobEnd == {"SUCCEEDED", "CANCELLED", "DEAD_LETTER"}
JobStates == Held \cup JobEnd \cup {"ABSENT", "QUEUED", "FAILED"}

NoJob == [state |-> "ABSENT", run |-> Nobody, attempt |-> 0, owner |-> Nobody,
          lease |-> "none", waiting |-> FALSE]

JobTypeOK ==
    /\ jobs \in [Job -> [state : JobStates, run : Run \cup {Nobody},
                         attempt : 0..MaxAttempts, owner : Worker \cup {Nobody},
                         lease : {"none", "live", "lapsed"}, waiting : BOOLEAN]]
    /\ settling \in SUBSET Job

JobInit == jobs = [j \in Job |-> NoJob] /\ settling = {}

\* JOB_TRANSITIONS.
JobNext(s) ==
    CASE s = "QUEUED"  -> {"LEASED", "CANCELLED", "DEAD_LETTER"}
      [] s = "LEASED"  -> {"RUNNING", "QUEUED", "FAILED", "CANCELLED"}
      [] s = "RUNNING" -> {"SUCCEEDED", "FAILED", "CANCELLED"}
      [] s = "FAILED"  -> {"QUEUED", "DEAD_LETTER", "CANCELLED"}
      [] OTHER         -> {}

JobIs(j, states) == jobs[j].state \in states
Unfinished(j) == JobIs(j, {"QUEUED"} \cup Held)

\* transition and writeJob: the job is written as a whole.
JobTo(j, s, lease, waiting, owner) ==
    jobs' = [jobs EXCEPT ![j] = [@ EXCEPT !.state = s, !.lease = lease,
                                          !.waiting = waiting, !.owner = owner]]

----------------------------------------------------------------------------
\* Variant: a running job counts as finished.
EnqueueAgain(r) ==
    /\ \/ /\ \E j \in Job : JobIs(j, {"QUEUED"}) /\ jobs[j].run = r
          /\ UNCHANGED jobs
       \/ /\ \A j \in Job : JobIs(j, {"QUEUED"}) => jobs[j].run # r
          /\ \E j \in Job : /\ JobIs(j, {"ABSENT"})
                            /\ jobs' = [jobs EXCEPT ![j] = [@ EXCEPT !.state = "QUEUED", !.run = r]]
    /\ UNCHANGED settling

\* The idempotency key is "job:" and the run: an unfinished job of the same
\* run is returned instead of a second one.
Enqueue(r) ==
    /\ \/ /\ \E j \in Job : Unfinished(j) /\ jobs[j].run = r
          /\ UNCHANGED jobs
       \/ /\ \A j \in Job : Unfinished(j) => jobs[j].run # r
          /\ \E j \in Job : /\ JobIs(j, {"ABSENT"})
                            /\ jobs' = [jobs EXCEPT ![j] = [@ EXCEPT !.state = "QUEUED", !.run = r]]
    /\ UNCHANGED settling

Claimable(j) == JobIs(j, {"QUEUED"}) /\ jobs[j].attempt < MaxAttempts /\ ~jobs[j].waiting

\* leaseJob, and claimNextJob through it: the lease counts the attempt.
Lease(j, w) ==
    /\ Claimable(j)
    /\ jobs' = [jobs EXCEPT ![j] = [@ EXCEPT !.state = "LEASED", !.owner = w, !.lease = "live",
                                             !.attempt = jobs[j].attempt + 1]]
    /\ UNCHANGED settling

\* Variant: the owner is not compared.
HoldsAnyway(j, w) == j \in Job /\ w \in Worker \cup {Nobody}

\* A caller that names itself must be the lease owner.
Holds(j, w) == w = Nobody \/ jobs[j].owner \in {Nobody, w}

CanStart(j, w) == JobIs(j, {"LEASED"}) /\ Holds(j, w)
Start(j, w) ==
    /\ CanStart(j, w)
    /\ JobTo(j, "RUNNING", "live", jobs[j].waiting, jobs[j].owner)
    /\ UNCHANGED settling

Heartbeat(j, w) ==
    /\ JobIs(j, Held) /\ Holds(j, w)
    /\ jobs' = [jobs EXCEPT ![j].lease = "live"]
    /\ UNCHANGED settling

\* LEASED passes completeJob's own test but not the table of transitions.
CanComplete(j, w) == JobIs(j, {"RUNNING"}) /\ Holds(j, w)
Complete(j, w) ==
    /\ CanComplete(j, w)
    /\ JobTo(j, "SUCCEEDED", "none", jobs[j].waiting, jobs[j].owner)
    /\ UNCHANGED settling

\* The first write of failJob; on a QUEUED job the transition throws.
CanFail(j, w) == JobIs(j, Held) /\ Holds(j, w)
FailThrows(j, w) == JobIs(j, {"QUEUED"}) /\ Holds(j, w)

Fail(j, w) ==
    /\ CanFail(j, w)
    /\ JobTo(j, "FAILED", "none", jobs[j].waiting, jobs[j].owner)
    /\ settling' = settling \cup {j}

\* Variants: any held lease counts as lapsed; only unstarted jobs expire.
ExpireHeld ==
    LET held == {j \in Job : JobIs(j, Held)}
    IN  /\ jobs' = [j \in Job |-> IF j \in held
                                  THEN [jobs[j] EXCEPT !.state = "FAILED", !.lease = "none"]
                                  ELSE jobs[j]]
        /\ settling' = settling \cup held
ExpireLeased ==
    LET lapsed == {j \in Job : JobIs(j, {"LEASED"}) /\ jobs[j].lease = "lapsed"}
    IN  /\ jobs' = [j \in Job |-> IF j \in lapsed
                                  THEN [jobs[j] EXCEPT !.state = "FAILED", !.lease = "none"]
                                  ELSE jobs[j]]
        /\ settling' = settling \cup lapsed

\* The first write of expireLeases, for every job whose lease lapsed.
ExpireLeases ==
    LET lapsed == {j \in Job : JobIs(j, Held) /\ jobs[j].lease = "lapsed"}
    IN  /\ jobs' = [j \in Job |-> IF j \in lapsed
                                  THEN [jobs[j] EXCEPT !.state = "FAILED", !.lease = "none"]
                                  ELSE jobs[j]]
        /\ settling' = settling \cup lapsed

\* The second write of both: a retry with backoff, or the dead letter.
Settle(j) ==
    /\ j \in settling
    /\ IF jobs[j].attempt >= MaxAttempts
       THEN JobTo(j, "DEAD_LETTER", "none", jobs[j].waiting, jobs[j].owner)
       ELSE JobTo(j, "QUEUED", "none", TRUE, Nobody)
    /\ settling' = settling \ {j}

\* deferJob asks neither who calls nor who holds the lease.
CanDefer(j) == JobIs(j, {"QUEUED", "LEASED"})
Defer(j) ==
    /\ CanDefer(j)
    /\ JobTo(j, "QUEUED", "none", TRUE, Nobody)
    /\ UNCHANGED settling

CanCancel(j) == "CANCELLED" \in JobNext(jobs[j].state)
Cancel(j) ==
    /\ CanCancel(j)
    /\ JobTo(j, "CANCELLED", "none", jobs[j].waiting, jobs[j].owner)
    /\ UNCHANGED settling

\* Date.now() passes leasedUntil, or nextAttemptAt.
LeaseLapses(j) ==
    /\ JobIs(j, Held) /\ jobs[j].lease = "live"
    /\ jobs' = [jobs EXCEPT ![j].lease = "lapsed"]
    /\ UNCHANGED settling
BackoffElapses(j) ==
    /\ JobIs(j, {"QUEUED"}) /\ jobs[j].waiting
    /\ jobs' = [jobs EXCEPT ![j].waiting = FALSE]
    /\ UNCHANGED settling

\* The process dies; what was to be written second is never written.
Forget == settling' = {} /\ UNCHANGED jobs

JobStep ==
    \/ \E r \in Run : Enqueue(r)
    \/ ExpireLeases
    \/ \E j \in Job : \/ Defer(j) \/ Cancel(j) \/ LeaseLapses(j) \/ BackoffElapses(j)
                      \/ \E w \in Worker : Lease(j, w)
                      \/ \E w \in Worker \cup {Nobody} :
                            Start(j, w) \/ Heartbeat(j, w) \/ Complete(j, w) \/ Fail(j, w)

\* Calls of arbitrary callers; each runs to its end unless the process dies.
JobQueueNext ==
    \/ settling = {} /\ JobStep
    \/ \E j \in Job : Settle(j)
    \/ Forget

JobQueueSpec == JobInit /\ [][JobQueueNext]_jobVars
----------------------------------------------------------------------------
(* Properties.                                                             *)

\* A job in a final state is never written again, whoever calls and whenever
\* an answer or an expiry arrives (queue.ts:51-59, JOB_TRANSITIONS).
FinishedForGood == [][\A j \in Job : JobIs(j, JobEnd) => jobs'[j] = jobs[j]]_jobVars

\* A job is given up only when all its attempts were made (queue.ts:214, 245).
DeadLetterExhausted == \A j \in Job : JobIs(j, {"DEAD_LETTER"}) => jobs[j].attempt = MaxAttempts

\* The owner check of queue.ts:18 tests something: a held job has an owner, and
\* a job back in the queue none, so an old owner's late call cannot pass for
\* the call of the next one.
OwnedIffHeld ==
    \A j \in Job : /\ JobIs(j, Held) => jobs[j].owner # Nobody
                   /\ JobIs(j, {"QUEUED"}) => jobs[j].owner = Nobody

\* "idempotencyKey verhindert die doppelte Ausfuehrung" (queue.ts:16-17): two
\* unfinished jobs never stand for the same run.
OneJobPerRun ==
    \A i, j \in Job : Unfinished(i) /\ Unfinished(j) /\ jobs[i].run = jobs[j].run => i = j

----------------------------------------------------------------------------
\* The inductive invariant behind the properties of JobQueueSpec: an id not in
\* use is blank, a job between its two writes is FAILED, and counts as the job
\* of its run, because its second write may put it back into the queue.
OfItsRun(j) == Unfinished(j) \/ j \in settling

JobsSound ==
    /\ \A j \in Job : JobIs(j, {"ABSENT"}) => jobs[j] = NoJob
    /\ \A j \in settling : JobIs(j, {"FAILED"})
    /\ \A i, j \in Job : OfItsRun(i) /\ OfItsRun(j) /\ jobs[i].run = jobs[j].run => i = j
    /\ DeadLetterExhausted /\ OwnedIffHeld
=============================================================================
