-------------------------- MODULE AgentWorker_proofs --------------------------
(***************************************************************************)
(* Theorems about the job queue, for every order of calls of arbitrary     *)
(* callers, and about the worker, the dispatcher and the routes that use   *)
(* it: for any number of cycles, jobs, runs, workers and attempts.         *)
(***************************************************************************)
EXTENDS AgentWorker, TLAPS

USE AttemptsAssumption, NobodyAssumption

----------------------------------------------------------------------------
(* The queue.                                                              *)

Leases == {"none", "live", "lapsed"}
JobRecord == [state : JobStates, run : Run \cup {Nobody}, attempt : 0..MaxAttempts,
              owner : Worker \cup {Nobody}, lease : Leases, waiting : BOOLEAN]

LEMMA Typed == JobTypeOK <=> jobs \in [Job -> JobRecord] /\ settling \in SUBSET Job
BY DEF JobTypeOK, JobRecord, Leases

\* What JobTo writes: one job, of which run and attempt are kept.
LEMMA JobToWrites ==
    ASSUME JobTypeOK, NEW j \in Job, NEW s \in JobStates, NEW l \in Leases, NEW b \in BOOLEAN,
           NEW w \in Worker \cup {Nobody}, JobTo(j, s, l, b, w)
    PROVE  /\ jobs' \in [Job -> JobRecord]
           /\ jobs'[j].state = s /\ jobs'[j].owner = w /\ jobs'[j].lease = l
           /\ jobs'[j].run = jobs[j].run /\ jobs'[j].attempt = jobs[j].attempt
           /\ \A i \in Job : i # j => jobs'[i] = jobs[i]
<1>1. jobs \in [Job -> JobRecord] /\ jobs[j] \in JobRecord
  BY Typed
<1> DEFINE new == [jobs[j] EXCEPT !.state = s, !.lease = l, !.waiting = b, !.owner = w]
<1>2. new \in JobRecord /\ new.state = s /\ new.owner = w /\ new.lease = l
        /\ new.run = jobs[j].run /\ new.attempt = jobs[j].attempt
  BY <1>1 DEF JobRecord
<1>3. jobs' = [jobs EXCEPT ![j] = new]
  BY DEF JobTo
<1> HIDE DEF new
<1> QED BY <1>1, <1>2, <1>3

----------------------------------------------------------------------------
(* The inductive invariant.  Every operation but Enqueue and ExpireLeases  *)
(* writes one existing job; OneWrite says which writes are harmless.       *)

IJobs == JobTypeOK /\ JobsSound

\* A write to a job that is in use, and that makes it stand for its run only if
\* it did before, keeps the invariant.
LEMMA OneWrite ==
    ASSUME IJobs, NEW j \in Job,
           jobs' \in [Job -> JobRecord],
           \A i \in Job : i # j => jobs'[i] = jobs[i],
           jobs'[j].run = jobs[j].run,
           jobs'[j].state # "ABSENT",
           settling' \in SUBSET Job,
           settling' \ {j} = settling \ {j},
           j \in settling' => jobs'[j].state = "FAILED",
           jobs'[j].state \in {"QUEUED"} \cup Held \/ j \in settling' => OfItsRun(j),
           jobs'[j].state = "DEAD_LETTER" => jobs'[j].attempt = MaxAttempts,
           jobs'[j].state \in Held => jobs'[j].owner # Nobody,
           jobs'[j].state = "QUEUED" => jobs'[j].owner = Nobody
    PROVE  IJobs'
<1>1. JobTypeOK'
  BY Typed DEF JobTypeOK, JobRecord, Leases
<1>2. \A i \in Job : i # j => (OfItsRun(i)' <=> OfItsRun(i))
  BY DEF OfItsRun, Unfinished, JobIs
<1>3. OfItsRun(j)' => OfItsRun(j)
  BY DEF OfItsRun, Unfinished, JobIs
<1>4. \A i \in Job : jobs'[i].run = jobs[i].run
  OBVIOUS
<1>5. (\A i, k \in Job : OfItsRun(i) /\ OfItsRun(k) /\ jobs[i].run = jobs[k].run => i = k)'
  <2>1. ASSUME NEW i \in Job, NEW k \in Job, OfItsRun(i)', OfItsRun(k)', jobs'[i].run = jobs'[k].run
        PROVE  i = k
    <3>1. OfItsRun(i) /\ OfItsRun(k)
      BY <1>2, <1>3, <2>1
    <3> QED BY <1>4, <2>1, <3>1 DEF IJobs, JobsSound
  <2> QED BY <2>1
<1>6. (\A i \in Job : JobIs(i, {"ABSENT"}) => jobs[i] = NoJob)'
  BY DEF IJobs, JobsSound, JobIs, NoJob
<1>7. (\A i \in settling : JobIs(i, {"FAILED"}))'
  BY DEF IJobs, JobsSound, JobIs
<1>8. DeadLetterExhausted'
  BY DEF IJobs, JobsSound, DeadLetterExhausted, JobIs
<1>9. OwnedIffHeld'
  BY DEF IJobs, JobsSound, OwnedIffHeld, JobIs
<1> QED BY <1>1, <1>5, <1>6, <1>7, <1>8, <1>9 DEF IJobs, JobsSound

\* A new job is queued only when no other stands for its run.
LEMMA EnqueueSound ==
    ASSUME IJobs, settling = {}, NEW r \in Run, Enqueue(r)
    PROVE  IJobs'
<1>1. CASE UNCHANGED jobs
  BY <1>1 DEF Enqueue, IJobs, JobTypeOK, JobsSound, JobIs, OfItsRun, Unfinished,
              DeadLetterExhausted, OwnedIffHeld
<1>2. CASE /\ \A j \in Job : Unfinished(j) => jobs[j].run # r
           /\ \E j \in Job : /\ JobIs(j, {"ABSENT"})
                             /\ jobs' = [jobs EXCEPT ![j] = [@ EXCEPT !.state = "QUEUED", !.run = r]]
  <2>1. PICK j \in Job : /\ JobIs(j, {"ABSENT"})
                         /\ jobs' = [jobs EXCEPT ![j] = [@ EXCEPT !.state = "QUEUED", !.run = r]]
    BY <1>2
  <2>2. jobs \in [Job -> JobRecord] /\ jobs[j] \in JobRecord
    BY Typed DEF IJobs
  <2> DEFINE new == [jobs[j] EXCEPT !.state = "QUEUED", !.run = r]
  <2>3. new \in JobRecord /\ new.state = "QUEUED" /\ new.run = r /\ new.owner = jobs[j].owner
    BY <2>2 DEF JobRecord, JobStates
  <2>4. jobs[j].owner = Nobody
    BY <2>1 DEF IJobs, JobsSound, NoJob
  <2>5. jobs' = [jobs EXCEPT ![j] = new]
    BY <2>1
  <2> HIDE DEF new
  <2>6. jobs' \in [Job -> JobRecord] /\ jobs'[j].state = "QUEUED" /\ jobs'[j].run = r
          /\ jobs'[j].owner = Nobody /\ \A i \in Job : i # j => jobs'[i] = jobs[i]
    BY <2>2, <2>3, <2>4, <2>5
  <2>7. settling' = {}
    BY DEF Enqueue
  <2>8. JobTypeOK'
    BY <2>6, <2>7 DEF JobTypeOK, JobRecord, Leases
  <2>9. (\A i, k \in Job : OfItsRun(i) /\ OfItsRun(k) /\ jobs[i].run = jobs[k].run => i = k)'
    <3>1. \A i \in Job : i # j /\ OfItsRun(i)' => OfItsRun(i) /\ jobs'[i].run = jobs[i].run /\ jobs[i].run # r
      BY <1>2, <2>6, <2>7 DEF OfItsRun, Unfinished, JobIs
    <3> QED BY <2>6, <3>1 DEF IJobs, JobsSound
  <2>10. (\A i \in Job : JobIs(i, {"ABSENT"}) => jobs[i] = NoJob)'
    BY <2>6 DEF IJobs, JobsSound, JobIs, NoJob
  <2>11. DeadLetterExhausted' /\ OwnedIffHeld'
    BY <2>6 DEF IJobs, JobsSound, JobIs, DeadLetterExhausted, OwnedIffHeld, Held
  <2> QED BY <2>7, <2>8, <2>9, <2>10, <2>11 DEF IJobs, JobsSound
<1> QED BY <1>1, <1>2 DEF Enqueue

\* The jobs whose lease lapsed stand for their runs until they are settled.
LEMMA ExpireSound ==
    ASSUME IJobs, settling = {}, ExpireLeases
    PROVE  IJobs'
<1> DEFINE lapsed == {j \in Job : JobIs(j, Held) /\ jobs[j].lease = "lapsed"}
<1>1. jobs \in [Job -> JobRecord]
  BY Typed DEF IJobs
<1>2. ASSUME NEW j \in Job
      PROVE  LET new == [jobs[j] EXCEPT !.state = "FAILED", !.lease = "none"]
             IN  /\ new \in JobRecord /\ new.state = "FAILED" /\ new.run = jobs[j].run
  BY <1>1 DEF JobRecord, JobStates, Leases
<1>3. /\ settling' = lapsed
      /\ \A j \in Job : j \in lapsed => jobs'[j].state = "FAILED" /\ jobs'[j].run = jobs[j].run
      /\ \A j \in Job : j \notin lapsed => jobs'[j] = jobs[j]
      /\ jobs' \in [Job -> JobRecord]
  BY <1>1, <1>2 DEF ExpireLeases
<1>4. \A j \in lapsed : j \in Job /\ JobIs(j, Held)
  OBVIOUS
<1> HIDE DEF lapsed
<1>5. JobTypeOK'
  BY <1>3, <1>4 DEF JobTypeOK, JobRecord, Leases
<1>6. \A i \in Job : OfItsRun(i)' => OfItsRun(i) /\ jobs'[i].run = jobs[i].run
  BY <1>3, <1>4 DEF OfItsRun, Unfinished, JobIs, Held
<1>7. (\A i, k \in Job : OfItsRun(i) /\ OfItsRun(k) /\ jobs[i].run = jobs[k].run => i = k)'
  BY <1>6 DEF IJobs, JobsSound
<1>8. (\A i \in Job : JobIs(i, {"ABSENT"}) => jobs[i] = NoJob)'
  BY <1>3 DEF IJobs, JobsSound, JobIs, NoJob
<1>9. (\A i \in settling : JobIs(i, {"FAILED"}))'
  BY <1>3, <1>4 DEF JobIs
<1>10. DeadLetterExhausted' /\ OwnedIffHeld'
  BY <1>3 DEF IJobs, JobsSound, JobIs, DeadLetterExhausted, OwnedIffHeld, Held
<1> QED BY <1>5, <1>7, <1>8, <1>9, <1>10 DEF IJobs, JobsSound

----------------------------------------------------------------------------
(* Operations that write one job through JobTo.                            *)

LEMMA StartSound ==
    ASSUME IJobs, settling = {}, NEW j \in Job, NEW w \in Worker \cup {Nobody}, Start(j, w)
    PROVE  IJobs'
<1>1. jobs[j] \in JobRecord /\ JobIs(j, {"LEASED"}) /\ jobs[j].owner # Nobody
  BY Typed DEF IJobs, Start, CanStart, JobsSound, OwnedIffHeld, JobIs, Held
<1>2. JobTo(j, "RUNNING", "live", jobs[j].waiting, jobs[j].owner) /\ settling' = {}
  BY DEF Start
<1>3. JobTypeOK /\ "RUNNING" \in JobStates /\ "live" \in Leases
        /\ jobs[j].waiting \in BOOLEAN /\ jobs[j].owner \in Worker \cup {Nobody}
  BY <1>1 DEF IJobs, JobStates, Leases, JobRecord, Held
<1>4. OfItsRun(j)
  BY <1>1 DEF OfItsRun, Unfinished, JobIs, Held
<1> QED BY <1>1, <1>2, <1>3, <1>4, JobToWrites, OneWrite DEF Held

LEMMA EndSound ==
    ASSUME IJobs, settling = {}, NEW j \in Job, ~JobIs(j, {"ABSENT"}),
           NEW s \in {"SUCCEEDED", "CANCELLED"}, settling' = {},
           JobTo(j, s, "none", jobs[j].waiting, jobs[j].owner)
    PROVE  IJobs'
<1>1. jobs[j] \in JobRecord
  BY Typed DEF IJobs
<1>2. JobTypeOK /\ s \in JobStates /\ "none" \in Leases
        /\ jobs[j].waiting \in BOOLEAN /\ jobs[j].owner \in Worker \cup {Nobody}
  BY <1>1 DEF IJobs, JobStates, JobEnd, Leases, JobRecord
<1> QED BY <1>1, <1>2, JobToWrites, OneWrite DEF Held

LEMMA FailSound ==
    ASSUME IJobs, settling = {}, NEW j \in Job, NEW w \in Worker \cup {Nobody}, Fail(j, w)
    PROVE  IJobs'
<1>1. jobs[j] \in JobRecord /\ JobIs(j, Held)
  BY Typed DEF IJobs, Fail, CanFail
<1>2. JobTo(j, "FAILED", "none", jobs[j].waiting, jobs[j].owner) /\ settling' = {j}
  BY DEF Fail
<1>3. JobTypeOK /\ "FAILED" \in JobStates /\ "none" \in Leases
        /\ jobs[j].waiting \in BOOLEAN /\ jobs[j].owner \in Worker \cup {Nobody}
  BY <1>1 DEF IJobs, JobStates, Leases, JobRecord
<1>4. OfItsRun(j)
  BY <1>1 DEF OfItsRun, Unfinished, JobIs
<1> QED BY <1>1, <1>2, <1>3, <1>4, JobToWrites, OneWrite DEF Held

LEMMA DeferSound ==
    ASSUME IJobs, settling = {}, NEW j \in Job, Defer(j)
    PROVE  IJobs'
<1>1. jobs[j] \in JobRecord /\ JobIs(j, {"QUEUED", "LEASED"})
  BY Typed DEF IJobs, Defer, CanDefer
<1>2. JobTo(j, "QUEUED", "none", TRUE, Nobody) /\ settling' = {}
  BY DEF Defer
<1>3. /\ JobTypeOK /\ "QUEUED" \in JobStates /\ "none" \in Leases
      /\ Nobody \in Worker \cup {Nobody}
  BY DEF IJobs, JobStates, Leases
<1>4. OfItsRun(j)
  BY <1>1 DEF OfItsRun, Unfinished, JobIs, Held
<1>5. PICK b \in BOOLEAN : JobTo(j, "QUEUED", "none", b, Nobody)
  BY <1>2
<1>6. /\ jobs' \in [Job -> JobRecord]
      /\ jobs'[j].state = "QUEUED" /\ jobs'[j].owner = Nobody /\ jobs'[j].run = jobs[j].run
      /\ \A i \in Job : i # j => jobs'[i] = jobs[i]
  BY <1>3, <1>5, JobToWrites
<1> QED BY <1>2, <1>4, <1>6, OneWrite DEF Held

LEMMA SettleSound ==
    ASSUME IJobs, NEW j \in Job, Settle(j)
    PROVE  IJobs'
<1>1. jobs[j] \in JobRecord /\ j \in settling /\ settling' = settling \ {j} /\ settling \in SUBSET Job
  BY Typed DEF IJobs, Settle
<1>2. JobTypeOK /\ {"QUEUED", "DEAD_LETTER"} \subseteq JobStates /\ "none" \in Leases
        /\ jobs[j].waiting \in BOOLEAN /\ jobs[j].owner \in Worker \cup {Nobody}
        /\ jobs[j].attempt \in 0..MaxAttempts
  BY <1>1 DEF IJobs, JobStates, JobEnd, Leases, JobRecord
<1>3. CASE jobs[j].attempt >= MaxAttempts
  <2>1. JobTo(j, "DEAD_LETTER", "none", jobs[j].waiting, jobs[j].owner)
    BY <1>3 DEF Settle
  <2>2. jobs[j].attempt = MaxAttempts
    BY <1>2, <1>3
  <2> QED BY <1>1, <1>2, <2>1, <2>2, JobToWrites, OneWrite DEF Held, OfItsRun
<1>4. CASE ~(jobs[j].attempt >= MaxAttempts)
  <2>1. JobTo(j, "QUEUED", "none", TRUE, Nobody)
    BY <1>4 DEF Settle
  <2>2. /\ jobs' \in [Job -> JobRecord]
        /\ jobs'[j].state = "QUEUED" /\ jobs'[j].owner = Nobody /\ jobs'[j].run = jobs[j].run
        /\ \A i \in Job : i # j => jobs'[i] = jobs[i]
    BY <1>2, <2>1, JobToWrites
  <2> QED BY <1>1, <2>2, OneWrite DEF Held, OfItsRun
<1> QED BY <1>3, <1>4

----------------------------------------------------------------------------
(* Operations that write some fields of one job.                           *)

LEMMA LeaseSound ==
    ASSUME IJobs, settling = {}, NEW j \in Job, NEW w \in Worker, Lease(j, w)
    PROVE  IJobs'
<1>1. jobs \in [Job -> JobRecord] /\ jobs[j] \in JobRecord /\ JobIs(j, {"QUEUED"})
        /\ jobs[j].attempt < MaxAttempts
  BY Typed DEF IJobs, Lease, Claimable
<1> DEFINE new == [jobs[j] EXCEPT !.state = "LEASED", !.owner = w, !.lease = "live",
                              !.attempt = jobs[j].attempt + 1]
<1>2. new \in JobRecord /\ new.state = "LEASED" /\ new.owner = w /\ new.run = jobs[j].run
  <2>1. jobs[j].attempt + 1 \in 0..MaxAttempts
    BY <1>1 DEF JobRecord
  <2> QED BY <1>1, <2>1 DEF JobRecord, JobStates, Held, Leases
<1>3. jobs' = [jobs EXCEPT ![j] = new] /\ settling' = {}
  BY DEF Lease
<1> HIDE DEF new
<1>4. OfItsRun(j) /\ w # Nobody
  BY <1>1 DEF OfItsRun, Unfinished, JobIs
<1> QED BY <1>1, <1>2, <1>3, <1>4, OneWrite DEF Held

\* Heartbeats, lapsing leases and elapsing backoffs leave a job where it is.
LEMMA ClockSound ==
    ASSUME IJobs, settling = {}, settling' = {}, NEW j \in Job, ~JobIs(j, {"ABSENT"}),
           NEW l \in Leases, NEW b \in BOOLEAN,
           jobs' = [jobs EXCEPT ![j].lease = l] \/ jobs' = [jobs EXCEPT ![j].waiting = b]
    PROVE  IJobs'
<1>1. jobs \in [Job -> JobRecord] /\ jobs[j] \in JobRecord
  BY Typed DEF IJobs
<1>2. /\ jobs' \in [Job -> JobRecord]
      /\ \A i \in Job : i # j => jobs'[i] = jobs[i]
      /\ jobs'[j].state = jobs[j].state /\ jobs'[j].run = jobs[j].run
      /\ jobs'[j].attempt = jobs[j].attempt /\ jobs'[j].owner = jobs[j].owner
  BY <1>1 DEF JobRecord
<1>3. jobs[j].state # "ABSENT"
  BY DEF JobIs
<1>4. jobs[j].state \in {"QUEUED"} \cup Held => OfItsRun(j)
  BY DEF OfItsRun, Unfinished, JobIs
<1>5. /\ jobs[j].state = "DEAD_LETTER" => jobs[j].attempt = MaxAttempts
      /\ jobs[j].state \in Held => jobs[j].owner # Nobody
      /\ jobs[j].state = "QUEUED" => jobs[j].owner = Nobody
  BY DEF IJobs, JobsSound, DeadLetterExhausted, OwnedIffHeld, JobIs
<1> QED BY <1>2, <1>3, <1>4, <1>5, OneWrite

LEMMA StepSound ==
    ASSUME IJobs, JobQueueNext \/ UNCHANGED jobVars
    PROVE  IJobs'
<1>1. CASE settling = {} /\ JobStep
  <2>1. ASSUME NEW r \in Run, Enqueue(r) PROVE IJobs'
    BY <1>1, <2>1, EnqueueSound
  <2>2. CASE ExpireLeases
    BY <1>1, <2>2, ExpireSound
  <2>3. ASSUME NEW j \in Job, Defer(j) PROVE IJobs'
    BY <1>1, <2>3, DeferSound
  <2>4. ASSUME NEW j \in Job, Cancel(j) PROVE IJobs'
    <3>1. ~JobIs(j, {"ABSENT"})
      BY <2>4 DEF Cancel, CanCancel, JobNext, JobIs
    <3>2. JobTo(j, "CANCELLED", "none", jobs[j].waiting, jobs[j].owner) /\ settling' = {}
      BY <1>1, <2>4 DEF Cancel
    <3> QED BY <1>1, <3>1, <3>2, EndSound
  <2>5. ASSUME NEW j \in Job, LeaseLapses(j) \/ BackoffElapses(j) PROVE IJobs'
    <3>1. ~JobIs(j, {"ABSENT"}) /\ settling' = {} /\ "lapsed" \in Leases /\ FALSE \in BOOLEAN
      BY <1>1, <2>5 DEF LeaseLapses, BackoffElapses, JobIs, Held, Leases
    <3>2. jobs' = [jobs EXCEPT ![j].lease = "lapsed"] \/ jobs' = [jobs EXCEPT ![j].waiting = FALSE]
      BY <2>5 DEF LeaseLapses, BackoffElapses
    <3> QED BY <1>1, <3>1, <3>2, ClockSound
  <2>6. ASSUME NEW j \in Job, NEW w \in Worker, Lease(j, w) PROVE IJobs'
    BY <1>1, <2>6, LeaseSound
  <2>7. ASSUME NEW j \in Job, NEW w \in Worker \cup {Nobody}, Start(j, w) PROVE IJobs'
    BY <1>1, <2>7, StartSound
  <2>8. ASSUME NEW j \in Job, NEW w \in Worker \cup {Nobody}, Heartbeat(j, w) PROVE IJobs'
    <3>1. ~JobIs(j, {"ABSENT"}) /\ settling' = {} /\ "live" \in Leases /\ TRUE \in BOOLEAN
      BY <1>1, <2>8 DEF Heartbeat, JobIs, Held, Leases
    <3>2. jobs' = [jobs EXCEPT ![j].lease = "live"]
      BY <2>8 DEF Heartbeat
    <3> QED BY <1>1, <3>1, <3>2, ClockSound
  <2>9. ASSUME NEW j \in Job, NEW w \in Worker \cup {Nobody}, Complete(j, w) PROVE IJobs'
    <3>1. ~JobIs(j, {"ABSENT"})
      BY <2>9 DEF Complete, CanComplete, JobIs
    <3>2. JobTo(j, "SUCCEEDED", "none", jobs[j].waiting, jobs[j].owner) /\ settling' = {}
      BY <1>1, <2>9 DEF Complete
    <3> QED BY <1>1, <3>1, <3>2, EndSound
  <2>10. ASSUME NEW j \in Job, NEW w \in Worker \cup {Nobody}, Fail(j, w) PROVE IJobs'
    BY <1>1, <2>10, FailSound
  <2> QED BY <1>1, <2>1, <2>2, <2>3, <2>4, <2>5, <2>6, <2>7, <2>8, <2>9, <2>10 DEF JobStep
<1>2. ASSUME NEW j \in Job, Settle(j) PROVE IJobs'
  BY <1>2, SettleSound
<1>3. CASE Forget
  BY <1>3 DEF Forget, IJobs, JobTypeOK, JobsSound, OfItsRun, Unfinished, JobIs,
              DeadLetterExhausted, OwnedIffHeld
<1>4. CASE UNCHANGED jobVars
  BY <1>4 DEF jobVars, IJobs, JobTypeOK, JobsSound, OfItsRun, Unfinished, JobIs,
              DeadLetterExhausted, OwnedIffHeld
<1> QED BY <1>1, <1>2, <1>3, <1>4 DEF JobQueueNext

LEMMA InitSound == JobInit => IJobs
<1> SUFFICES ASSUME JobInit PROVE IJobs
  OBVIOUS
<1>1. JobTypeOK
  BY DEF JobInit, NoJob, JobTypeOK, JobStates
<1>2. JobsSound
  BY DEF JobInit, NoJob, JobsSound, OfItsRun, Unfinished, JobIs, Held,
         DeadLetterExhausted, OwnedIffHeld
<1> QED BY <1>1, <1>2 DEF IJobs

LEMMA QueueInvariant == JobQueueSpec => []IJobs
<1>1. JobInit => IJobs
  BY InitSound
<1>2. IJobs /\ [JobQueueNext]_jobVars => IJobs'
  BY StepSound
<1> QED BY <1>1, <1>2, PTL DEF JobQueueSpec

----------------------------------------------------------------------------
\* The queue's payload keeps its shape under every order of calls; above all
\* no attempt counter passes maxAttempts (queue.ts:155-166).
THEOREM JobsTyped == JobQueueSpec => []JobTypeOK
<1>1. IJobs => JobTypeOK
  BY DEF IJobs
<1> QED BY <1>1, QueueInvariant, PTL

\* The inductive invariant of the queue: blank ids, second writes that find
\* the job where the first one left it, one live job per run.
THEOREM JobsAlwaysSound == JobQueueSpec => []JobsSound
<1>1. IJobs => JobsSound
  BY DEF IJobs
<1> QED BY <1>1, QueueInvariant, PTL

\* The idempotency key admits one unfinished job per run, whatever is enqueued,
\* lapses and comes back in between (queue.ts:16-17, 99-146).
THEOREM OneUnfinishedJob == JobQueueSpec => []OneJobPerRun
<1>1. IJobs => OneJobPerRun
  BY DEF IJobs, JobsSound, OneJobPerRun, OfItsRun
<1> QED BY <1>1, QueueInvariant, PTL

\* Held jobs have an owner, queued ones none (queue.ts:18, 155-232).
THEOREM OwnersKept == JobQueueSpec => []OwnedIffHeld
<1>1. IJobs => OwnedIffHeld
  BY DEF IJobs, JobsSound
<1> QED BY <1>1, QueueInvariant, PTL

\* No job is given up with attempts left (queue.ts:214, 245).
THEOREM DeadLettersSpent == JobQueueSpec => []DeadLetterExhausted
<1>1. IJobs => DeadLetterExhausted
  BY DEF IJobs, JobsSound
<1> QED BY <1>1, QueueInvariant, PTL

\* A job in a final state is not written by any operation.
LEMMA EndStays ==
    ASSUME IJobs, JobQueueNext, NEW i \in Job, JobIs(i, JobEnd)
    PROVE  jobs'[i] = jobs[i]
<1>1. jobs \in [Job -> JobRecord]
  BY Typed DEF IJobs
<1>2. ~JobIs(i, {"ABSENT", "QUEUED", "LEASED", "RUNNING", "FAILED"})
  BY DEF JobIs, JobEnd
<1>3. CASE JobStep
  <2>1. ASSUME NEW r \in Run, Enqueue(r) PROVE jobs'[i] = jobs[i]
    <3>1. CASE UNCHANGED jobs
      BY <3>1
    <3>2. CASE \E j \in Job : /\ JobIs(j, {"ABSENT"})
                              /\ jobs' = [jobs EXCEPT ![j] = [@ EXCEPT !.state = "QUEUED", !.run = r]]
      <4>1. PICK j \in Job : /\ JobIs(j, {"ABSENT"})
                             /\ jobs' = [jobs EXCEPT ![j] = [@ EXCEPT !.state = "QUEUED", !.run = r]]
        BY <3>2
      <4>2. i # j
        BY <1>2, <4>1 DEF JobIs
      <4> DEFINE new == [jobs[j] EXCEPT !.state = "QUEUED", !.run = r]
      <4>3. jobs' = [jobs EXCEPT ![j] = new]
        BY <4>1
      <4> HIDE DEF new
      <4> QED BY <1>1, <4>2, <4>3
    <3> QED BY <2>1, <3>1, <3>2 DEF Enqueue
  <2>2. CASE ExpireLeases
    BY <1>2, <2>2 DEF ExpireLeases, JobIs, Held
  <2>3. ASSUME NEW j \in Job, NEW s \in JobStates, NEW l, NEW b, NEW w,
               ~JobIs(j, JobEnd), JobTo(j, s, l, b, w)
        PROVE  jobs'[i] = jobs[i]
    <3> DEFINE new == [jobs[j] EXCEPT !.state = s, !.lease = l, !.waiting = b, !.owner = w]
    <3>1. jobs' = [jobs EXCEPT ![j] = new] /\ i # j
      BY <2>3 DEF JobTo
    <3> HIDE DEF new
    <3> QED BY <1>1, <3>1
  <2>4. ASSUME NEW j \in Job, Defer(j) PROVE jobs'[i] = jobs[i]
    <3>1. ~JobIs(j, JobEnd) /\ "QUEUED" \in JobStates
      BY <2>4 DEF Defer, CanDefer, JobIs, JobEnd, JobStates
    <3> QED BY <2>3, <2>4, <3>1 DEF Defer
  <2>5. ASSUME NEW j \in Job, Cancel(j) PROVE jobs'[i] = jobs[i]
    <3>1. ~JobIs(j, JobEnd) /\ "CANCELLED" \in JobStates
      BY <2>5 DEF Cancel, CanCancel, JobNext, JobIs, JobEnd, JobStates
    <3> QED BY <2>3, <2>5, <3>1 DEF Cancel
  <2>6. ASSUME NEW j \in Job, LeaseLapses(j) \/ BackoffElapses(j) PROVE jobs'[i] = jobs[i]
    <3>1. i # j
      BY <1>2, <2>6 DEF LeaseLapses, BackoffElapses, JobIs, Held
    <3> QED BY <1>1, <2>6, <3>1 DEF LeaseLapses, BackoffElapses
  <2>7. ASSUME NEW j \in Job, NEW w \in Worker, Lease(j, w) PROVE jobs'[i] = jobs[i]
    <3> DEFINE new == [jobs[j] EXCEPT !.state = "LEASED", !.owner = w, !.lease = "live",
                                      !.attempt = jobs[j].attempt + 1]
    <3>1. jobs' = [jobs EXCEPT ![j] = new]
      BY <2>7 DEF Lease
    <3>2. i # j
      BY <1>2, <2>7 DEF Lease, Claimable, JobIs
    <3> HIDE DEF new
    <3> QED BY <1>1, <3>1, <3>2
  <2>8. ASSUME NEW j \in Job, NEW w \in Worker \cup {Nobody}, Heartbeat(j, w)
        PROVE  jobs'[i] = jobs[i]
    <3>1. i # j
      BY <1>2, <2>8 DEF Heartbeat, JobIs, Held
    <3> QED BY <1>1, <2>8, <3>1 DEF Heartbeat
  <2>9. ASSUME NEW j \in Job, NEW w \in Worker \cup {Nobody},
               Start(j, w) \/ Complete(j, w) \/ Fail(j, w)
        PROVE  jobs'[i] = jobs[i]
    <3>1. ~JobIs(j, JobEnd) /\ {"RUNNING", "SUCCEEDED", "FAILED"} \subseteq JobStates
      BY <2>9 DEF Start, CanStart, Complete, CanComplete, Fail, CanFail, JobIs, JobEnd, JobStates, Held
    <3> QED BY <2>3, <2>9, <3>1 DEF Start, Complete, Fail
  <2> QED BY <1>3, <2>1, <2>2, <2>4, <2>5, <2>6, <2>7, <2>8, <2>9 DEF JobStep
<1>4. ASSUME NEW j \in Job, Settle(j) PROVE jobs'[i] = jobs[i]
  <2>1. i # j
    BY <1>2, <1>4 DEF Settle, IJobs, JobsSound, JobIs
  <2>2. \/ JobTo(j, "DEAD_LETTER", "none", jobs[j].waiting, jobs[j].owner)
        \/ JobTo(j, "QUEUED", "none", TRUE, Nobody)
    BY <1>4 DEF Settle
  <2>3. ASSUME NEW s, NEW l, NEW b, NEW w, JobTo(j, s, l, b, w) PROVE jobs'[i] = jobs[i]
    <3> DEFINE new == [jobs[j] EXCEPT !.state = s, !.lease = l, !.waiting = b, !.owner = w]
    <3>1. jobs' = [jobs EXCEPT ![j] = new]
      BY <2>3 DEF JobTo
    <3> HIDE DEF new
    <3> QED BY <1>1, <2>1, <3>1
  <2> QED BY <2>2, <2>3
<1>5. CASE Forget
  BY <1>5 DEF Forget
<1> QED BY <1>3, <1>4, <1>5 DEF JobQueueNext

\* A finished job stays as it is, also against the late answers of an old owner
\* and the second write of an expiry (queue.ts:51-59, 65-73, 234-252).
THEOREM FinishedStay == JobQueueSpec => FinishedForGood
<1>1. IJobs /\ [JobQueueNext]_jobVars => [\A j \in Job : JobIs(j, JobEnd) => jobs'[j] = jobs[j]]_jobVars
  <2> SUFFICES ASSUME IJobs, JobQueueNext, NEW i \in Job, JobIs(i, JobEnd) PROVE jobs'[i] = jobs[i]
    BY DEF jobVars
  <2> QED BY EndStays
<1> QED BY <1>1, QueueInvariant, PTL DEF JobQueueSpec, FinishedForGood

----------------------------------------------------------------------------
(* The worker uses the queue as the queue allows.                          *)

USE WorkerAssumption

\* At most one of the dispatches and cycles has the thread, and while a dispatch
\* has it nothing is half written.
Turn ==
    /\ dispatch.at # "idle" => Settled /\ \A c \in Cycle : pc[c] \in Awaiting
    /\ \A c, d \in Cycle : pc[c] \notin Awaiting /\ pc[d] \notin Awaiting => c = d

\* A cycle that awaits goes on only when the thread is free.
LEMMA StepTurn ==
    ASSUME NEW c \in Cycle, Step(c)
    PROVE  /\ pc[c] \in Awaiting => ThreadFree
           /\ UNCHANGED dispatch
           /\ Settled
           /\ \E m : pc' = [pc EXCEPT ![c] = m]
BY DEF Step, BeginCycle, StaleRuns, Claim, Leave, BindCreated, BindTreated, StartJob,
       LeaseRunStep, NotExecutable, StartRunStep, Succeed, CompleteRunStep, Break, Diagnose,
       RootCause, FailJobStep, DeadLetterStep, FailRunStep, Recover, Verify, DeferStep, Retry,
       Outer, At, OnJobs, OnRuns, Goto

LEMMA TurnNext ==
    ASSUME Turn, pc \in [Cycle -> Labels], [Next]_vars
    PROVE  Turn'
<1>1. ASSUME NEW c \in Cycle, Step(c) PROVE Turn'
  <2>1. \A d \in Cycle : d # c => pc'[d] = pc[d] /\ pc[d] \in Awaiting
    BY <1>1, StepTurn DEF Turn, ThreadFree
  <2>2. dispatch.at = "idle" /\ UNCHANGED dispatch
    BY <1>1, StepTurn DEF Turn, ThreadFree
  <2> QED BY <2>1, <2>2 DEF Turn, Awaiting
<1>2. ASSUME NEW c \in Cycle, Beat(c) PROVE Turn'
  BY <1>2 DEF Turn, Beat, ThreadFree, cycleVars, Awaiting
<1>3. CASE SettleStep
  BY <1>3 DEF Turn, SettleStep, Settled, Settle, Requeue, cycleVars, jobVars, runVars, Awaiting
<1>4. ASSUME NEW t \in Task, Dispatch(t) PROVE Turn'
  BY <1>4 DEF Turn, Dispatch, CreateRun, ThreadFree, Settled, jobVars, cycleVars, Awaiting
<1>5. CASE DispatchEnqueue
  BY <1>5 DEF Turn, DispatchEnqueue, Enqueue, Settled, runVars, cycleVars, Awaiting
<1>6. CASE DispatchQueue \/ Crash
  BY <1>6 DEF Turn, DispatchQueue, Crash, cycleVars, Awaiting
<1>7. CASE Clock \/ Operate
  BY <1>7 DEF Turn, Clock, JobLapses, JobDue, RunLapses, Operate, ThreadFree, cycleVars, Awaiting
<1>8. CASE UNCHANGED vars
  BY <1>8 DEF Turn, vars, Settled, cycleVars, jobVars, runVars, Awaiting
<1> QED BY <1>1, <1>2, <1>3, <1>4, <1>5, <1>6, <1>7, <1>8 DEF Next

\* The labels at which a cycle has claimed no job.
Jobless == {"idle", "stale", "reconcile", "claim"}

\* Wherever a cycle or a dispatch is about to touch the queue it has a job, or
\* a run, to name.
Named ==
    /\ pc \in [Cycle -> Labels]
    /\ job \in [Cycle -> Job \cup {Nobody}]
    /\ \A c \in Cycle : pc[c] \notin Jobless => job[c] \in Job
    /\ dispatch \in [at : {"idle", "enqueue", "queue"}, run : Run \cup {Nobody}]
    /\ dispatch.at = "enqueue" => dispatch.run \in Run

LEMMA Moves ==
    ASSUME Named, NEW c \in Cycle, NEW label \in Labels, Goto(c, label), UNCHANGED dispatch,
           label \in Jobless \/ pc[c] \notin Jobless
    PROVE  Named'
BY DEF Named, Goto

LEMMA NamedInit == Init => Named
BY DEF Init, Named, Labels, Jobless

\* A cycle's step keeps Named.
LEMMA NamedStep ==
    ASSUME Named, NEW c \in Cycle, Step(c)
    PROVE  Named'
<1>1. CASE Claim(c)
  BY <1>1 DEF Claim, Named, Labels, Jobless
<1>2. ASSUME NEW l \in Jobless, NEW m \in Labels, pc[c] = l, Goto(c, m), m \in Jobless,
             UNCHANGED dispatch
      PROVE  Named'
  BY <1>2, Moves
<1>3. ASSUME NEW m \in Labels, pc[c] \notin Jobless, Goto(c, m), UNCHANGED dispatch
      PROVE  Named'
  BY <1>3, Moves
<1>4. CASE BeginCycle(c) \/ StaleRuns(c) \/ Leave(c)
  BY <1>2, <1>4 DEF BeginCycle, StaleRuns, Leave, At, OnJobs, OnRuns, Jobless, Labels
<1>5. CASE BindCreated(c) \/ BindTreated(c) \/ StartJob(c) \/ LeaseRunStep(c) \/ NotExecutable(c)
             \/ StartRunStep(c)
  BY <1>3, <1>5 DEF BindCreated, BindTreated, StartJob, LeaseRunStep, NotExecutable,
                    StartRunStep, At, OnJobs, OnRuns, Jobless, Labels
<1>6. CASE Succeed(c) \/ CompleteRunStep(c) \/ Break(c) \/ Diagnose(c) \/ RootCause(c)
             \/ FailJobStep(c)
  BY <1>3, <1>6 DEF Succeed, CompleteRunStep, Break, Diagnose, RootCause, FailJobStep,
                    At, OnJobs, OnRuns, Jobless, Labels
<1>7. CASE DeadLetterStep(c) \/ FailRunStep(c) \/ Recover(c) \/ Verify(c) \/ DeferStep(c)
             \/ Retry(c) \/ Outer(c)
  BY <1>3, <1>7 DEF DeadLetterStep, FailRunStep, Recover, Verify, DeferStep, Retry, Outer,
                    At, OnJobs, OnRuns, Jobless, Labels
<1> QED BY <1>1, <1>4, <1>5, <1>6, <1>7 DEF Step

LEMMA NamedNext ==
    ASSUME Named, [Next]_vars
    PROVE  Named'
<1>1. ASSUME UNCHANGED <<cycleVars, dispatch>> PROVE Named'
  BY <1>1 DEF Named, cycleVars
<1>2. ASSUME NEW c \in Cycle, Step(c) PROVE Named'
  BY <1>2, NamedStep
<1>3. ASSUME NEW t \in Task, Dispatch(t) PROVE Named'
  BY <1>3 DEF Dispatch, Named, cycleVars
<1>4. CASE DispatchEnqueue \/ DispatchQueue
  BY <1>4 DEF DispatchEnqueue, DispatchQueue, Named, cycleVars
<1>5. CASE Crash
  BY <1>5 DEF Crash, Named, Labels, Jobless
<1>6. CASE \E c \in Cycle : Beat(c)
  BY <1>1, <1>6 DEF Beat
<1>7. CASE SettleStep \/ Operate
  BY <1>1, <1>7 DEF SettleStep, Operate
<1>8. CASE Clock
  BY <1>1, <1>8 DEF Clock, JobLapses, JobDue, RunLapses
<1>9. CASE UNCHANGED vars
  BY <1>1, <1>9 DEF vars
<1> QED BY <1>2, <1>3, <1>4, <1>5, <1>6, <1>7, <1>8, <1>9 DEF Next

LEMMA NamedAlways == Spec => [](Named /\ Turn)
<1>1. Init => Turn
  BY DEF Init, Turn, Awaiting
<1>2. Named /\ Turn /\ [Next]_vars => Named' /\ Turn'
  BY NamedNext, TurnNext DEF Named
<1> QED BY NamedInit, <1>1, <1>2, PTL DEF Spec

----------------------------------------------------------------------------
(* Every step of the worker is a step of the queue, or leaves it alone.    *)

QueueStep == JobQueueNext \/ UNCHANGED jobVars

LEMMA CycleUsesQueue ==
    ASSUME Named, NEW c \in Cycle, Step(c)
    PROVE  QueueStep
<1>1. Owner[c] \in Worker
  OBVIOUS
<1>2. pc[c] \notin Jobless => job[c] \in Job
  BY DEF Named
<1>3. ASSUME settling = {}, JobStep PROVE QueueStep
  BY <1>3 DEF JobQueueNext, QueueStep
<1>4. CASE BeginCycle(c)
  BY <1>3, <1>4 DEF BeginCycle, At, Settled, JobStep
<1>5. CASE Claim(c)
  BY <1>1, <1>3, <1>5 DEF Claim, At, Settled, JobStep
<1>6. CASE BindTreated(c) \/ NotExecutable(c) \/ DeferStep(c)
  BY <1>2, <1>3, <1>6 DEF BindTreated, NotExecutable, DeferStep, At, Settled, Jobless,
                          JobStep, QueueStep
<1>7. CASE StartJob(c) \/ Succeed(c) \/ FailJobStep(c) \/ Outer(c)
  BY <1>1, <1>2, <1>3, <1>7 DEF StartJob, Succeed, FailJobStep, Outer, At, Settled, Jobless,
                                JobStep, QueueStep
<1>8. CASE StaleRuns(c) \/ Leave(c) \/ BindCreated(c) \/ LeaseRunStep(c) \/ StartRunStep(c)
             \/ CompleteRunStep(c) \/ Break(c) \/ Diagnose(c) \/ RootCause(c)
             \/ DeadLetterStep(c) \/ FailRunStep(c) \/ Recover(c) \/ Verify(c) \/ Retry(c)
  BY <1>8 DEF StaleRuns, Leave, BindCreated, LeaseRunStep, StartRunStep, CompleteRunStep, Break,
              Diagnose, RootCause, DeadLetterStep, FailRunStep, Recover, Verify, Retry,
              OnRuns, QueueStep
<1> QED BY <1>4, <1>5, <1>6, <1>7, <1>8 DEF Step

LEMMA OthersUseQueue ==
    ASSUME Named, Turn, [Next]_vars, \A c \in Cycle : ~Step(c)
    PROVE  QueueStep
<1>1. ASSUME settling = {}, JobStep PROVE QueueStep
  BY <1>1 DEF JobQueueNext, QueueStep
<1>2. ASSUME NEW c \in Cycle, Beat(c) PROVE QueueStep
  <2>1. Owner[c] \in Worker /\ job[c] \in Job /\ settling = {}
    BY <1>2 DEF Beat, Named, Beating, Jobless, ThreadFree, Settled
  <2> QED BY <1>1, <1>2, <2>1 DEF Beat, JobStep, QueueStep
<1>3. CASE SettleStep
  BY <1>3 DEF SettleStep, JobQueueNext, QueueStep
<1>4. CASE (\E t \in Task : Dispatch(t)) \/ DispatchQueue \/ UNCHANGED vars
  BY <1>4 DEF Dispatch, DispatchQueue, vars, QueueStep
<1>5. CASE DispatchEnqueue
  <2>1. dispatch.run \in Run /\ settling = {}
    BY <1>5 DEF DispatchEnqueue, Named, Turn, Settled
  <2> QED BY <1>1, <1>5, <2>1 DEF DispatchEnqueue, JobStep
<1>6. CASE Clock
  BY <1>1, <1>6 DEF Clock, JobLapses, JobDue, RunLapses, ThreadFree, Settled, JobStep, QueueStep
<1>7. CASE Operate
  BY <1>1, <1>7 DEF Operate, QueueRoute, ThreadFree, Settled, JobStep, QueueStep
<1>8. CASE Crash
  BY <1>8 DEF Crash, JobQueueNext, QueueStep
<1> QED BY <1>2, <1>3, <1>4, <1>5, <1>6, <1>7, <1>8 DEF Next

\* The worker, the dispatcher and the routes of lib/worker.ts, lib/dispatcher.ts
\* and app/api change jobs only as lib/queue.ts does, one call at a time.
THEOREM WorkerUsesQueue == Spec => UsesQueue
<1>1. Init => JobInit
  BY DEF Init
<1>2. Named /\ Turn /\ [Next]_vars => [JobQueueNext]_jobVars
  BY CycleUsesQueue, OthersUseQueue DEF QueueStep
<1> QED BY <1>1, <1>2, NamedAlways, PTL DEF Spec, UsesQueue, JobQueueSpec

\* What the queue promises arbitrary callers it keeps in the worker: the queue's
\* inductive invariant, and finished jobs are left alone (queue.ts:51-97).
COROLLARY WorkerQueueSound == Spec => []JobsSound /\ FinishedForGood
BY WorkerUsesQueue, JobsAlwaysSound, FinishedStay, PTL DEF UsesQueue

----------------------------------------------------------------------------
(* The budget of a run.  Without an operator only a leased run is started, *)
(* so it is enough that every run on its way to a lease has attempts left. *)

RunRecord == [state : RunStates, task : Task \cup {Nobody}, attempt : Nat,
              lease : {"none", "live", "lapsed"}]

OnItsWay(r) == RunIs(r, {"CREATED", "QUEUED", "LEASED"}) \/ r \in requeuing

Budget ==
    /\ runs \in [Run -> RunRecord]
    /\ \A r \in Run : runs[r].attempt <= MaxAttempts
    /\ \A r \in Run : OnItsWay(r) => runs[r].attempt < MaxAttempts
    /\ \A r \in Run : RunIs(r, {"ABSENT"}) => runs[r].attempt = 0

\* What was found leased is still leased when it is started.
StartLeased ==
    \A c \in Cycle : pc[c] = "startRun" =>
        Settled /\ \A r \in Run : run(c) = r => RunIs(r, {"LEASED"})

\* A dispatch queues the run it created, or finds it active.
DispatchedActive ==
    \A r \in Run : dispatch.at # "idle" /\ dispatch.run = r => Active(r)

\* A write of the state that does not lead towards a lease.
LEMMA GoAside ==
    ASSUME Budget, NEW r, NEW s \in RunStates \ {"ABSENT", "CREATED", "QUEUED", "LEASED"}, Go(r, s)
    PROVE  Budget'
<1>1. runs' = [runs EXCEPT ![r].state = s] /\ requeuing' = requeuing
  BY DEF Go
<1>2. /\ runs' \in [Run -> RunRecord]
      /\ \A q \in Run : runs'[q].attempt = runs[q].attempt
      /\ \A q \in Run : runs'[q].state \in {runs[q].state, s}
  BY <1>1 DEF Budget, RunRecord
<1>3. \A q \in Run : OnItsWay(q)' => OnItsWay(q)
  BY <1>1, <1>2 DEF OnItsWay, RunIs
<1> QED BY <1>2, <1>3 DEF Budget, RunIs

\* A run is queued again only with attempts left.
LEMMA GoQueued ==
    ASSUME Budget, NEW r, Go(r, "QUEUED"), r \in Run => runs[r].attempt < MaxAttempts
    PROVE  Budget'
<1>1. runs' = [runs EXCEPT ![r].state = "QUEUED"] /\ requeuing' = requeuing
  BY DEF Go
<1>2. /\ runs' \in [Run -> RunRecord]
      /\ \A q \in Run : runs'[q].attempt = runs[q].attempt
      /\ \A q \in Run : q # r => runs'[q] = runs[q]
      /\ r \in Run => runs'[r].state = "QUEUED"
  BY <1>1 DEF Budget, RunRecord, RunStates
<1>3. \A q \in Run : q # r => (OnItsWay(q)' => OnItsWay(q))
  BY <1>1, <1>2 DEF OnItsWay, RunIs
<1> QED BY <1>2, <1>3 DEF Budget, RunIs

LEMMA BudgetKept ==
    ASSUME Budget, UNCHANGED runs, requeuing' \in SUBSET requeuing
    PROVE  Budget'
BY DEF Budget, OnItsWay, RunIs

\* startRun counts the attempt, of a leased run.
LEMMA BudgetStart ==
    ASSUME Budget, requeuing = {}, NEW r, StartRun(r), r \in Run => RunIs(r, {"LEASED"})
    PROVE  Budget'
<1>0. ASSUME r \in Run PROVE runs[r] \in RunRecord /\ runs[r].attempt < MaxAttempts
  <2>1. OnItsWay(r)
    BY <1>0 DEF OnItsWay, RunIs
  <2> QED BY <1>0, <2>1 DEF Budget
<1> DEFINE l == IF RunIs(r, {"LEASED"}) THEN "live" ELSE runs[r].lease
           a == runs[r].attempt + 1
           new == [runs[r] EXCEPT !.state = "RUNNING", !.attempt = a, !.lease = l]
<1>1. runs' = [runs EXCEPT ![r] = new] /\ requeuing' = requeuing
  BY DEF StartRun
<1>2. CASE r \notin Run
  BY <1>1, <1>2, BudgetKept DEF Budget
<1>3. CASE r \in Run
  <2>1. runs[r] \in RunRecord /\ runs[r].attempt < MaxAttempts
    BY <1>0, <1>3
  <2>2. a \in Nat /\ a <= MaxAttempts /\ l \in {"none", "live", "lapsed"} /\ "RUNNING" \in RunStates
    <3>1. runs[r].attempt \in Nat /\ runs[r].lease \in {"none", "live", "lapsed"}
      BY <2>1 DEF RunRecord
    <3>2. a \in Nat /\ a <= MaxAttempts
      BY <2>1, <3>1
    <3> QED BY <3>1, <3>2 DEF RunStates
  <2> HIDE DEF a, l
  <2>3. new \in RunRecord /\ new.state = "RUNNING" /\ new.attempt = a
    BY <2>1, <2>2 DEF RunRecord
  <2> HIDE DEF new
  <2>4. /\ runs' \in [Run -> RunRecord]
        /\ \A q \in Run : q # r => runs'[q] = runs[q]
        /\ runs'[r].state = "RUNNING" /\ runs'[r].attempt <= MaxAttempts
    BY <1>1, <1>3, <2>2, <2>3 DEF Budget
  <2>5. \A q \in Run : OnItsWay(q)' => OnItsWay(q) /\ q # r
    BY <1>1, <2>4 DEF OnItsWay, RunIs
  <2> QED BY <2>4, <2>5 DEF Budget, RunIs
<1> QED BY <1>2, <1>3

LEMMA BudgetLease ==
    ASSUME Budget, NEW r, LeaseRun(r)
    PROVE  Budget'
<1>1. runs' = [runs EXCEPT ![r].state = "LEASED", ![r].lease = "live"] /\ requeuing' = requeuing
        /\ RunIs(r, {"QUEUED"})
  BY DEF LeaseRun
<1>2. /\ runs' \in [Run -> RunRecord]
      /\ \A q \in Run : q # r => runs'[q] = runs[q]
      /\ r \in Run => runs'[r].state = "LEASED" /\ runs'[r].attempt = runs[r].attempt
  BY <1>1 DEF Budget, RunRecord, RunStates
<1>3. \A q \in Run : OnItsWay(q)' => OnItsWay(q)
  BY <1>1, <1>2 DEF OnItsWay, RunIs
<1> QED BY <1>2, <1>3 DEF Budget, RunIs

LEMMA BudgetLeaseField ==
    ASSUME Budget, NEW r, NEW l \in {"live", "lapsed"}, runs' = [runs EXCEPT ![r].lease = l],
           requeuing' = requeuing
    PROVE  Budget'
<1>1. /\ runs' \in [Run -> RunRecord]
      /\ \A q \in Run : runs'[q].attempt = runs[q].attempt /\ runs'[q].state = runs[q].state
  BY DEF Budget, RunRecord
<1>2. \A q \in Run : OnItsWay(q)' => OnItsWay(q)
  BY <1>1 DEF OnItsWay, RunIs
<1> QED BY <1>1, <1>2 DEF Budget, RunIs

\* A created run starts with no attempt.
LEMMA BudgetCreate ==
    ASSUME Budget, NEW t \in Task, NEW r \in Run, CreateRun(t, r)
    PROVE  Budget' /\ Active(r)'
<1>1. CASE Active(r) /\ UNCHANGED runs
  BY <1>1, BudgetKept DEF CreateRun, Active, RunIs
<1>2. CASE RunIs(r, {"ABSENT"}) /\ runs' = [runs EXCEPT ![r] = [@ EXCEPT !.state = "CREATED", !.task = t]]
  <2>1. requeuing' = requeuing
    BY DEF CreateRun
  <2>2. /\ runs' \in [Run -> RunRecord]
        /\ \A q \in Run : q # r => runs'[q] = runs[q]
        /\ runs'[r].state = "CREATED" /\ runs'[r].attempt = runs[r].attempt /\ runs[r].attempt = 0
    BY <1>2 DEF Budget, RunRecord, RunStates
  <2>3. \A q \in Run : q # r => (OnItsWay(q)' => OnItsWay(q))
    BY <2>1, <2>2 DEF OnItsWay, RunIs
  <2>4. Active(r)'
    BY <2>2 DEF Active, RunIs, RunInactive
  <2> QED BY <2>2, <2>3, <2>4 DEF Budget, RunIs
<1> QED BY <1>1, <1>2 DEF CreateRun

\* Only stale runs with attempts left are to be queued again.
LEMMA BudgetExpire ==
    ASSUME Budget, requeuing = {}, ExpireStaleRuns
    PROVE  Budget'
<1> DEFINE stale == {r \in Run : RunIs(r, RunLeased) /\ runs[r].lease = "lapsed"}
           spent == {r \in stale : Exhausted(r)}
<1>1. requeuing' = stale \ spent
  BY DEF ExpireStaleRuns
<1>2. ASSUME NEW r \in Run
      PROVE  /\ runs'[r] \in RunRecord /\ runs'[r].attempt = runs[r].attempt
             /\ runs'[r].state \in {runs[r].state, "DEAD_LETTER", "FAILED"}
  <2>1. runs[r] \in RunRecord
    BY DEF Budget
  <2>2. runs'[r] = IF r \in spent
                   THEN [runs[r] EXCEPT !.state = IF CanGo(r, "DEAD_LETTER") THEN "DEAD_LETTER"
                                                                              ELSE runs[r].state]
                   ELSE IF r \in stale THEN [runs[r] EXCEPT !.state = "FAILED"] ELSE runs[r]
    BY DEF ExpireStaleRuns
  <2> HIDE DEF stale, spent
  <2> QED BY <2>1, <2>2 DEF RunRecord, RunStates, RunInactive
<1>3. runs' \in [Run -> RunRecord]
  BY <1>2 DEF ExpireStaleRuns
<1>4. \A r \in stale \ spent : r \in Run /\ runs[r].attempt < MaxAttempts
  <2> SUFFICES ASSUME NEW r \in stale \ spent PROVE r \in Run /\ runs[r].attempt < MaxAttempts
    OBVIOUS
  <2>1. r \in Run /\ ~Exhausted(r)
    OBVIOUS
  <2> HIDE DEF stale, spent
  <2>2. runs[r].attempt \in Nat
    BY <2>1 DEF Budget, RunRecord
  <2> QED BY <2>1, <2>2 DEF Exhausted
<1> HIDE DEF stale, spent
<1>5. \A q \in Run : OnItsWay(q)' => OnItsWay(q) \/ q \in stale \ spent
  BY <1>1, <1>2 DEF OnItsWay, RunIs
<1> QED BY <1>2, <1>3, <1>4, <1>5 DEF Budget, RunIs

LEMMA BudgetRequeue ==
    ASSUME Budget, NEW r \in Run, Requeue(r)
    PROVE  Budget'
<1>1. /\ runs' \in [Run -> RunRecord]
      /\ \A q \in Run : q # r => runs'[q] = runs[q]
      /\ runs'[r].state = "QUEUED" /\ runs'[r].attempt = runs[r].attempt
      /\ requeuing' = requeuing \ {r}
  BY DEF Requeue, Budget, RunRecord, RunStates
<1>2. runs[r].attempt < MaxAttempts
  BY DEF Requeue, Budget, OnItsWay
<1>3. \A q \in Run : q # r => (OnItsWay(q)' => OnItsWay(q))
  BY <1>1 DEF OnItsWay, RunIs
<1> QED BY <1>1, <1>2, <1>3 DEF Budget, RunIs

IBudget == Named /\ Turn /\ Budget /\ StartLeased /\ DispatchedActive

LEMMA BudgetStep ==
    ASSUME IBudget, NEW c \in Cycle, Step(c)
    PROVE  Budget'
<1>1. Budget
  BY DEF IBudget
<1>2. CASE BeginCycle(c) \/ Claim(c) \/ Leave(c) \/ BindTreated(c) \/ StartJob(c) \/ NotExecutable(c)
             \/ Succeed(c) \/ Break(c) \/ FailJobStep(c) \/ DeferStep(c) \/ Outer(c)
  <2>1. UNCHANGED runVars
    BY <1>2 DEF BeginCycle, Claim, Leave, BindTreated, StartJob, NotExecutable, Succeed, Break,
                FailJobStep, DeferStep, Outer, OnJobs
  <2> QED BY <1>1, <2>1, BudgetKept DEF runVars
<1>3. CASE StaleRuns(c)
  BY <1>1, <1>3, BudgetExpire DEF StaleRuns, At, Settled
<1>4. CASE BindCreated(c)
  <2>1. run(c) \in Run => runs[run(c)].attempt < MaxAttempts
    BY <1>1, <1>4 DEF BindCreated, Budget, OnItsWay, RunIs
  <2> QED BY <1>1, <1>4, <2>1, GoQueued DEF BindCreated, QueueRun
<1>5. CASE LeaseRunStep(c)
  BY <1>1, <1>5, BudgetLease DEF LeaseRunStep
<1>6. CASE StartRunStep(c)
  <2>1. run(c) \in Run => RunIs(run(c), {"LEASED"})
    BY <1>6 DEF StartRunStep, At, IBudget, StartLeased
  <2>2. requeuing = {} /\ StartRun(run(c))
    BY <1>6 DEF StartRunStep, At, Settled
  <2> QED BY <1>1, <2>1, <2>2, BudgetStart
<1>7. CASE CompleteRunStep(c) \/ Diagnose(c) \/ RootCause(c) \/ DeadLetterStep(c) \/ FailRunStep(c)
             \/ Recover(c) \/ Verify(c)
  <2>1. UNCHANGED runVars
          \/ \E s \in {"SUCCEEDED", "DIAGNOSING", "ROOT_CAUSE_FOUND", "DEAD_LETTER", "FAILED",
                       "RECOVERING", "VERIFYING"} : Go(run(c), s)
    BY <1>7 DEF CompleteRunStep, Diagnose, RootCause, DeadLetterStep, FailRunStep, Recover, Verify,
                CompleteRun, BeginDiagnosis, RecordRootCause, DeadLetterRun, FailRun, BeginRecovery,
                BeginVerification
  <2>2. {"SUCCEEDED", "DIAGNOSING", "ROOT_CAUSE_FOUND", "DEAD_LETTER", "FAILED", "RECOVERING",
         "VERIFYING"} \subseteq RunStates \ {"ABSENT", "CREATED", "QUEUED", "LEASED"}
    BY DEF RunStates, Treatment, RunInactive
  <2> QED BY <1>1, <2>1, <2>2, BudgetKept, GoAside DEF runVars
<1>8. CASE Retry(c)
  <2>1. CASE UNCHANGED runVars
    BY <1>1, <2>1, BudgetKept DEF runVars
  <2>2. CASE Go(run(c), "DEAD_LETTER")
    BY <1>1, <2>2, GoAside DEF RunStates, RunInactive
  <2>3. CASE ~Exhausted(run(c)) /\ Go(run(c), "QUEUED")
    <3>1. run(c) \in Run => runs[run(c)].attempt < MaxAttempts
      BY <1>1, <2>3 DEF Exhausted, Budget, RunRecord
    <3> QED BY <1>1, <2>3, <3>1, GoQueued
  <2> QED BY <1>8, <2>1, <2>2, <2>3 DEF Retry, ScheduleRetry, DeadLetterRun, QueueRun
<1> QED BY <1>2, <1>3, <1>4, <1>5, <1>6, <1>7, <1>8 DEF Step

LEMMA BudgetNext ==
    ASSUME ~Manual, IBudget, [Next]_vars
    PROVE  Budget'
<1>1. Budget
  BY DEF IBudget
<1>2. ASSUME NEW c \in Cycle, Step(c) PROVE Budget'
  BY <1>2, BudgetStep
<1>3. ASSUME NEW c \in Cycle, Beat(c) PROVE Budget'
  BY <1>1, <1>3, BudgetLeaseField, BudgetKept DEF Beat, HeartbeatRun, runVars
<1>4. ASSUME NEW j \in Job, Settle(j), UNCHANGED runVars PROVE Budget'
  BY <1>1, <1>4, BudgetKept DEF runVars
<1>5. ASSUME NEW r \in Run, Requeue(r) PROVE Budget'
  BY <1>1, <1>5, BudgetRequeue
<1>6. ASSUME NEW t \in Task, Dispatch(t) PROVE Budget'
  BY <1>1, <1>6, BudgetCreate DEF Dispatch
<1>7. CASE DispatchEnqueue \/ UNCHANGED vars
  BY <1>1, <1>7, BudgetKept DEF DispatchEnqueue, vars, runVars
<1>8. CASE DispatchQueue
  <2>1. CASE UNCHANGED runVars
    BY <1>1, <2>1, BudgetKept DEF runVars
  <2>2. CASE Go(dispatch.run, "QUEUED")
    <3>1. dispatch.run \in Run => RunIs(dispatch.run, {"CREATED", "LEASED"})
      BY <1>8, <2>2 DEF Go, CanGo, RunNext, DispatchQueue, IBudget, DispatchedActive, Active, RunIs,
                        RunInactive
    <3>2. dispatch.run \in Run => runs[dispatch.run].attempt < MaxAttempts
      BY <1>1, <3>1 DEF Budget, OnItsWay, RunIs
    <3> QED BY <1>1, <2>2, <3>2, GoQueued
  <2> QED BY <1>8, <2>1, <2>2 DEF DispatchQueue, QueueRun
<1>9. CASE Clock
  BY <1>1, <1>9, BudgetLeaseField, BudgetKept DEF Clock, JobLapses, JobDue, RunLapses, RunLeaseLapses, runVars
<1>10. CASE Crash
  BY <1>1, <1>10, BudgetKept DEF Crash, ForgetRuns
<1>11. ~Operate
  BY DEF Operate
<1> QED BY <1>2, <1>3, <1>4, <1>5, <1>6, <1>7, <1>8, <1>9, <1>10, <1>11 DEF Next, SettleStep

LEMMA StartLeasedNext ==
    ASSUME IBudget, [Next]_vars
    PROVE  StartLeased'
<1> USE DEF IBudget
<1>1. \A c \in Cycle : "startRun" # "idle" /\ "startRun" \notin Awaiting
  BY DEF Awaiting
<1>2. ASSUME NEW c \in Cycle, Step(c) PROVE StartLeased'
  <2>1. \A d \in Cycle : d # c => pc'[d] = pc[d] /\ pc[d] \in Awaiting
    BY <1>2, StepTurn DEF Turn, ThreadFree, Named
  <2>2. ASSUME pc'[c] = "startRun"
        PROVE  Settled' /\ \A r \in Run : run(c)' = r => RunIs(r, {"LEASED"})'
    <3>1. LeaseRunStep(c)
      BY <1>2, <2>2 DEF Step, BeginCycle, StaleRuns, Claim, Leave, BindCreated, BindTreated, StartJob,
             NotExecutable, StartRunStep, Succeed, CompleteRunStep, Break, Diagnose,
             RootCause, FailJobStep, DeadLetterStep, FailRunStep, Recover, Verify, DeferStep, Retry,
             Outer, OnJobs, OnRuns, Goto, Named
    <3>2. run(c)' = run(c) /\ LeaseRun(run(c)) /\ Settled /\ UNCHANGED jobVars
      BY <2>2, <3>1 DEF LeaseRunStep, OnRuns, Goto, At, run, jobVars
    <3>3. runs \in [Run -> RunRecord]
      BY DEF Budget
    <3> QED BY <3>2, <3>3 DEF LeaseRun, Settled, jobVars, RunIs, RunRecord
  <2> QED BY <1>1, <2>1, <2>2 DEF StartLeased
<1>3. ASSUME UNCHANGED cycleVars, ThreadFree \/ dispatch.at # "idle" PROVE StartLeased'
  BY <1>1, <1>3 DEF StartLeased, cycleVars, ThreadFree, Turn
<1>4. CASE \E c \in Cycle : Beat(c)
  BY <1>3, <1>4 DEF Beat
<1>5. CASE SettleStep
  BY <1>5 DEF SettleStep, Settle, Requeue, StartLeased, cycleVars, Settled
<1>6. CASE (\E t \in Task : Dispatch(t)) \/ DispatchEnqueue \/ DispatchQueue
  BY <1>3, <1>6 DEF Dispatch, DispatchEnqueue, DispatchQueue
<1>7. CASE Clock \/ Operate
  BY <1>3, <1>7 DEF Clock, JobLapses, JobDue, RunLapses, Operate
<1>8. CASE Crash
  BY <1>8 DEF Crash, StartLeased
<1>9. CASE UNCHANGED vars
  BY <1>9 DEF vars, cycleVars, jobVars, runVars, StartLeased, run, Settled, RunIs
<1> QED BY <1>2, <1>4, <1>5, <1>6, <1>7, <1>8, <1>9 DEF Next

LEMMA DispatchedNext ==
    ASSUME IBudget, [Next]_vars
    PROVE  DispatchedActive'
<1> USE DEF IBudget
<1>1. ASSUME UNCHANGED dispatch, dispatch.at = "idle" \/ UNCHANGED runs PROVE DispatchedActive'
  BY <1>1 DEF DispatchedActive, Active, RunIs
<1>2. ASSUME NEW c \in Cycle, Step(c) \/ Beat(c) PROVE DispatchedActive'
  BY <1>1, <1>2, StepTurn DEF Beat, ThreadFree, Turn
<1>3. CASE SettleStep
  BY <1>1, <1>3 DEF SettleStep, Settle, Requeue, Turn, Settled
<1>4. ASSUME NEW t \in Task, Dispatch(t) PROVE DispatchedActive'
  BY <1>4, BudgetCreate DEF Dispatch, DispatchedActive
<1>5. CASE DispatchEnqueue
  <2>1. dispatch'.run = dispatch.run /\ dispatch.at # "idle" /\ UNCHANGED runs
    BY <1>5 DEF DispatchEnqueue, runVars, Named
  <2> QED BY <2>1 DEF DispatchedActive, Active, RunIs
<1>6. CASE DispatchQueue \/ Crash
  BY <1>6 DEF DispatchQueue, Crash, DispatchedActive
<1>7. CASE Clock \/ Operate
  BY <1>1, <1>7 DEF Clock, JobLapses, JobDue, RunLapses, Operate, ThreadFree
<1>8. CASE UNCHANGED vars
  BY <1>1, <1>8 DEF vars, runVars
<1> QED BY <1>2, <1>3, <1>4, <1>5, <1>6, <1>7, <1>8 DEF Next

LEMMA BudgetInit == Init => IBudget
<1> SUFFICES ASSUME Init PROVE IBudget
  OBVIOUS
<1>1. Budget
  BY DEF Init, RunInit, NoRun, Budget, OnItsWay, RunIs, RunRecord, RunStates, RunInactive
<1>2. Turn /\ StartLeased /\ DispatchedActive
  BY DEF Init, Turn, Awaiting, StartLeased, DispatchedActive
<1> QED BY <1>1, <1>2, NamedInit DEF IBudget

\* Left to the worker and the dispatcher, a run is never started more often
\* than its budget allows, across any number of cycles, stalls and crashes
\* (runs.ts:219, 324-357; worker.ts:124-138).
THEOREM BudgetHolds ==
    ASSUME ~Manual
    PROVE  Spec => []RunBudget
<1>1. IBudget /\ [Next]_vars => IBudget'
  BY NamedNext, TurnNext, BudgetNext, StartLeasedNext, DispatchedNext DEF IBudget, Named
<1>2. IBudget => RunBudget
  BY DEF IBudget, Budget, RunBudget
<1> QED BY BudgetInit, <1>1, <1>2, PTL DEF Spec

----------------------------------------------------------------------------
(* Who has what.  Without stalls and an operator, a cycle has its job and   *)
(* its run to itself from the claim to the end of the treatment.           *)

\* The labels between the start of the job and its end.
OnHand == {"leaseRun", "startRun", "execute", "investigate", "rootCause", "failJob"}
Working == OnHand \cup {"bind", "start", "completeRun"}

\* The job is in this state under the lease cycle c took, and the lease is live.
Has(c, s) ==
    /\ JobIs(job[c], {s}) /\ jobs[job[c]].owner = Owner[c]
    /\ jobs[job[c]].attempt = ticket[c] /\ jobs[job[c]].lease = "live"

\* What is so where a cycle stands.
Stand(c) ==
    /\ pc[c] \notin Jobless => run(c) \in Run
    /\ pc[c] \in {"bind", "start"} => Has(c, "LEASED")
    /\ pc[c] \in OnHand => Has(c, "RUNNING")
    /\ pc[c] = "completeRun" => JobIs(job[c], {"SUCCEEDED"})
    /\ pc[c] = "start" => RunIs(run(c), {"QUEUED"})
    /\ pc[c] = "leaseRun" => ~RunIs(run(c), Treatment \cup {"CREATED"})
    /\ pc[c] = "startRun" => RunIs(run(c), {"LEASED"})
    /\ pc[c] \in {"execute", "investigate", "completeRun"} => RunIs(run(c), {"RUNNING"})
    /\ pc[c] \in {"execute", "investigate"} => runs[run(c)].lease = "live"
    /\ pc[c] = "rootCause" => RunIs(run(c), {"DIAGNOSING"})
    /\ pc[c] \in {"failJob", "verdict"} => RunIs(run(c), {"ROOT_CAUSE_FOUND"})
    /\ pc[c] = "recover" => RunIs(run(c), {"FAILED"}) /\ run(c) \notin requeuing
    /\ pc[c] = "verify" => RunIs(run(c), {"RECOVERING"})
    /\ pc[c] = "defer" => RunIs(run(c), {"VERIFYING"})
    /\ pc[c] \notin {"failRun", "outer"}

\* No two work on one job, or treat one run.
Apart ==
    \A c, d \in Cycle : c # d =>
        /\ pc[c] \in Working /\ pc[d] \in Working => job[c] # job[d]
        /\ pc[c] \in Beating /\ pc[d] \in Beating => run(c) # run(d)

\* A job in use stands for a run.
Placed == \A j \in Job : ~JobIs(j, {"ABSENT"}) => jobs[j].run \in Run

Ticketed == ticket \in [Cycle -> 0..MaxAttempts]

\* What is to be queued again has FAILED.
Requeued == \A r \in requeuing : r \in Run /\ RunIs(r, {"FAILED"})

LeaseInv ==
    /\ IBudget /\ IJobs /\ Placed /\ Ticketed
    /\ \A c \in Cycle : Stand(c)
    /\ Apart
    /\ Requeued

LEMMA JobToKeepsRun ==
    ASSUME jobs \in [Job -> JobRecord], NEW i, NEW s, NEW l, NEW b, NEW w, JobTo(i, s, l, b, w), NEW j \in Job
    PROVE  jobs'[j].run = jobs[j].run
<1>1. CASE i = j
  <2> DEFINE new == [jobs[j] EXCEPT !.state = s, !.lease = l, !.waiting = b, !.owner = w]
  <2>1. new.run = jobs[j].run
    BY DEF JobRecord
  <2>2. jobs' = [jobs EXCEPT ![j] = new]
    BY <1>1 DEF JobTo
  <2> HIDE DEF new
  <2> QED BY <2>1, <2>2
<1>2. CASE i # j
  BY <1>2 DEF JobTo
<1> QED BY <1>1, <1>2

\* A job stays with its run.
LEMMA RunOfJobStays ==
    ASSUME IJobs, QueueStep, NEW j \in Job, jobs[j].run \in Run
    PROVE  jobs'[j].run = jobs[j].run
<1>1. jobs \in [Job -> JobRecord]
  BY Typed DEF IJobs
<1>2. ~JobIs(j, {"ABSENT"})
  BY DEF IJobs, JobsSound, NoJob
<1>3. CASE settling = {} /\ JobStep
  <2>1. ASSUME NEW r \in Run, Enqueue(r) PROVE jobs'[j].run = jobs[j].run
    BY <1>1, <1>2, <2>1 DEF Enqueue, JobIs
  <2>2. CASE ExpireLeases
    BY <1>1, <2>2 DEF ExpireLeases, JobRecord
  <2>3. ASSUME NEW i \in Job, Defer(i) \/ Cancel(i) \/ LeaseLapses(i) \/ BackoffElapses(i)
        PROVE  jobs'[j].run = jobs[j].run
    <3>1. CASE Defer(i) \/ Cancel(i)
      BY <1>1, <3>1, JobToKeepsRun DEF Defer, Cancel
    <3>2. CASE LeaseLapses(i) \/ BackoffElapses(i)
      BY <1>1, <3>2 DEF LeaseLapses, BackoffElapses, JobRecord
    <3> QED BY <2>3, <3>1, <3>2
  <2>4. ASSUME NEW i \in Job, NEW w \in Worker, Lease(i, w) PROVE jobs'[j].run = jobs[j].run
    BY <1>1, <2>4 DEF Lease, JobRecord
  <2>5. ASSUME NEW i \in Job, NEW w \in Worker \cup {Nobody},
               Start(i, w) \/ Heartbeat(i, w) \/ Complete(i, w) \/ Fail(i, w)
        PROVE  jobs'[j].run = jobs[j].run
    <3>1. CASE Start(i, w) \/ Complete(i, w) \/ Fail(i, w)
      BY <1>1, <3>1, JobToKeepsRun DEF Start, Complete, Fail
    <3>2. CASE Heartbeat(i, w)
      BY <1>1, <3>2 DEF Heartbeat, JobRecord
    <3> QED BY <2>5, <3>1, <3>2
  <2> QED BY <1>3, <2>1, <2>2, <2>3, <2>4, <2>5 DEF JobStep
<1>4. ASSUME NEW i \in Job, Settle(i) PROVE jobs'[j].run = jobs[j].run
  BY <1>1, <1>4, JobToKeepsRun DEF Settle
<1> QED BY <1>3, <1>4 DEF QueueStep, JobQueueNext, Forget, jobVars

LEMMA PlacedNext ==
    ASSUME IJobs, Placed, QueueStep
    PROVE  Placed'
<1> SUFFICES ASSUME NEW j \in Job, ~JobIs(j, {"ABSENT"})' PROVE jobs'[j].run \in Run
  BY DEF Placed
<1>1. CASE ~JobIs(j, {"ABSENT"})
  BY <1>1, RunOfJobStays DEF Placed
<1>2. CASE JobIs(j, {"ABSENT"})
  <2>1. jobs \in [Job -> JobRecord] /\ j \notin settling /\ ~JobIs(j, Held \cup {"QUEUED", "FAILED"})
    BY <1>2, Typed DEF IJobs, JobsSound, JobIs, Held
  <2>2. ASSUME NEW r \in Run, Enqueue(r) PROVE jobs'[j].run \in Run
    BY <1>2, <2>1, <2>2 DEF Enqueue, JobIs, JobRecord
  <2>3. CASE ExpireLeases
    BY <1>2, <2>1, <2>3 DEF ExpireLeases, JobIs
  <2>4. ASSUME NEW i \in Job, i = j,
               Defer(i) \/ Cancel(i) \/ LeaseLapses(i) \/ BackoffElapses(i) \/ Settle(i)
        PROVE  FALSE
    BY <1>2, <2>1, <2>4 DEF Defer, CanDefer, Cancel, CanCancel, JobNext, LeaseLapses, BackoffElapses,
       Settle, JobIs, Held
  <2>5. ASSUME NEW i \in Job, i = j, NEW w \in Worker \cup {Nobody},
               Lease(i, w) \/ Start(i, w) \/ Heartbeat(i, w) \/ Complete(i, w) \/ Fail(i, w)
        PROVE  FALSE
    BY <1>2, <2>1, <2>5 DEF Lease, Claimable, Start, CanStart, Heartbeat, Complete, CanComplete, Fail, CanFail,
       JobIs, Held
  <2>6. ASSUME NEW i \in Job, i # j,
               \/ Defer(i) \/ Cancel(i) \/ LeaseLapses(i) \/ BackoffElapses(i) \/ Settle(i)
               \/ \E w \in Worker \cup {Nobody} :
                     Lease(i, w) \/ Start(i, w) \/ Heartbeat(i, w) \/ Complete(i, w) \/ Fail(i, w)
        PROVE  jobs'[j] = jobs[j]
    BY <2>1, <2>6 DEF Defer, Cancel, LeaseLapses, BackoffElapses, Settle, Lease, Start, Heartbeat, Complete,
       Fail, JobTo
  <2>7. CASE UNCHANGED jobs
    BY <1>2, <2>7 DEF JobIs
  <2>8. jobs'[j] # jobs[j]
    BY <1>2 DEF JobIs
  <2> QED BY <2>2, <2>3, <2>4, <2>5, <2>6, <2>7, <2>8 DEF QueueStep, JobQueueNext, JobStep, Forget, jobVars
<1> QED BY <1>1, <1>2

LEMMA TicketedNext ==
    ASSUME Ticketed, IJobs', [Next]_vars
    PROVE  Ticketed'
<1>1. CASE UNCHANGED ticket
  BY <1>1 DEF Ticketed
<1>2. ASSUME NEW c \in Cycle, Claim(c) PROVE Ticketed'
  <2>1. \A j \in Job : jobs'[j].attempt \in 0..MaxAttempts
    BY Typed DEF IJobs, JobTypeOK
  <2> QED BY <1>2, <2>1 DEF Claim, Ticketed
<1>3. ASSUME NEW c \in Cycle, Step(c), ~Claim(c) PROVE UNCHANGED ticket
  BY <1>3 DEF Step, BeginCycle, StaleRuns, Leave, BindCreated, BindTreated, StartJob,
         LeaseRunStep, NotExecutable, StartRunStep, Succeed, CompleteRunStep, Break, Diagnose,
         RootCause, FailJobStep, DeadLetterStep, FailRunStep, Recover, Verify, DeferStep, Retry,
         Outer, OnJobs, OnRuns, Goto
<1>4. CASE Crash
  BY <1>4 DEF Crash, Ticketed
<1>5. CASE (\E c \in Cycle : Beat(c)) \/ SettleStep \/ (\E t \in Task : Dispatch(t)) \/ DispatchEnqueue
             \/ DispatchQueue \/ Operate
  BY <1>1, <1>5 DEF Beat, SettleStep, Dispatch, DispatchEnqueue, DispatchQueue, Operate, cycleVars
<1>6. CASE Clock \/ UNCHANGED vars
  BY <1>1, <1>6 DEF Clock, JobLapses, JobDue, RunLapses, cycleVars, vars
<1> QED BY <1>1, <1>2, <1>3, <1>4, <1>5, <1>6 DEF Next

\* A cycle that awaits stands as before, when what it relies on is untouched.
LEMMA Undisturbed ==
    ASSUME NEW d \in Cycle, Stand(d), pc[d] \in Jobless \cup {"execute", "investigate", "recover"},
           pc'[d] = pc[d], job'[d] = job[d], ticket'[d] = ticket[d],
           pc[d] \notin Jobless => run(d)' = run(d),
           pc[d] \in {"execute", "investigate"} =>
             jobs'[job[d]] = jobs[job[d]] /\ runs'[run(d)].state = runs[run(d)].state
                                          /\ runs'[run(d)].lease = runs[run(d)].lease,
           pc[d] = "recover" => runs'[run(d)].state = "FAILED" /\ run(d) \notin requeuing'
    PROVE  Stand(d)'
<1> USE DEF Jobless, OnHand
<1>1. CASE pc[d] \in Jobless
  BY <1>1 DEF Stand
<1>2. CASE pc[d] \in {"execute", "investigate"}
  <2>1. Has(d, "RUNNING")' /\ RunIs(run(d), {"RUNNING"})' /\ (runs[run(d)].lease = "live")'
    BY <1>2 DEF Stand, Has, JobIs, RunIs
  <2> QED BY <1>2, <2>1 DEF Stand
<1>3. CASE pc[d] = "recover"
  BY <1>3 DEF Stand, RunIs
<1> QED BY <1>1, <1>2, <1>3

\* What a step of one cycle leaves to the others.
LEMMA StepOthers ==
    ASSUME LeaseInv, NEW c \in Cycle, Step(c)
    PROVE  /\ settling = {} /\ requeuing = {}
           /\ \A d \in Cycle : d # c =>
                /\ pc[d] \in Jobless \cup {"execute", "investigate", "recover"}
                /\ pc'[d] = pc[d] /\ job'[d] = job[d] /\ ticket'[d] = ticket[d]
                /\ pc[d] \notin Jobless => run(d)' = run(d)
           /\ job' = job /\ pc[c] \notin Jobless => run(c)' = run(c)
<1>1. settling = {} /\ requeuing = {} /\ (\E m : pc' = [pc EXCEPT ![c] = m])
        /\ \A d \in Cycle : d # c => pc[d] \in Awaiting
  BY StepTurn DEF LeaseInv, IBudget, Turn, ThreadFree, Settled
<1>2. \A d \in Cycle : d # c => job'[d] = job[d] /\ ticket'[d] = ticket[d]
  <2>1. CASE Claim(c)
    BY <2>1 DEF Claim, LeaseInv, IBudget, Named
  <2>2. CASE ~Claim(c)
    BY <2>2 DEF Step, BeginCycle, StaleRuns, Leave, BindCreated, BindTreated, StartJob,
           LeaseRunStep, NotExecutable, StartRunStep, Succeed, CompleteRunStep, Break, Diagnose,
           RootCause, FailJobStep, DeadLetterStep, FailRunStep, Recover, Verify, DeferStep, Retry,
           Outer, OnJobs, OnRuns, Goto
  <2> QED BY <2>1, <2>2
<1>3. \A j \in Job : jobs[j].run \in Run => jobs'[j].run = jobs[j].run
  BY CycleUsesQueue, RunOfJobStays DEF LeaseInv, IBudget
<1>4. \A d \in Cycle : pc[d] \notin Jobless => job[d] \in Job /\ jobs[job[d]].run \in Run
  BY DEF LeaseInv, IBudget, Named, Stand, run
<1>5. \A d \in Cycle : d # c => pc'[d] = pc[d]
  BY <1>1 DEF LeaseInv, IBudget, Named
<1>6. \A d \in Cycle : pc[d] \notin Jobless /\ job'[d] = job[d] => run(d)' = run(d)
  BY <1>3, <1>4 DEF run
<1> QED BY <1>1, <1>2, <1>5, <1>6 DEF Awaiting, Jobless

LEMMA ApartStays ==
    ASSUME LeaseInv, NEW c \in Cycle, Step(c), NEW m, Goto(c, m),
           m \in Working => pc[c] \in Working,
           m \in Beating => pc[c] \in Beating
    PROVE  Apart'
<1>1. \A d \in Cycle : pc[d] \notin Jobless => run(d)' = run(d)
  BY StepOthers DEF Goto
<1>2. \A d \in Cycle : /\ pc'[d] \in Working => pc[d] \in Working
                       /\ pc'[d] \in Beating => pc[d] \in Beating
                       /\ job'[d] = job[d]
  BY DEF LeaseInv, IBudget, Named, Goto
<1>3. \A d \in Cycle : pc[d] \in Beating => run(d)' = run(d)
  BY <1>1 DEF Beating, Jobless
<1> QED BY <1>2, <1>3 DEF LeaseInv, Apart

\* A write to one job, which none of the others executes.
LEMMA JobWrite ==
    ASSUME LeaseInv, NEW c \in Cycle, Step(c), UNCHANGED runVars,
           NEW j, \A i \in Job : i # j => jobs'[i] = jobs[i],
           \A d \in Cycle : d # c /\ pc[d] \in {"execute", "investigate"} => job[d] # j
    PROVE  /\ \A d \in Cycle : d # c => Stand(d)'
           /\ Requeued'
<1>1. ASSUME NEW d \in Cycle, d # c PROVE Stand(d)'
  <2>1. Stand(d) /\ (pc[d] \notin Jobless => job[d] \in Job)
    BY DEF LeaseInv, IBudget, Named
  <2>2. pc[d] \in {"execute", "investigate"} => jobs'[job[d]] = jobs[job[d]]
    BY <1>1, <2>1 DEF Jobless
  <2> QED BY <1>1, <2>1, <2>2, StepOthers, Undisturbed DEF runVars, Stand, RunIs
<1> QED BY <1>1, StepOthers DEF runVars, Requeued

\* A write to one run, which none of the others executes or treats.
LEMMA RunWrite ==
    ASSUME LeaseInv, NEW c \in Cycle, Step(c), UNCHANGED jobVars, requeuing' = requeuing,
           NEW r, \A q \in Run : q # r => runs'[q] = runs[q],
           \A d \in Cycle : d # c /\ pc[d] \in {"execute", "investigate", "recover"} => run(d) # r
    PROVE  /\ \A d \in Cycle : d # c => Stand(d)'
           /\ Requeued'
<1>1. ASSUME NEW d \in Cycle, d # c PROVE Stand(d)'
  <2>1. Stand(d) /\ (pc[d] \notin Jobless => run(d) \in Run)
    BY DEF LeaseInv, Stand
  <2>2. pc[d] \in {"execute", "investigate", "recover"} => runs'[run(d)] = runs[run(d)]
    BY <1>1, <2>1 DEF Jobless
  <2> QED BY <1>1, <2>1, <2>2, StepOthers, Undisturbed DEF jobVars, Stand, RunIs
<1> QED BY <1>1, StepOthers DEF Requeued

\* What transition writes: the state of one run.
LEMMA GoWrites ==
    ASSUME Budget, NEW r \in Run, NEW s \in RunStates, Go(r, s)
    PROVE  /\ runs'[r].state = s /\ runs'[r].lease = runs[r].lease /\ runs'[r].task = runs[r].task
           /\ \A q \in Run : q # r => runs'[q] = runs[q]
           /\ requeuing' = requeuing
BY DEF Go, Budget, RunRecord

\* Every state that can be asked for is a state.
LEMMA StatesAsked ==
    {"QUEUED", "SUCCEEDED", "DIAGNOSING", "ROOT_CAUSE_FOUND", "FAILED", "RECOVERING", "VERIFYING",
     "DEAD_LETTER", "CREATED"} \subseteq RunStates
BY DEF RunStates, Treatment, RunInactive

\* A cycle at work on its job: nobody else executes that job.
LEMMA OwnJob ==
    ASSUME LeaseInv, NEW c \in Cycle, pc[c] \in Working,
           NEW d \in Cycle, d # c, pc[d] \in {"execute", "investigate"}
    PROVE  job[d] # job[c]
BY DEF LeaseInv, Apart, Working, OnHand

\* Nor a job that is not running.
LEMMA IdleJob ==
    ASSUME LeaseInv, NEW j, ~JobIs(j, {"RUNNING"}),
           NEW d \in Cycle, pc[d] \in {"execute", "investigate"}
    PROVE  job[d] # j
BY DEF LeaseInv, Stand, Has, OnHand, JobIs

\* Nobody else executes or treats the run of a cycle that does.
LEMMA OwnRun ==
    ASSUME LeaseInv, NEW c \in Cycle, pc[c] \in Beating,
           NEW d \in Cycle, d # c, pc[d] \in {"execute", "investigate", "recover"}
    PROVE  run(d) # run(c)
BY DEF LeaseInv, Apart, Beating

\* Nor a run on its way to a start.
LEMMA WaitingRun ==
    ASSUME LeaseInv, NEW r, RunIs(r, {"CREATED", "QUEUED", "LEASED"}),
           NEW d \in Cycle, pc[d] \in {"execute", "investigate", "recover"}
    PROVE  run(d) # r
BY DEF LeaseInv, Stand, RunIs

LeaseKept == (\A d \in Cycle : Stand(d)') /\ Apart' /\ Requeued'

\* The first half of a cycle.
LEMMA LeaseBegin ==
    ASSUME LeaseInv, NEW c \in Cycle, Step(c), BeginCycle(c) \/ StaleRuns(c) \/ Leave(c)
    PROVE  LeaseKept
<1>1. PICK m \in Jobless : Goto(c, m)
  BY DEF BeginCycle, StaleRuns, Leave, OnJobs, OnRuns, Jobless
<1>2. Apart'
  BY <1>1, ApartStays DEF Jobless, Working, OnHand, Beating
<1>3. Stand(c)'
  BY <1>1 DEF Goto, LeaseInv, IBudget, Named, Stand, Jobless, OnHand
<1>4. \A d \in Cycle : d # c => Stand(d)'
  <2> SUFFICES ASSUME NEW d \in Cycle, d # c PROVE Stand(d)'
    OBVIOUS
  <2>1. Stand(d) /\ (pc[d] \notin Jobless => job[d] \in Job /\ run(d) \in Run)
    BY DEF LeaseInv, IBudget, Named, Stand
  <2>2. CASE BeginCycle(c)
    <3>1. pc[d] \in {"execute", "investigate"} => jobs'[job[d]] = jobs[job[d]]
      <4> DEFINE lapsed == {j \in Job : JobIs(j, Held) /\ jobs[j].lease = "lapsed"}
      <4>1. \A j \in Job : j \notin lapsed => jobs'[j] = jobs[j]
        BY <2>2 DEF BeginCycle, ExpireLeases
      <4>2. pc[d] \in {"execute", "investigate"} => job[d] \in Job /\ jobs[job[d]].lease = "live"
        BY <2>1 DEF Stand, Has, OnHand, Jobless
      <4>3. pc[d] \in {"execute", "investigate"} => job[d] \notin lapsed
        BY <4>2
      <4> HIDE DEF lapsed
      <4> QED BY <4>1, <4>2, <4>3
    <3> QED BY <2>1, <2>2, <3>1, StepOthers, Undisturbed DEF BeginCycle, OnJobs, runVars, Stand, RunIs
  <2>3. CASE StaleRuns(c)
    <3>1. pc[d] \in {"execute", "investigate"} => runs'[run(d)] = runs[run(d)]
      BY <2>1, <2>3 DEF StaleRuns, ExpireStaleRuns, Stand, Jobless
    <3>2. pc[d] = "recover" => runs'[run(d)] = runs[run(d)] /\ run(d) \notin requeuing'
      BY <2>1, <2>3, StepOthers DEF StaleRuns, ExpireStaleRuns, Stand, Jobless, RunIs, RunLeased
    <3> QED BY <2>1, <2>3, <3>1, <3>2, StepOthers, Undisturbed DEF StaleRuns, OnRuns, jobVars, Stand, RunIs
  <2>4. CASE Leave(c)
    BY <2>1, <2>4, StepOthers, Undisturbed DEF Leave, OnJobs, runVars, jobVars, Stand, RunIs
  <2> QED BY <2>2, <2>3, <2>4
<1>5. Requeued'
  <2>1. requeuing = {} /\ runs \in [Run -> RunRecord]
    BY StepOthers DEF LeaseInv, IBudget, Budget
  <2>2. CASE StaleRuns(c)
    <3> DEFINE stale == {r \in Run : RunIs(r, RunLeased) /\ runs[r].lease = "lapsed"}
               spent == {r \in stale : Exhausted(r)}
    <3>1. requeuing' = stale \ spent /\ \A r \in stale \ spent : runs'[r] = [runs[r] EXCEPT !.state = "FAILED"]
      BY <2>1, <2>2 DEF StaleRuns, ExpireStaleRuns
    <3>2. \A r \in stale \ spent : r \in Run
      OBVIOUS
    <3> HIDE DEF stale, spent
    <3> QED BY <2>1, <3>1, <3>2 DEF Requeued, RunIs, RunRecord
  <2> QED BY <2>1, <2>2 DEF BeginCycle, Leave, OnJobs, runVars, Requeued
<1> QED BY <1>2, <1>3, <1>4, <1>5 DEF LeaseKept

\* The claim of a job: it was queued, so nobody works on it.
LEMMA LeaseClaim ==
    ASSUME LeaseInv, NEW c \in Cycle, Step(c), Claim(c)
    PROVE  LeaseKept
<1>1. PICK j \in Job : /\ Lease(j, Owner[c])
                       /\ job' = [job EXCEPT ![c] = j]
                       /\ ticket' = [ticket EXCEPT ![c] = jobs'[j].attempt]
  BY DEF Claim
<1>2. JobIs(j, {"QUEUED"}) /\ pc' = [pc EXCEPT ![c] = "bind"] /\ UNCHANGED runVars /\ jobs \in [Job -> JobRecord]
  BY <1>1, Typed DEF Claim, Lease, Claimable, LeaseInv, IJobs
<1>3. /\ jobs'[j].state = "LEASED" /\ jobs'[j].owner = Owner[c] /\ jobs'[j].lease = "live"
      /\ jobs'[j].run = jobs[j].run
      /\ \A i \in Job : i # j => jobs'[i] = jobs[i]
  <2> DEFINE a == jobs[j].attempt + 1
             new == [jobs[j] EXCEPT !.state = "LEASED", !.owner = Owner[c], !.lease = "live", !.attempt = a]
  <2>1. new.state = "LEASED" /\ new.owner = Owner[c] /\ new.lease = "live" /\ new.run = jobs[j].run
    BY <1>2 DEF JobRecord
  <2>2. jobs' = [jobs EXCEPT ![j] = new]
    BY <1>1 DEF Lease
  <2> HIDE DEF new
  <2> QED BY <1>2, <2>1, <2>2
<1>4. jobs[j].run \in Run
  BY <1>2 DEF LeaseInv, Placed, JobIs
<1>5. pc'[c] = "bind" /\ job'[c] = j /\ ticket'[c] = jobs'[j].attempt
      /\ \A d \in Cycle : d # c => pc'[d] = pc[d] /\ job'[d] = job[d]
  <2>1. ticket \in [Cycle -> 0..MaxAttempts]
    BY DEF LeaseInv, Ticketed
  <2> QED BY <1>1, <1>2, <2>1 DEF LeaseInv, IBudget, Named
<1>6. Stand(c)'
  BY <1>3, <1>4, <1>5 DEF Stand, Has, JobIs, run, OnHand
<1>7. \A d \in Cycle : d # c /\ pc[d] \in {"execute", "investigate"} => job[d] # j
  BY <1>2, IdleJob DEF JobIs
<1>8. Apart'
  <2>1. \A d \in Cycle : d # c => pc[d] \in Jobless \cup {"execute", "investigate", "recover"}
                                 /\ (pc[d] \notin Jobless => run(d)' = run(d))
    BY StepOthers
  <2>2. \A d \in Cycle : d # c /\ pc[d] \in Working => job[d] # j
    BY <1>7, <2>1 DEF Jobless, Working, OnHand
  <2> QED BY <1>5, <2>1, <2>2 DEF LeaseInv, Apart, Beating, Jobless
<1> QED BY <1>2, <1>3, <1>6, <1>7, <1>8, JobWrite DEF LeaseKept

\* What the operations on one job write.
LEMMA JobWrites ==
    ASSUME IJobs, NEW j \in Job
    PROVE  /\ \A w : Start(j, w) =>
                /\ jobs'[j].state = "RUNNING" /\ jobs'[j].lease = "live"
                /\ jobs'[j].owner = jobs[j].owner /\ jobs'[j].attempt = jobs[j].attempt
                /\ JobIs(j, {"LEASED"})
           /\ \A w : Complete(j, w) => jobs'[j].state = "SUCCEEDED"
           /\ \A w : Fail(j, w) => jobs'[j].state = "FAILED"
           /\ Defer(j) => jobs'[j].state = "QUEUED"
           /\ Cancel(j) => jobs'[j].state = "CANCELLED"
           /\ (Defer(j) \/ Cancel(j) \/ \E w : Start(j, w) \/ Complete(j, w) \/ Fail(j, w)) =>
                /\ jobs'[j].run = jobs[j].run
                /\ \A i \in Job : i # j => jobs'[i] = jobs[i]
<1>1. /\ JobTypeOK /\ jobs[j].waiting \in BOOLEAN /\ jobs[j].owner \in Worker \cup {Nobody}
      /\ {"RUNNING", "SUCCEEDED", "FAILED", "QUEUED", "CANCELLED"} \subseteq JobStates
      /\ "live" \in Leases /\ "none" \in Leases /\ TRUE \in BOOLEAN /\ FALSE \in BOOLEAN /\ Nobody \in Worker \cup {Nobody}
  <2>1. jobs[j] \in JobRecord
    BY Typed DEF IJobs
  <2> QED BY <2>1 DEF IJobs, JobRecord, JobStates, Held, JobEnd, Leases
<1> DEFINE Wrote(s, l, w) ==
             /\ jobs'[j].state = s /\ jobs'[j].lease = l /\ jobs'[j].owner = w
             /\ jobs'[j].run = jobs[j].run /\ jobs'[j].attempt = jobs[j].attempt
             /\ \A i \in Job : i # j => jobs'[i] = jobs[i]
<1>2. ASSUME NEW w, Start(j, w) PROVE Wrote("RUNNING", "live", jobs[j].owner) /\ JobIs(j, {"LEASED"})
  BY <1>1, <1>2, JobToWrites DEF Start, CanStart
<1>3. ASSUME NEW w, Complete(j, w) PROVE Wrote("SUCCEEDED", "none", jobs[j].owner)
  BY <1>1, <1>3, JobToWrites DEF Complete
<1>4. ASSUME NEW w, Fail(j, w) PROVE Wrote("FAILED", "none", jobs[j].owner)
  BY <1>1, <1>4, JobToWrites DEF Fail
<1>5. ASSUME Defer(j) PROVE Wrote("QUEUED", "none", Nobody)
  <2>1. PICK b \in BOOLEAN : JobTo(j, "QUEUED", "none", b, Nobody)
    BY <1>5 DEF Defer
  <2> QED BY <1>1, <2>1, JobToWrites
<1>6. ASSUME Cancel(j) PROVE Wrote("CANCELLED", "none", jobs[j].owner)
  BY <1>1, <1>6, JobToWrites DEF Cancel
<1> QED BY <1>2, <1>3, <1>4, <1>5, <1>6

\* A cycle that writes its job, or leaves it alone.
LEMMA LeaseJob ==
    ASSUME LeaseInv, NEW c \in Cycle, Step(c),
           BindTreated(c) \/ StartJob(c) \/ NotExecutable(c) \/ Succeed(c) \/ Break(c) \/ FailJobStep(c)
             \/ DeferStep(c) \/ Outer(c)
    PROVE  LeaseKept
<1> USE DEF Jobless
<1>1. /\ Stand(c) /\ IJobs /\ settling = {} /\ requeuing = {} /\ UNCHANGED runVars
      /\ pc[c] \in {"bind", "start", "leaseRun", "execute", "failJob", "defer"}
  <2>1. /\ Stand(c) /\ IJobs /\ settling = {} /\ requeuing = {}
    BY StepOthers DEF LeaseInv
  <2>2. UNCHANGED runVars
    BY DEF BindTreated, StartJob, NotExecutable, Succeed, Break, FailJobStep, DeferStep, Outer, OnJobs
  <2>3. pc[c] \in {"bind", "start", "leaseRun", "execute", "failJob", "defer"}
    BY <2>1 DEF BindTreated, StartJob, NotExecutable, Succeed, Break, FailJobStep, DeferStep, Outer, At, Stand
  <2> QED BY <2>1, <2>2, <2>3
<1>2. job[c] \in Job /\ run(c) \in Run
  BY <1>1 DEF LeaseInv, IBudget, Named, Stand
<1>3. PICK m : /\ Goto(c, m)
               /\ m \in Working => pc[c] \in Working
               /\ m \in Beating => pc[c] \in Beating
               /\ m \in Labels
  BY <1>1 DEF BindTreated, StartJob, NotExecutable, Succeed, Break, FailJobStep, DeferStep, Outer, OnJobs,
              At, Working, OnHand, Beating, Labels, Stand
<1>4. pc'[c] = m /\ job' = job /\ ticket' = ticket /\ (run(c) = run(c)')
  BY <1>1, <1>3, StepOthers DEF Goto, LeaseInv, IBudget, Named
<1>5. Apart'
  BY <1>3, ApartStays
<1>6. CASE UNCHANGED jobs
  <2>1. m \in Jobless \/ (pc[c] = "execute" /\ m = "investigate")
    BY <1>1, <1>2, <1>3, <1>4, <1>6, JobWrites DEF BindTreated, StartJob, NotExecutable, Succeed, Break, FailJobStep, DeferStep,
       Outer, OnJobs, At, Goto, LeaseInv, IBudget, Named, Stand, Has, OnHand, CanComplete, CanFail, FailThrows,
       JobIs, Holds, Held
  <2>2. Stand(c)'
    BY <1>1, <1>4, <1>6, <2>1 DEF Stand, Has, OnHand, JobIs, RunIs, run, runVars
  <2>3. \A d \in Cycle : d # c /\ pc[d] \in {"execute", "investigate"} => job[d] # Nobody
    BY DEF LeaseInv, IBudget, Named
  <2> QED BY <1>1, <1>5, <1>6, <2>2, <2>3, JobWrite DEF LeaseKept
<1>7. CASE ~UNCHANGED jobs
  <2>1. Defer(job[c]) \/ Cancel(job[c]) \/ \E w : Start(job[c], w) \/ Complete(job[c], w) \/ Fail(job[c], w)
    BY <1>1, <1>7 DEF BindTreated, StartJob, NotExecutable, Succeed, Break, FailJobStep, DeferStep, Outer, jobVars
  <2>2. /\ \A i \in Job : i # job[c] => jobs'[i] = jobs[i]
    BY <1>1, <1>2, <2>1, JobWrites
  <2>3. \A d \in Cycle : d # c /\ pc[d] \in {"execute", "investigate"} => job[d] # job[c]
    <3>1. CASE pc[c] \in Working
      BY <3>1, OwnJob
    <3>2. CASE pc[c] = "defer"
      <4>1. ~JobIs(job[c], {"RUNNING"})
        BY <1>7, <3>2 DEF BindTreated, StartJob, NotExecutable, Succeed, Break, FailJobStep, DeferStep, Outer, At,
           CanDefer, JobIs, jobVars
      <4> QED BY <4>1, IdleJob
    <3> QED BY <1>1, <3>1, <3>2 DEF Working, OnHand
  <2>4. Stand(c)'
    <3>1. CASE StartJob(c)
      <4>1. Has(c, "LEASED") /\ ~RunIs(run(c), Treatment \cup {"CREATED"}) /\ m = "leaseRun"
        BY <1>1, <1>4, <3>1 DEF StartJob, At, Stand, RunIs, OnJobs, Goto, LeaseInv, IBudget, Named, Treatment
      <4>2. Has(c, "RUNNING")'
        BY <1>1, <1>2, <1>4, <3>1, <4>1, JobWrites DEF StartJob, Has, JobIs
      <4> QED BY <1>1, <1>2, <1>4, <4>1, <4>2 DEF Stand, RunIs, runVars, OnHand
    <3>2. CASE Succeed(c)
      <4>1. m = "completeRun" /\ pc[c] = "execute" /\ Complete(job[c], Owner[c])
        BY <1>1, <1>4, <1>7, <3>2 DEF Succeed, At, OnJobs, Goto, LeaseInv, IBudget, Named, jobVars
      <4> QED BY <1>1, <1>2, <1>4, <4>1, JobWrites DEF Stand, JobIs, RunIs, runVars, OnHand
    <3>3. CASE FailJobStep(c)
      <4>1. m = "verdict" /\ pc[c] = "failJob"
        BY <1>1, <1>4, <1>7, <3>3 DEF FailJobStep, At, OnJobs, Goto, LeaseInv, IBudget, Named, jobVars
      <4> QED BY <1>1, <1>2, <1>4, <4>1 DEF Stand, RunIs, runVars, OnHand
    <3>4. CASE BindTreated(c) \/ NotExecutable(c) \/ DeferStep(c)
      <4>1. m = "claim"
        BY <1>4, <3>4 DEF BindTreated, NotExecutable, DeferStep, OnJobs, Goto, LeaseInv, IBudget, Named
      <4> QED BY <1>4, <4>1 DEF Stand, OnHand
    <3>5. ~Break(c) /\ ~Outer(c)
      BY <1>1, <1>7 DEF Break, Outer, At, jobVars
    <3> QED BY <3>1, <3>2, <3>3, <3>4, <3>5
  <2> QED BY <1>1, <1>5, <2>2, <2>3, <2>4, JobWrite DEF LeaseKept
<1> QED BY <1>6, <1>7

\* A cycle that writes its run, which it treats or is about to start.
LEMMA RunStepKept ==
    ASSUME LeaseInv, NEW c \in Cycle, Step(c), NEW m, Goto(c, m), UNCHANGED jobVars, requeuing' = requeuing,
           m \in Working => pc[c] \in Working,
           pc[c] \in Beating \/ RunIs(run(c), {"CREATED", "QUEUED", "LEASED"}),
           \A q \in Run : q # run(c) => runs'[q] = runs[q],
           Stand(c)'
    PROVE  LeaseKept
<1>1. \A d \in Cycle : d # c /\ pc[d] \in {"execute", "investigate", "recover"} => run(d) # run(c)
  BY OwnRun, WaitingRun
<1>2. /\ \A d \in Cycle : d # c => Stand(d)'
      /\ Requeued'
  BY <1>1, RunWrite
<1>3. /\ \A d \in Cycle : d # c => pc[d] \in Jobless \cup {"execute", "investigate", "recover"}
      /\ \A d \in Cycle : run(d)' = run(d)
      /\ \A d \in Cycle : d # c => pc'[d] = pc[d]
      /\ job' = job
  BY StepOthers DEF Goto, run, jobVars
<1>4. ASSUME NEW d \in Cycle, NEW e \in Cycle, d # e, pc'[d] \in Working, pc'[e] \in Working PROVE job'[d] # job'[e]
  <2>1. pc[d] \in Working /\ pc[e] \in Working
    BY <1>3, <1>4 DEF Goto, LeaseInv, IBudget, Named
  <2> QED BY <1>3, <1>4, <2>1 DEF LeaseInv, Apart
<1>5. ASSUME NEW d \in Cycle, d # c, pc'[d] \in Beating PROVE run(d) # run(c) /\ pc[d] \in Beating
  BY <1>1, <1>3, <1>5 DEF Jobless, Beating
<1>6. ASSUME NEW d \in Cycle, NEW e \in Cycle, d # e, pc'[d] \in Beating, pc'[e] \in Beating PROVE run(d)' # run(e)'
  BY <1>3, <1>5, <1>6 DEF LeaseInv, Apart
<1> QED BY <1>2, <1>4, <1>6 DEF LeaseKept, Apart

LEMMA LeaseRunSteps ==
    ASSUME LeaseInv, NEW c \in Cycle, Step(c),
           BindCreated(c) \/ LeaseRunStep(c) \/ StartRunStep(c) \/ CompleteRunStep(c) \/ Diagnose(c) \/ RootCause(c)
             \/ DeadLetterStep(c) \/ FailRunStep(c) \/ Recover(c) \/ Verify(c) \/ Retry(c)
    PROVE  LeaseKept
<1>1. /\ Stand(c) /\ Budget /\ requeuing = {} /\ UNCHANGED jobVars
      /\ pc[c] \in {"bind", "leaseRun", "startRun", "completeRun", "investigate", "rootCause", "verdict", "recover",
                    "verify"}
  <2>1. Stand(c) /\ Budget /\ requeuing = {}
    BY StepOthers DEF LeaseInv, IBudget
  <2>2. UNCHANGED jobVars
    BY DEF BindCreated, LeaseRunStep, StartRunStep, CompleteRunStep, Diagnose, RootCause, DeadLetterStep,
           FailRunStep, Recover, Verify, Retry, OnRuns
  <2>3. pc[c] \in {"bind", "leaseRun", "startRun", "completeRun", "investigate", "rootCause", "verdict", "recover",
                    "verify"}
    BY <2>1 DEF BindCreated, LeaseRunStep, StartRunStep, CompleteRunStep, Diagnose, RootCause, DeadLetterStep,
           FailRunStep, Recover, Verify, Retry, At, Stand
  <2> QED BY <2>1, <2>2, <2>3
<1>2. job[c] \in Job /\ run(c) \in Run /\ runs \in [Run -> RunRecord]
  BY <1>1 DEF LeaseInv, IBudget, Named, Stand, Jobless, Budget
<1> DEFINE MovesTo(m) == /\ Goto(c, m) /\ requeuing' = requeuing
                       /\ \A q \in Run : q # run(c) => runs'[q] = runs[q]
           Goes(m, s) == MovesTo(m) /\ runs'[run(c)].state = s /\ runs'[run(c)].lease = runs[run(c)].lease
<1>3. ASSUME NEW m, Goto(c, m)
      PROVE  /\ pc'[c] = m /\ run(c)' = run(c)
             /\ \A s : Has(c, s)' = Has(c, s)
             /\ JobIs(job[c], {"SUCCEEDED"})' = JobIs(job[c], {"SUCCEEDED"})
  BY <1>1, <1>3 DEF Goto, LeaseInv, IBudget, Named, run, Has, JobIs, jobVars
<1>4. ASSUME NEW m \in {"claim", "start", "startRun", "execute", "rootCause", "failJob", "recover", "verify", "defer"},
             MovesTo(m), m \in Working => pc[c] \in Working,
             pc[c] \in Beating \/ RunIs(run(c), {"CREATED", "QUEUED", "LEASED"}),
             Stand(c)'
      PROVE  LeaseKept
  BY <1>1, <1>4, RunStepKept
<1>5. \A m, s : s \in RunStates /\ Go(run(c), s) /\ OnRuns(c, m) => Goes(m, s)
  BY <1>1, <1>2, GoWrites DEF OnRuns
<1> HIDE DEF MovesTo
<1>6. CASE BindCreated(c)
  <2>1. Goes("start", "QUEUED") /\ pc[c] = "bind" /\ RunIs(run(c), {"CREATED"})
    BY <1>5, <1>6, StatesAsked DEF BindCreated, QueueRun, At
  <2>2. Goto(c, "start")
    BY <2>1 DEF MovesTo
  <2>3. Stand(c)'
    BY <1>1, <1>2, <1>3, <2>1, <2>2 DEF Stand, RunIs, OnHand, Jobless
  <2> QED BY <1>4, <2>1, <2>3 DEF Working, OnHand, RunIs
<1>7. CASE LeaseRunStep(c)
  <2>1. /\ MovesTo("startRun") /\ runs'[run(c)].state = "LEASED" /\ pc[c] = "leaseRun" /\ RunIs(run(c), {"QUEUED"})
    BY <1>2, <1>7 DEF LeaseRunStep, LeaseRun, OnRuns, MovesTo, At, RunRecord
  <2>2. Goto(c, "startRun")
    BY <2>1 DEF MovesTo
  <2>3. Stand(c)'
    BY <1>1, <1>2, <1>3, <2>1, <2>2 DEF Stand, RunIs, OnHand, Jobless
  <2> QED BY <1>4, <2>1, <2>3 DEF Working, OnHand, RunIs
<1>8. CASE StartRunStep(c)
  <2>1. RunIs(run(c), {"LEASED"}) /\ pc[c] \in {"startRun", "leaseRun"} /\ StartRun(run(c)) /\ OnRuns(c, "execute")
    BY <1>1, <1>8 DEF StartRunStep, At, Stand
  <2>2. /\ MovesTo("execute") /\ runs'[run(c)].state = "RUNNING" /\ runs'[run(c)].lease = "live"
    <3> DEFINE new == [runs[run(c)] EXCEPT !.state = "RUNNING", !.attempt = runs[run(c)].attempt + 1, !.lease = "live"]
    <3>1. runs' = [runs EXCEPT ![run(c)] = new] /\ requeuing' = requeuing
      BY <2>1 DEF StartRun
    <3>2. new.state = "RUNNING" /\ new.lease = "live"
      BY <1>2 DEF RunRecord
    <3> HIDE DEF new
    <3> QED BY <1>2, <2>1, <3>1, <3>2 DEF MovesTo, OnRuns
  <2>3. Goto(c, "execute")
    BY <2>2 DEF MovesTo
  <2>4. Stand(c)'
    BY <1>1, <1>2, <1>3, <2>1, <2>2, <2>3 DEF Stand, RunIs, OnHand, Jobless
  <2> QED BY <1>4, <2>1, <2>2, <2>4 DEF Working, OnHand, RunIs
<1>9. CASE CompleteRunStep(c) \/ DeadLetterStep(c) \/ Retry(c)
  <2>1. pc[c] \in Beating
    BY <1>9 DEF CompleteRunStep, DeadLetterStep, Retry, At, Beating
  <2>2. MovesTo("claim")
    <3>1. CASE UNCHANGED runVars
      <4>1. ~OnRuns(c, "outer") \/ OnRuns(c, "claim")
        BY <1>1, <1>9 DEF CompleteRunStep, DeadLetterStep, Retry, RetryThrows, CanGo, RunNext, Stand, At, RunIs
      <4> QED BY <1>9, <3>1, <4>1 DEF CompleteRunStep, DeadLetterStep, Retry, OnRuns, runVars, MovesTo
    <3>2. CASE ~UNCHANGED runVars
      BY <1>5, <1>9, <3>2, StatesAsked DEF CompleteRunStep, DeadLetterStep, Retry, ScheduleRetry, CompleteRun,
         DeadLetterRun, QueueRun
    <3> QED BY <3>1, <3>2
  <2>3. Goto(c, "claim")
    BY <2>2 DEF MovesTo
  <2>4. Stand(c)'
    BY <1>3, <2>3 DEF Stand, OnHand, Jobless
  <2> QED BY <1>4, <2>1, <2>2, <2>4 DEF Working, OnHand
<1>10. ASSUME NEW m \in {"rootCause", "failJob", "recover", "verify", "defer"}, NEW s, Goes(m, s), pc[c] \in Beating,
              m \in {"rootCause", "failJob"} => pc[c] \in Working /\ Has(c, "RUNNING"),
              m = "rootCause" => s = "DIAGNOSING", m = "failJob" => s = "ROOT_CAUSE_FOUND",
              m = "recover" => s = "FAILED", m = "verify" => s = "RECOVERING", m = "defer" => s = "VERIFYING"
       PROVE  LeaseKept
  <2>1. Goto(c, m) /\ requeuing' = {} /\ run(c) \notin requeuing'
    BY <1>1, <1>10 DEF MovesTo
  <2>2. Stand(c)'
    BY <1>1, <1>2, <1>3, <1>10, <2>1 DEF Stand, RunIs, OnHand, Jobless
  <2> QED BY <1>4, <1>10, <2>2 DEF Working, OnHand
<1>11. CASE Diagnose(c) \/ RootCause(c) \/ FailRunStep(c) \/ Verify(c)
  <2>1. /\ Diagnose(c) => Goes("rootCause", "DIAGNOSING") /\ pc[c] = "investigate"
        /\ RootCause(c) => Goes("failJob", "ROOT_CAUSE_FOUND") /\ pc[c] = "rootCause"
        /\ FailRunStep(c) => Goes("recover", "FAILED") /\ pc[c] = "verdict"
        /\ Verify(c) => Goes("defer", "VERIFYING") /\ pc[c] = "verify"
    BY <1>1, <1>5, StatesAsked DEF Diagnose, RootCause, FailRunStep, Verify, BeginDiagnosis, RecordRootCause, FailRun,
       BeginVerification, Stand, RunIs, At, CanGo, RunNext
  <2> QED BY <1>1, <1>10, <1>11, <2>1 DEF Beating, Working, OnHand, Stand
<1>12. CASE Recover(c)
  <2>1. Goes("verify", "RECOVERING") /\ pc[c] = "recover"
    BY <1>1, <1>5, <1>12, StatesAsked DEF Recover, BeginRecovery, Stand, RunIs, At, CanGo, RunNext
  <2> QED BY <1>10, <2>1 DEF Beating
<1> QED BY <1>6, <1>7, <1>8, <1>9, <1>11, <1>12

\* A step of anybody else leaves a cycle what it relies on.
Spares(d) ==
    /\ pc[d] \in Working =>
          /\ jobs'[job[d]].state = jobs[job[d]].state /\ jobs'[job[d]].owner = jobs[job[d]].owner
          /\ jobs'[job[d]].attempt = jobs[job[d]].attempt
          /\ jobs'[job[d]].lease \in {jobs[job[d]].lease, "live"}
    /\ pc[d] \notin Jobless \cup {"bind"} =>
          \/ runs'[run(d)].state = runs[run(d)].state
          \/ pc[d] = "leaseRun" /\ runs'[run(d)].state = "QUEUED"
    /\ pc[d] \in {"execute", "investigate"} => runs'[run(d)].lease \in {runs[run(d)].lease, "live"}
    /\ pc[d] = "recover" => run(d) \notin requeuing'

LEMMA Spared ==
    ASSUME LeaseInv, UNCHANGED cycleVars, QueueStep, \A d \in Cycle : Spares(d),
           Requeued'
    PROVE  LeaseKept
<1>1. \A d \in Cycle : pc[d] \notin Jobless => run(d)' = run(d) /\ run(d) \in Run
  BY RunOfJobStays DEF LeaseInv, IBudget, Named, Stand, cycleVars, run
<1>2. ASSUME NEW d \in Cycle PROVE Stand(d)'
  <2>1. \A s : s \in {"LEASED", "RUNNING"} /\ pc[d] \in Working /\ Has(d, s) => Has(d, s)'
    BY DEF Spares, Has, JobIs, cycleVars
  <2>2. pc'[d] = pc[d] /\ job' = job /\ Stand(d) /\ Spares(d)
    BY DEF cycleVars, LeaseInv
  <2>3. pc[d] \in {"bind", "start"} => Has(d, "LEASED")'
    BY <2>1, <2>2 DEF Stand, Working
  <2>4. pc[d] \in OnHand => Has(d, "RUNNING")'
    BY <2>1, <2>2 DEF Stand, Working
  <2>5. pc[d] = "completeRun" => JobIs(job[d], {"SUCCEEDED"})'
    BY <2>2 DEF Stand, Working, Spares, JobIs
  <2>6. pc[d] = "leaseRun" => ~RunIs(run(d), Treatment \cup {"CREATED"})'
    BY <1>1, <2>2 DEF Stand, Spares, RunIs, Treatment, Jobless
  <2>7. \A s : pc[d] \notin Jobless \cup {"bind", "leaseRun"} /\ RunIs(run(d), {s}) => RunIs(run(d), {s})'
    BY <1>1, <2>2 DEF Spares, RunIs
  <2>8. pc[d] \in {"execute", "investigate"} => (runs[run(d)].lease = "live")'
    BY <1>1, <2>2 DEF Stand, Spares, Jobless
  <2>9. pc[d] = "recover" => run(d)' \notin requeuing'
    BY <1>1, <2>2 DEF Stand, Spares, Jobless
  <2>10. /\ pc[d] = "start" => RunIs(run(d), {"QUEUED"})'
         /\ pc[d] = "startRun" => RunIs(run(d), {"LEASED"})'
         /\ pc[d] \in {"execute", "investigate", "completeRun"} => RunIs(run(d), {"RUNNING"})'
         /\ pc[d] = "rootCause" => RunIs(run(d), {"DIAGNOSING"})'
         /\ pc[d] \in {"failJob", "verdict"} => RunIs(run(d), {"ROOT_CAUSE_FOUND"})'
         /\ pc[d] = "recover" => RunIs(run(d), {"FAILED"})'
         /\ pc[d] = "verify" => RunIs(run(d), {"RECOVERING"})'
         /\ pc[d] = "defer" => RunIs(run(d), {"VERIFYING"})'
    BY <2>2, <2>7 DEF Stand, Jobless
  <2>11. pc[d] \notin Jobless => run(d)' \in Run
    BY <1>1
  <2> QED BY <2>2, <2>3, <2>4, <2>5, <2>6, <2>8, <2>9, <2>10, <2>11 DEF Stand
<1>3. \A d \in Cycle : pc[d] \in Beating => run(d)' = run(d)
  BY <1>1 DEF Beating, Jobless
<1>4. Apart'
  BY <1>3 DEF LeaseInv, Apart, cycleVars
<1> QED BY <1>2, <1>4 DEF LeaseKept

\* What the jobs of the cycles look like, for the steps of the others.
LEMMA StandsOn ==
    ASSUME LeaseInv, NEW d \in Cycle
    PROVE  /\ pc[d] \in Working => /\ job[d] \in Job /\ JobIs(job[d], Held \cup {"SUCCEEDED"})
                                   /\ JobIs(job[d], Held) => jobs[job[d]].owner = Owner[d] /\ jobs[job[d]].lease = "live"
           /\ pc[d] \notin Jobless => run(d) \in Run
           /\ pc[d] \notin Jobless \cup {"bind", "leaseRun"} => ~RunIs(run(d), {"ABSENT", "CREATED"})
           /\ pc[d] \notin Jobless \cup {"bind", "leaseRun", "recover"} => ~RunIs(run(d), {"FAILED"})
           /\ pc[d] = "recover" => run(d) \notin requeuing
           /\ pc[d] \in {"execute", "investigate"} => RunIs(run(d), {"RUNNING"}) /\ runs[run(d)].lease = "live"
BY DEF LeaseInv, IBudget, Named, Stand, Working, OnHand, Jobless, Labels, Has, JobIs, RunIs, Held

LEMMA LeaseOthers ==
    ASSUME ~Manual, ~Stalls, LeaseInv, Next \/ UNCHANGED vars, \A c \in Cycle : ~Step(c)
    PROVE  LeaseKept
<1>1. QueueStep
  BY OthersUseQueue DEF LeaseInv, IBudget
<1>2. /\ jobs \in [Job -> JobRecord] /\ runs \in [Run -> RunRecord]
      /\ Requeued
      /\ \A j \in settling : JobIs(j, {"FAILED"})
      /\ \A c \in Cycle : pc[c] \in Labels
  BY Typed DEF LeaseInv, IJobs, JobsSound, IBudget, Budget, Named
<1>3. CASE UNCHANGED <<jobs, cycleVars, requeuing>> /\ UNCHANGED runs
  BY <1>1, <1>2, <1>3, StandsOn, Spared DEF Requeued, RunIs, Spares
<1>4. ASSUME NEW c \in Cycle, Beat(c) PROVE LeaseKept
  <2>1. UNCHANGED cycleVars
    BY <1>4 DEF Beat
  <2>2. CASE Heartbeat(job[c], Owner[c]) /\ UNCHANGED runVars
    <3>1. \A j \in Job : /\ jobs'[j].state = jobs[j].state /\ jobs'[j].owner = jobs[j].owner
                         /\ jobs'[j].attempt = jobs[j].attempt /\ jobs'[j].lease \in {jobs[j].lease, "live"}
      BY <1>2, <2>2 DEF Heartbeat, JobRecord
    <3> QED BY <1>1, <1>2, <2>1, <2>2, <3>1, StandsOn, Spared DEF Requeued, RunIs, Spares, runVars
  <2>3. CASE HeartbeatRun(run(c)) /\ UNCHANGED jobVars
    <3>1. /\ \A r \in Run : runs'[r].state = runs[r].state /\ runs'[r].lease \in {runs[r].lease, "live"}
          /\ requeuing' = requeuing
      BY <1>2, <2>3 DEF HeartbeatRun, RunRecord
    <3> QED BY <1>1, <1>2, <2>1, <2>3, <3>1, StandsOn, Spared DEF Requeued, RunIs, Spares, jobVars, Jobless
  <2> QED BY <1>4, <2>2, <2>3 DEF Beat
<1>5. CASE SettleStep
  <2>1. ASSUME NEW j \in Job, Settle(j), UNCHANGED <<runVars, cycleVars>> PROVE LeaseKept
    <3>1. JobIs(j, {"FAILED"}) /\ \A i \in Job : i # j => jobs'[i] = jobs[i]
      BY <1>2, <2>1 DEF Settle, JobTo
    <3>2. \A d \in Cycle : pc[d] \in Working => job[d] \in Job /\ job[d] # j
      BY <3>1, StandsOn DEF JobIs, Held
    <3> QED BY <1>1, <1>2, <2>1, <3>1, <3>2, StandsOn, Spared DEF Requeued, RunIs, Spares, runVars
  <2>2. ASSUME NEW r \in Run, Requeue(r), UNCHANGED <<jobVars, cycleVars>> PROVE LeaseKept
    <3>1. /\ runs[r].state = "FAILED" /\ runs'[r].state = "QUEUED" /\ requeuing' = requeuing \ {r} /\ r \in requeuing
          /\ \A q \in Run : q # r => runs'[q] = runs[q]
      BY <1>2, <2>2 DEF Requeue, RunRecord, Requeued, RunIs
    <3>2. \A d \in Cycle : pc[d] \notin Jobless \cup {"bind", "leaseRun"} => run(d) # r
      BY <3>1, StandsOn DEF RunIs
    <3>3. \A d \in Cycle : Spares(d)
      BY <1>2, <2>2, <3>1, <3>2, StandsOn DEF Spares, jobVars, Jobless
    <3> QED BY <1>1, <1>2, <2>2, <3>1, <3>3, Spared DEF Requeued, RunIs
  <2> QED BY <1>5, <2>1, <2>2 DEF SettleStep
<1>6. ASSUME NEW t \in Task, Dispatch(t) PROVE LeaseKept
  <2>1. CASE UNCHANGED runs
    BY <1>3, <1>6, <2>1 DEF Dispatch, CreateRun, jobVars
  <2>2. CASE ~UNCHANGED runs
    <3>1. PICK r \in Run : /\ RunIs(r, {"ABSENT"}) /\ \A q \in Run : q # r => runs'[q] = runs[q]
                           /\ requeuing' = requeuing
      BY <1>2, <1>6, <2>2 DEF Dispatch, CreateRun
    <3>2. \A d \in Cycle : pc[d] \notin Jobless \cup {"bind", "leaseRun"} => run(d) # r
      BY <3>1, StandsOn DEF RunIs
    <3>3. \A d \in Cycle : pc[d] \in Awaiting
      BY <1>6 DEF Dispatch, ThreadFree
    <3>4. \A d \in Cycle : Spares(d)
      BY <1>6, <3>1, <3>2, <3>3, StandsOn DEF Dispatch, Spares, jobVars, Jobless, Awaiting
    <3>5. Requeued'
      BY <1>2, <3>1 DEF Requeued, RunIs
    <3> QED BY <1>1, <1>6, <3>4, <3>5, Spared DEF Dispatch
  <2> QED BY <2>1, <2>2
<1>7. CASE DispatchEnqueue
  <2>1. CASE UNCHANGED jobs
    BY <1>3, <1>7, <2>1 DEF DispatchEnqueue, runVars
  <2>2. CASE ~UNCHANGED jobs
    <3>1. PICK j \in Job : JobIs(j, {"ABSENT"}) /\ \A i \in Job : i # j => jobs'[i] = jobs[i]
      BY <1>7, <1>2, <2>2 DEF DispatchEnqueue, Enqueue
    <3>2. \A d \in Cycle : pc[d] \in Working => job[d] \in Job /\ job[d] # j
      BY <3>1, StandsOn DEF JobIs, Held
    <3> QED BY <1>1, <1>2, <1>7, <3>1, <3>2, StandsOn, Spared DEF DispatchEnqueue, Spares, runVars, Requeued, RunIs
  <2> QED BY <2>1, <2>2
<1>8. CASE DispatchQueue
  <2>1. CASE UNCHANGED runVars
    BY <1>3, <1>8, <2>1 DEF DispatchQueue, jobVars, runVars
  <2>2. CASE Go(dispatch.run, "QUEUED")
    <3> DEFINE r == dispatch.run
    <3>1. /\ requeuing' = requeuing /\ \A q \in Run : q # r => runs'[q] = runs[q]
          /\ CanGo(r, "QUEUED")
      BY <1>2, <2>2 DEF Go
    <3>2. r \in Run => RunIs(r, {"CREATED", "LEASED"})
      BY <1>8, <3>1 DEF CanGo, RunNext, DispatchQueue, LeaseInv, IBudget, DispatchedActive, Active, RunIs, RunInactive
    <3>3. \A d \in Cycle : pc[d] \in Awaiting
      BY <1>8 DEF DispatchQueue, LeaseInv, IBudget, Turn
    <3>4. \A d \in Cycle : pc[d] \notin Jobless => pc[d] \in {"execute", "investigate", "recover"} /\ run(d) # r
      BY <3>2, <3>3, WaitingRun, StandsOn DEF Awaiting, Jobless, RunIs
    <3>5. \A d \in Cycle : Spares(d)
      BY <1>8, <3>1, <3>4, StandsOn DEF DispatchQueue, Spares, jobVars, Jobless, Working, OnHand
    <3>6. Requeued'
      BY <1>2, <3>1, <3>2 DEF Requeued, RunIs
    <3> QED BY <1>1, <1>8, <3>5, <3>6, Spared DEF DispatchQueue
  <2> QED BY <1>8, <2>1, <2>2 DEF DispatchQueue, QueueRun
<1>9. ASSUME NEW j \in Job, JobLapses(j) \/ JobDue(j) PROVE LeaseKept
  <2>1. /\ UNCHANGED <<runVars, cycleVars>> /\ \A i \in Job : i # j => jobs'[i] = jobs[i]
    BY <1>2, <1>9 DEF JobLapses, JobDue, LeaseLapses, BackoffElapses
  <2>2. \A d \in Cycle : pc[d] \in Awaiting
    BY <1>9 DEF JobLapses, JobDue, ThreadFree
  <2>3. \A d \in Cycle : pc[d] \in Working => job[d] \in Job /\ job[d] # j
    <3> SUFFICES ASSUME NEW d \in Cycle, pc[d] \in Working, job[d] = j PROVE FALSE
      BY StandsOn
    <3>1. pc[d] \in {"execute", "investigate"} /\ Has(d, "RUNNING")
      BY <2>2 DEF Awaiting, Working, OnHand, LeaseInv, Stand
    <3>2. JobBeaten(j)
      BY <3>1 DEF JobBeaten, Beating, Holds, Has
    <3> QED BY <1>9, <3>1, <3>2 DEF JobLapses, JobDue, BackoffElapses, Has, JobIs
  <2> QED BY <1>1, <1>2, <2>1, <2>3, StandsOn, Spared DEF Requeued, RunIs, Spares, runVars
<1>10. ASSUME NEW r \in Run, RunLapses(r) PROVE LeaseKept
  <2>1. /\ UNCHANGED <<jobVars, cycleVars, requeuing>> /\ \A q \in Run : q # r => runs'[q] = runs[q]
        /\ \A q \in Run : runs'[q].state = runs[q].state
    BY <1>2, <1>10 DEF RunLapses, RunLeaseLapses, RunRecord
  <2>2. \A d \in Cycle : pc[d] \in {"execute", "investigate"} => run(d) # r
    BY <1>10, StandsOn DEF RunLapses, RunBeaten, Beating, RunIs, RunLeased
  <2> QED BY <1>1, <1>2, <2>1, <2>2, StandsOn, Spared DEF Requeued, RunIs, Spares, jobVars, Jobless
<1>11. CASE Crash
  <2>1. \A c \in Cycle : pc'[c] = "idle"
    BY <1>11 DEF Crash
  <2>2. requeuing' = {}
    BY <1>11 DEF Crash, ForgetRuns
  <2> QED BY <2>1, <2>2 DEF LeaseKept, Requeued, Stand, Apart, Jobless, OnHand, Working, Beating
<1>12. CASE UNCHANGED vars
  BY <1>3, <1>12 DEF vars, jobVars, runVars
<1>13. ~Operate
  BY DEF Operate
<1> QED BY <1>4, <1>5, <1>6, <1>7, <1>8, <1>9, <1>10, <1>11, <1>12, <1>13 DEF Next, Clock

\* The invariant is inductive when nothing but the clock lets a lease lapse.
LEMMA LeaseInvNext ==
    ASSUME ~Manual, ~Stalls, LeaseInv, Next \/ UNCHANGED vars
    PROVE  LeaseInv'
<1>1. IBudget'
  BY NamedNext, TurnNext, BudgetNext, StartLeasedNext, DispatchedNext DEF LeaseInv, IBudget, Named
<1>2. QueueStep
  BY CycleUsesQueue, OthersUseQueue DEF LeaseInv, IBudget
<1>3. IJobs'
  BY <1>2, StepSound DEF QueueStep, LeaseInv
<1>4. Placed' /\ Ticketed'
  BY <1>2, <1>3, PlacedNext, TicketedNext DEF LeaseInv
<1>5. LeaseKept
  BY LeaseOthers, LeaseBegin, LeaseClaim, LeaseJob, LeaseRunSteps DEF Step
<1> QED BY <1>1, <1>3, <1>4, <1>5 DEF LeaseInv, LeaseKept

LEMMA LeaseInvInit == Init => LeaseInv
<1> SUFFICES ASSUME Init PROVE LeaseInv
  OBVIOUS
<1>1. IBudget /\ IJobs
  BY BudgetInit, InitSound DEF Init
<1>2. Placed
  BY DEF Init, JobInit, NoJob, Placed, JobIs
<1>3. Ticketed /\ \A c \in Cycle : pc[c] = "idle"
  BY DEF Init, Ticketed
<1>4. Apart /\ (\A c \in Cycle : Stand(c)) /\ Requeued
  BY <1>3 DEF Init, RunInit, Requeued, Apart, Stand, Jobless, OnHand, Working, Beating
<1> QED BY <1>1, <1>2, <1>3, <1>4 DEF LeaseInv

LEMMA LeaseShows == LeaseInv => ExecutesUnderLease
BY DEF LeaseInv, Stand, ExecutesUnderLease, Executing, Has, JobIs, OnHand

----------------------------------------------------------------------------
(* The two stores.                                                         *)

\* Unless the process was killed, a FAILED job is between its two writes.
TransInv == crashes = 0 => \A j \in Job : JobIs(j, {"FAILED"}) => j \in settling

\* With no second write open, whatever fails a job opens one.
LEMMA FailsSettle ==
    ASSUME IJobs, settling = {}, \A j \in Job : ~JobIs(j, {"FAILED"}), QueueStep, NEW i \in Job, JobIs(i, {"FAILED"})'
    PROVE  i \in settling'
<1>1. jobs \in [Job -> JobRecord] /\ ~JobIs(i, {"FAILED"})
  BY Typed DEF IJobs
<1>2. CASE JobStep
  <2>1. ASSUME NEW r \in Run, Enqueue(r) PROVE FALSE
    BY <1>1, <2>1 DEF Enqueue, JobIs, JobRecord
  <2>2. CASE ExpireLeases
    BY <1>1, <2>2 DEF ExpireLeases, JobIs
  <2>3. ASSUME NEW j \in Job, NEW s, NEW l, NEW b, NEW w, s # "FAILED", JobTo(j, s, l, b, w) PROVE FALSE
    <3> DEFINE new == [jobs[j] EXCEPT !.state = s, !.lease = l, !.waiting = b, !.owner = w]
    <3>1. jobs' = [jobs EXCEPT ![j] = new]
      BY <2>3 DEF JobTo
    <3>2. new.state = s
      BY <1>1 DEF JobRecord
    <3> HIDE DEF new
    <3> QED BY <1>1, <2>3, <3>1, <3>2 DEF JobIs
  <2>4. ASSUME NEW j \in Job, Defer(j) \/ Cancel(j) PROVE FALSE
    BY <2>3, <2>4 DEF Defer, Cancel
  <2>5. ASSUME NEW j \in Job, NEW w, Start(j, w) \/ Complete(j, w) PROVE FALSE
    BY <2>3, <2>5 DEF Start, Complete
  <2>6. ASSUME NEW j \in Job, LeaseLapses(j) \/ BackoffElapses(j) \/ \E w : Heartbeat(j, w) PROVE FALSE
    BY <1>1, <2>6 DEF LeaseLapses, BackoffElapses, Heartbeat, JobIs, JobRecord
  <2>7. ASSUME NEW j \in Job, NEW w, Lease(j, w) PROVE FALSE
    <3> DEFINE new == [jobs[j] EXCEPT !.state = "LEASED", !.owner = w, !.lease = "live",
                                      !.attempt = jobs[j].attempt + 1]
    <3>1. jobs' = [jobs EXCEPT ![j] = new]
      BY <2>7 DEF Lease
    <3>2. new.state = "LEASED"
      BY <1>1 DEF JobRecord
    <3> HIDE DEF new
    <3> QED BY <1>1, <3>1, <3>2 DEF JobIs
  <2>8. ASSUME NEW j \in Job, NEW w, Fail(j, w) PROVE i \in settling'
    <3>1. j # i => jobs'[i] = jobs[i]
      BY <1>1, <2>8 DEF Fail, JobTo
    <3> QED BY <1>1, <2>8, <3>1 DEF Fail, JobIs
  <2> QED BY <1>2, <2>1, <2>2, <2>4, <2>5, <2>6, <2>7, <2>8 DEF JobStep
<1>3. CASE UNCHANGED jobs
  BY <1>1, <1>3 DEF JobIs
<1>4. ~\E j \in Job : Settle(j)
  BY DEF Settle
<1> QED BY <1>2, <1>3, <1>4 DEF QueueStep, JobQueueNext, Forget, jobVars

LEMMA TransNext ==
    ASSUME Named, Turn, IJobs, TransInv, crashes \in Nat, Next \/ UNCHANGED vars
    PROVE  TransInv' /\ crashes' \in Nat
<1>1. QueueStep
  BY CycleUsesQueue, OthersUseQueue
<1>2. ASSUME settling = {}, crashes' = crashes PROVE TransInv' /\ crashes' \in Nat
  BY <1>1, <1>2, FailsSettle DEF TransInv
<1>3. ASSUME NEW c \in Cycle, Step(c) PROVE TransInv' /\ crashes' \in Nat
  <2>1. crashes' = crashes
    BY <1>3 DEF Step, BeginCycle, StaleRuns, Claim, Leave, BindCreated, BindTreated, StartJob,
       LeaseRunStep, NotExecutable, StartRunStep, Succeed, CompleteRunStep, Break, Diagnose,
       RootCause, FailJobStep, DeadLetterStep, FailRunStep, Recover, Verify, DeferStep, Retry,
       Outer, OnJobs, OnRuns
  <2> QED BY <1>2, <1>3, <2>1, StepTurn DEF Settled
<1>4. CASE SettleStep
  <2>1. ASSUME NEW j \in Job, Settle(j), crashes' = crashes PROVE TransInv'
    <3>1. \A i \in Job : i # j => jobs'[i] = jobs[i]
      BY <2>1, Typed DEF Settle, JobTo, IJobs
    <3>2. jobs'[j].state # "FAILED"
      <4>1. ASSUME NEW s, NEW l, NEW b, NEW w, s # "FAILED", JobTo(j, s, l, b, w) PROVE jobs'[j].state # "FAILED"
        <5> DEFINE new == [jobs[j] EXCEPT !.state = s, !.lease = l, !.waiting = b, !.owner = w]
        <5>1. jobs' = [jobs EXCEPT ![j] = new]
          BY <4>1 DEF JobTo
        <5>2. new.state = s /\ jobs \in [Job -> JobRecord]
          BY Typed DEF IJobs, JobRecord
        <5> HIDE DEF new
        <5> QED BY <4>1, <5>1, <5>2
      <4> QED BY <2>1, <4>1 DEF Settle
    <3> QED BY <2>1, <3>1, <3>2 DEF TransInv, Settle, JobIs
  <2>2. CASE UNCHANGED <<jobVars, crashes>>
    BY <2>2 DEF TransInv, jobVars, JobIs
  <2> QED BY <1>4, <2>1, <2>2 DEF SettleStep
<1>5. CASE (\E c \in Cycle : Beat(c)) \/ (\E t \in Task : Dispatch(t)) \/ DispatchEnqueue \/ DispatchQueue
             \/ Clock \/ Operate
  <2>1. settling = {} /\ crashes' = crashes
    BY <1>5 DEF Beat, Dispatch, DispatchEnqueue, DispatchQueue, Clock, JobLapses, JobDue, RunLapses, Operate,
       ThreadFree, Turn, Settled
  <2> QED BY <1>2, <2>1
<1>6. CASE Crash
  BY <1>6 DEF Crash, TransInv
<1>7. CASE UNCHANGED vars
  BY <1>7 DEF vars, jobVars, TransInv, JobIs
<1> QED BY <1>3, <1>4, <1>5, <1>6, <1>7 DEF Next

LEMMA TransShows == TransInv => FailedIsTransient
BY DEF TransInv, FailedIsTransient

----------------------------------------------------------------------------
(* What the steps of a cycle past its claim write, each in one line.       *)

\* The cycle goes from "at" to "to", its run from s to t.
RunEffect(c, at, s, t, to) ==
    /\ pc[c] = at /\ runs[run(c)].state = s /\ runs'[run(c)].state = t
    /\ Goto(c, to) /\ UNCHANGED jobVars /\ requeuing' = requeuing
    /\ runs'[run(c)].task = runs[run(c)].task
    /\ \A q \in Run : q # run(c) => runs'[q] = runs[q]

\* The cycle goes from "at" to "to", its job from s to t.
JobEffect(c, at, s, t, to) ==
    /\ pc[c] = at /\ jobs[job[c]].state = s /\ jobs'[job[c]].state = t
    /\ Goto(c, to) /\ UNCHANGED runVars
    /\ settling' = IF t = "FAILED" THEN settling \cup {job[c]} ELSE settling
    /\ jobs'[job[c]].run = jobs[job[c]].run
    /\ \A i \in Job : i # job[c] => jobs'[i] = jobs[i]

RunStepOf(c) ==
    BindCreated(c) \/ LeaseRunStep(c) \/ StartRunStep(c) \/ CompleteRunStep(c) \/ Diagnose(c) \/ RootCause(c)
      \/ DeadLetterStep(c) \/ FailRunStep(c) \/ Recover(c) \/ Verify(c) \/ Retry(c)
JobStepOf(c) ==
    BindTreated(c) \/ StartJob(c) \/ NotExecutable(c) \/ Succeed(c) \/ Break(c) \/ FailJobStep(c)
      \/ DeferStep(c) \/ Outer(c)

RunEffects(c) ==
    \/ RunEffect(c, "bind", "CREATED", "QUEUED", "start")
    \/ RunEffect(c, "leaseRun", "QUEUED", "LEASED", "startRun")
    \/ \E at \in {"leaseRun", "startRun"} : RunEffect(c, at, "LEASED", "RUNNING", "execute")
    \/ RunEffect(c, "completeRun", "RUNNING", "SUCCEEDED", "claim")
    \/ RunEffect(c, "investigate", "RUNNING", "DIAGNOSING", "rootCause")
    \/ RunEffect(c, "rootCause", "DIAGNOSING", "ROOT_CAUSE_FOUND", "failJob")
    \/ JobIs(job[c], {"DEAD_LETTER"}) /\ RunEffect(c, "verdict", "ROOT_CAUSE_FOUND", "DEAD_LETTER", "claim")
    \/ ~JobIs(job[c], {"DEAD_LETTER"}) /\ RunEffect(c, "verdict", "ROOT_CAUSE_FOUND", "FAILED", "recover")
    \/ RunEffect(c, "recover", "FAILED", "RECOVERING", "verify")
    \/ RunEffect(c, "verify", "RECOVERING", "VERIFYING", "defer")
    \/ \E t \in {"QUEUED", "DEAD_LETTER"} : RunEffect(c, "recover", "FAILED", t, "claim")

JobEffects(c) ==
    \/ JobEffect(c, "bind", "LEASED", "QUEUED", "claim")
    \/ \E at \in {"bind", "start"} : JobEffect(c, at, "LEASED", "RUNNING", "leaseRun")
    \/ ~RunIs(run(c), {"QUEUED", "LEASED"}) /\ JobEffect(c, "leaseRun", "RUNNING", "CANCELLED", "claim")
    \/ JobEffect(c, "execute", "RUNNING", "SUCCEEDED", "completeRun")
    \/ JobEffect(c, "execute", "RUNNING", "RUNNING", "investigate")
    \/ JobEffect(c, "failJob", "RUNNING", "FAILED", "verdict")
    \/ \E s : JobEffect(c, "defer", s, "QUEUED", "claim") \/ (s # "FAILED" /\ JobEffect(c, "defer", s, s, "claim"))
    \/ pc[c] = "defer" /\ Goto(c, "claim") /\ UNCHANGED <<jobVars, runVars>>

LEMMA RunStepEffects ==
    ASSUME LeaseInv, NEW c \in Cycle, Step(c), RunStepOf(c)
    PROVE  RunEffects(c)
<1>1. /\ Stand(c) /\ Budget /\ requeuing = {} /\ UNCHANGED jobVars /\ c \in Cycle
      /\ runs \in [Run -> RunRecord]
  <2>1. Stand(c) /\ Budget /\ requeuing = {}
    BY StepOthers DEF LeaseInv, IBudget
  <2>2. UNCHANGED jobVars
    BY DEF RunStepOf, BindCreated, LeaseRunStep, StartRunStep, CompleteRunStep, Diagnose, RootCause, DeadLetterStep,
           FailRunStep, Recover, Verify, Retry, OnRuns
  <2> QED BY <2>1, <2>2 DEF Budget
<1>2. pc[c] \notin Jobless => run(c) \in Run
  BY <1>1 DEF Stand
<1>3. \A s, m : s \in RunStates /\ run(c) \in Run /\ Go(run(c), s) /\ OnRuns(c, m)
                  => RunEffect(c, pc[c], runs[run(c)].state, s, m)
  BY <1>1, GoWrites DEF OnRuns, RunEffect
<1>4. CASE BindCreated(c)
  BY <1>1, <1>2, <1>3, <1>4, StatesAsked DEF BindCreated, At, QueueRun, RunIs, RunEffects, Jobless, RunEffect
<1>5. CASE LeaseRunStep(c)
  <2>1. pc[c] = "leaseRun" /\ run(c) \in Run
    BY <1>2, <1>5 DEF LeaseRunStep, At, Jobless
  <2>2. RunEffect(c, "leaseRun", "QUEUED", "LEASED", "startRun")
    BY <1>1, <1>5, <2>1 DEF LeaseRunStep, LeaseRun, OnRuns, RunEffect, RunIs, RunRecord
  <2> QED BY <2>2 DEF RunEffects
<1>6. CASE StartRunStep(c)
  <2>1. pc[c] \in {"leaseRun", "startRun"} /\ run(c) \in Run /\ RunIs(run(c), {"LEASED"})
    BY <1>1, <1>2, <1>6 DEF StartRunStep, At, Jobless, Stand
  <2> DEFINE new == [runs[run(c)] EXCEPT !.state = "RUNNING", !.attempt = runs[run(c)].attempt + 1, !.lease = "live"]
  <2>2. runs' = [runs EXCEPT ![run(c)] = new] /\ requeuing' = requeuing
    BY <1>6, <2>1 DEF StartRunStep, StartRun
  <2>3. new.state = "RUNNING" /\ new.task = runs[run(c)].task
    BY <1>1, <2>1 DEF RunRecord
  <2>4. Goto(c, "execute")
    BY <1>6 DEF StartRunStep, OnRuns
  <2> HIDE DEF new
  <2>5. RunEffect(c, pc[c], "LEASED", "RUNNING", "execute")
    BY <1>1, <2>1, <2>2, <2>3, <2>4 DEF RunEffect, RunIs
  <2> QED BY <2>1, <2>5 DEF RunEffects
<1>7. CASE CompleteRunStep(c)
  <2>1. pc[c] = "completeRun" /\ RunIs(run(c), {"RUNNING"}) /\ run(c) \in Run
    BY <1>1, <1>2, <1>7 DEF CompleteRunStep, At, Stand, Jobless
  <2>2. RunEffect(c, "completeRun", "RUNNING", "SUCCEEDED", "claim")
    BY <1>3, <1>7, <2>1, StatesAsked DEF CompleteRunStep, CompleteRun, CanGo, RunNext, RunIs
  <2> QED BY <2>2 DEF RunEffects
<1>8. CASE Diagnose(c)
  <2>1. pc[c] = "investigate" /\ RunIs(run(c), {"RUNNING"}) /\ run(c) \in Run
    BY <1>1, <1>2, <1>8 DEF Diagnose, At, Stand, Jobless
  <2>2. RunEffect(c, "investigate", "RUNNING", "DIAGNOSING", "rootCause")
    BY <1>3, <1>8, <2>1, StatesAsked DEF Diagnose, BeginDiagnosis, CanGo, RunNext, RunIs
  <2> QED BY <2>2 DEF RunEffects
<1>9. CASE RootCause(c)
  <2>1. pc[c] = "rootCause" /\ RunIs(run(c), {"DIAGNOSING"}) /\ run(c) \in Run
    BY <1>1, <1>2, <1>9 DEF RootCause, At, Stand, Jobless
  <2>2. RunEffect(c, "rootCause", "DIAGNOSING", "ROOT_CAUSE_FOUND", "failJob")
    BY <1>3, <1>9, <2>1, StatesAsked DEF RootCause, RecordRootCause, CanGo, RunNext, RunIs
  <2> QED BY <2>2 DEF RunEffects
<1>10. CASE DeadLetterStep(c)
  <2>1. pc[c] = "verdict" /\ RunIs(run(c), {"ROOT_CAUSE_FOUND"}) /\ run(c) \in Run /\ JobIs(job[c], {"DEAD_LETTER"})
    BY <1>1, <1>2, <1>10 DEF DeadLetterStep, At, Stand, Jobless
  <2>2. RunEffect(c, "verdict", "ROOT_CAUSE_FOUND", "DEAD_LETTER", "claim")
    BY <1>3, <1>10, <2>1, StatesAsked DEF DeadLetterStep, DeadLetterRun, CanGo, RunNext, RunIs
  <2> QED BY <2>1, <2>2 DEF RunEffects
<1>11. CASE FailRunStep(c)
  <2>1. /\ pc[c] = "verdict" /\ RunIs(run(c), {"ROOT_CAUSE_FOUND"}) /\ run(c) \in Run
        /\ ~JobIs(job[c], {"DEAD_LETTER"})
    BY <1>1, <1>2, <1>11 DEF FailRunStep, At, Stand, Jobless
  <2>2. RunEffect(c, "verdict", "ROOT_CAUSE_FOUND", "FAILED", "recover")
    BY <1>3, <1>11, <2>1, StatesAsked DEF FailRunStep, FailRun, CanGo, RunNext, RunIs
  <2> QED BY <2>1, <2>2 DEF RunEffects
<1>12. CASE Recover(c)
  <2>1. pc[c] = "recover" /\ RunIs(run(c), {"FAILED"}) /\ run(c) \in Run
    BY <1>1, <1>2, <1>12 DEF Recover, At, Stand, Jobless
  <2>2. RunEffect(c, "recover", "FAILED", "RECOVERING", "verify")
    BY <1>3, <1>12, <2>1, StatesAsked DEF Recover, BeginRecovery, CanGo, RunNext, RunIs
  <2> QED BY <2>2 DEF RunEffects
<1>13. CASE Verify(c)
  <2>1. pc[c] = "verify" /\ RunIs(run(c), {"RECOVERING"}) /\ run(c) \in Run
    BY <1>1, <1>2, <1>13 DEF Verify, At, Stand, Jobless
  <2>2. RunEffect(c, "verify", "RECOVERING", "VERIFYING", "defer")
    BY <1>3, <1>13, <2>1, StatesAsked DEF Verify, BeginVerification, RunIs
  <2> QED BY <2>2 DEF RunEffects
<1>14. CASE Retry(c)
  <2>1. pc[c] = "recover" /\ RunIs(run(c), {"FAILED"}) /\ run(c) \in Run
    BY <1>1, <1>2, <1>14 DEF Retry, At, Stand, Jobless
  <2>2. \E t \in {"QUEUED", "DEAD_LETTER"} : RunEffect(c, "recover", "FAILED", t, "claim")
    BY <1>3, <1>14, <2>1, StatesAsked DEF Retry, ScheduleRetry, RetryThrows, DeadLetterRun, QueueRun, CanGo, RunNext, RunIs
  <2> QED BY <2>2 DEF RunEffects
<1> QED BY <1>4, <1>5, <1>6, <1>7, <1>8, <1>9, <1>10, <1>11, <1>12, <1>13, <1>14 DEF RunStepOf

LEMMA JobStepEffects ==
    ASSUME LeaseInv, NEW c \in Cycle, Step(c), JobStepOf(c)
    PROVE  JobEffects(c)
<1>1. /\ Stand(c) /\ IJobs /\ settling = {} /\ UNCHANGED runVars
      /\ pc[c] \notin Jobless => job[c] \in Job
      /\ Owner[c] \in Worker
  <2>1. UNCHANGED runVars
    BY DEF JobStepOf, BindTreated, StartJob, NotExecutable, Succeed, Break, FailJobStep, DeferStep, Outer, OnJobs
  <2> QED BY <2>1, StepOthers DEF LeaseInv, IBudget, Named
<1> DEFINE j == job[c]
<1>2. \A t, m : /\ j \in Job /\ OnJobs(c, m)
                /\ \/ t = "RUNNING" /\ Start(j, Owner[c])
                   \/ t = "SUCCEEDED" /\ Complete(j, Owner[c])
                   \/ t = "FAILED" /\ Fail(j, Owner[c])
                   \/ t = "QUEUED" /\ Defer(j)
                   \/ t = "CANCELLED" /\ Cancel(j)
                => JobEffect(c, pc[c], jobs[j].state, t, m)
  BY <1>1, JobWrites DEF OnJobs, JobEffect, Start, Complete, Fail, Defer, Cancel
<1>3. CASE BindTreated(c)
  <2>1. pc[c] = "bind" /\ jobs[j].state = "LEASED" /\ j \in Job
    BY <1>1, <1>3 DEF BindTreated, At, Stand, Has, JobIs, Jobless
  <2> QED BY <1>2, <1>3, <2>1 DEF BindTreated, JobEffects
<1>4. CASE StartJob(c)
  <2>1. pc[c] \in {"bind", "start"} /\ jobs[j].state = "LEASED" /\ j \in Job
    BY <1>1, <1>4 DEF StartJob, At, Stand, Has, JobIs, Jobless
  <2>2. JobEffect(c, pc[c], "LEASED", "RUNNING", "leaseRun")
    BY <1>2, <1>4, <2>1 DEF StartJob
  <2> QED BY <2>1, <2>2 DEF JobEffects
<1>5. CASE NotExecutable(c)
  <2>1. pc[c] = "leaseRun" /\ jobs[j].state = "RUNNING" /\ j \in Job /\ ~RunIs(run(c), {"QUEUED", "LEASED"})
    BY <1>1, <1>5 DEF NotExecutable, At, Stand, Has, JobIs, Jobless, OnHand
  <2> QED BY <1>2, <1>5, <2>1 DEF NotExecutable, JobEffects
<1>6. CASE Succeed(c)
  <2>1. pc[c] = "execute" /\ jobs[j].state = "RUNNING" /\ j \in Job /\ CanComplete(j, Owner[c])
    BY <1>1, <1>6 DEF Succeed, At, Stand, Has, JobIs, Jobless, OnHand, CanComplete, Holds
  <2> QED BY <1>2, <1>6, <2>1 DEF Succeed, JobEffects
<1>7. CASE Break(c)
  <2>1. pc[c] = "execute" /\ jobs[j].state = "RUNNING" /\ j \in Job
    BY <1>1, <1>7 DEF Break, At, Stand, Has, JobIs, Jobless, OnHand
  <2>2. JobEffect(c, "execute", "RUNNING", "RUNNING", "investigate")
    BY <1>1, <1>7, <2>1 DEF Break, OnJobs, JobEffect, jobVars
  <2> QED BY <2>2 DEF JobEffects
<1>8. CASE FailJobStep(c)
  <2>1. pc[c] = "failJob" /\ jobs[j].state = "RUNNING" /\ j \in Job /\ CanFail(j, Owner[c]) /\ ~FailThrows(j, Owner[c])
    BY <1>1, <1>8 DEF FailJobStep, At, Stand, Has, JobIs, Jobless, OnHand, CanFail, FailThrows, Holds, Held
  <2>2. Fail(j, Owner[c]) /\ OnJobs(c, "verdict")
    BY <1>8, <2>1 DEF FailJobStep
  <2> QED BY <1>2, <2>1, <2>2 DEF JobEffects
<1>9. CASE DeferStep(c)
  <2>1. pc[c] = "defer" /\ j \in Job
    BY <1>1, <1>9 DEF DeferStep, At, Jobless
  <2>2. CASE CanDefer(j)
    <3>1. JobEffect(c, "defer", jobs[j].state, "QUEUED", "claim")
      BY <1>2, <1>9, <2>1, <2>2 DEF DeferStep
    <3> QED BY <3>1 DEF JobEffects
  <2>3. CASE ~CanDefer(j)
    BY <1>1, <1>9, <2>1, <2>3 DEF DeferStep, OnJobs, JobEffects
  <2> QED BY <2>2, <2>3
<1>10. ~Outer(c)
  BY <1>1 DEF Outer, At, Stand
<1> QED BY <1>3, <1>4, <1>5, <1>6, <1>7, <1>8, <1>9, <1>10 DEF JobStepOf

----------------------------------------------------------------------------
(* What the steps of all the others write, in the same way.                *)

SameJobs == \A j \in Job : jobs'[j].state = jobs[j].state /\ jobs'[j].run = jobs[j].run
SameRuns == \A r \in Run : runs'[r].state = runs[r].state /\ runs'[r].task = runs[r].task
OnlyJob(j) == \A i \in Job : i # j => jobs'[i] = jobs[i]
OnlyRun(r) == \A q \in Run : q # r => runs'[q] = runs[q]

\* Only leases and backoffs, or a dispatch that finds what it wants.
QuietEffect ==
    /\ SameJobs /\ SameRuns /\ UNCHANGED <<settling, requeuing>>
    /\ UNCHANGED dispatch \/ dispatch'.at # "queue"

SettleEffect(j) ==
    /\ JobIs(j, {"FAILED"}) /\ JobIs(j, {"QUEUED", "DEAD_LETTER"})' /\ jobs'[j].run = jobs[j].run
    /\ OnlyJob(j) /\ settling' = settling \ {j} /\ UNCHANGED <<runVars, dispatch>>

RequeueEffect(r) ==
    /\ RunIs(r, {"FAILED"}) /\ RunIs(r, {"QUEUED"})' /\ runs'[r].task = runs[r].task
    /\ OnlyRun(r) /\ requeuing' = requeuing \ {r} /\ UNCHANGED <<jobVars, dispatch>>

CreateEffect(r) ==
    /\ ThreadFree /\ RunIs(r, {"ABSENT"}) /\ RunIs(r, {"CREATED"})'
    /\ \A q \in Run : Active(q) => runs[q].task # runs'[r].task
    /\ OnlyRun(r) /\ UNCHANGED <<jobVars, requeuing>> /\ dispatch'.at = "enqueue"

EnqueueEffect(j) ==
    /\ dispatch'.run = dispatch.run /\ dispatch.run \in Run /\ UNCHANGED <<runVars, settling>>
    /\ \/ Unfinished(j) /\ jobs[j].run = dispatch.run /\ UNCHANGED jobs
       \/ /\ JobIs(j, {"ABSENT"}) /\ JobIs(j, {"QUEUED"})' /\ jobs'[j].run = dispatch.run
          /\ OnlyJob(j)

QueueEffect(r) ==
    /\ dispatch.at = "queue" /\ dispatch.run = r
    /\ RunIs(r, {"CREATED", "LEASED"}) /\ RunIs(r, {"QUEUED"})' /\ runs'[r].task = runs[r].task
    /\ OnlyRun(r) /\ UNCHANGED <<jobVars, requeuing>> /\ dispatch'.at = "idle"

OtherEffects ==
    \/ QuietEffect
    \/ \E j \in settling : SettleEffect(j)
    \/ \E r \in requeuing : RequeueEffect(r)
    \/ \E r \in Run : CreateEffect(r)
    \/ \E j \in Job : EnqueueEffect(j)
    \/ \E r \in Run : QueueEffect(r)

LEMMA OthersWrite ==
    ASSUME ~Manual, LeaseInv, Next \/ UNCHANGED vars, \A c \in Cycle : ~Step(c), ~Crash
    PROVE  OtherEffects /\ UNCHANGED <<cycleVars, crashes>>
<1>1. /\ jobs \in [Job -> JobRecord] /\ runs \in [Run -> RunRecord]
      /\ settling \subseteq Job /\ requeuing \subseteq Run
      /\ \A j \in settling : JobIs(j, {"FAILED"})
      /\ \A r \in requeuing : RunIs(r, {"FAILED"})
      /\ dispatch \in [at : {"idle", "enqueue", "queue"}, run : Run \cup {Nobody}]
  BY Typed DEF LeaseInv, IJobs, JobsSound, IBudget, Budget, Named, Requeued, JobTypeOK
<1>2. ASSUME NEW c \in Cycle, Beat(c) PROVE QuietEffect /\ UNCHANGED <<cycleVars, crashes>>
  BY <1>1, <1>2 DEF Beat, Heartbeat, HeartbeatRun, QuietEffect, SameJobs, SameRuns, JobRecord, RunRecord,
     jobVars, runVars
<1>3. CASE SettleStep
  <2>1. ASSUME NEW j \in Job, Settle(j), UNCHANGED <<runVars, cycleVars, dispatch, crashes>>
        PROVE  j \in settling /\ SettleEffect(j)
    <3>1. ASSUME NEW s, NEW l, NEW b, NEW w, JobTo(j, s, l, b, w)
          PROVE  jobs'[j].state = s /\ jobs'[j].run = jobs[j].run /\ OnlyJob(j)
      <4> DEFINE new == [jobs[j] EXCEPT !.state = s, !.lease = l, !.waiting = b, !.owner = w]
      <4>1. jobs' = [jobs EXCEPT ![j] = new]
        BY <3>1 DEF JobTo
      <4>2. new.state = s /\ new.run = jobs[j].run
        BY <1>1 DEF JobRecord
      <4> HIDE DEF new
      <4> QED BY <1>1, <4>1, <4>2 DEF OnlyJob
    <3> QED BY <1>1, <2>1, <3>1 DEF Settle, SettleEffect, JobIs
  <2>2. ASSUME NEW r \in Run, Requeue(r), UNCHANGED <<jobVars, cycleVars, dispatch, crashes>>
        PROVE  r \in requeuing /\ RequeueEffect(r)
    BY <1>1, <2>2 DEF Requeue, RequeueEffect, OnlyRun, RunIs, RunRecord
  <2> QED BY <1>3, <2>1, <2>2 DEF SettleStep, OtherEffects
<1>4. ASSUME NEW t \in Task, Dispatch(t) PROVE OtherEffects /\ UNCHANGED <<cycleVars, crashes>>
  <2>1. PICK r \in Run : CreateRun(t, r) /\ dispatch' = [at |-> "enqueue", run |-> r]
    BY <1>4 DEF Dispatch
  <2>2. CASE UNCHANGED runs
    BY <1>4, <2>1, <2>2 DEF Dispatch, CreateRun, OtherEffects, QuietEffect, SameJobs, SameRuns, jobVars
  <2>3. CASE RunIs(r, {"ABSENT"}) /\ runs' = [runs EXCEPT ![r] = [@ EXCEPT !.state = "CREATED", !.task = t]]
               /\ \A q \in Run : Active(q) => runs[q].task # t
    <3>1. runs'[r].state = "CREATED" /\ runs'[r].task = t /\ OnlyRun(r)
      BY <1>1, <2>3 DEF OnlyRun, RunRecord
    <3>2. CreateEffect(r)
      BY <1>4, <2>1, <2>3, <3>1 DEF Dispatch, CreateRun, CreateEffect, RunIs
    <3> QED BY <1>4, <3>2 DEF Dispatch, OtherEffects
  <2> QED BY <2>1, <2>2, <2>3 DEF CreateRun
<1>5. CASE DispatchEnqueue
  <2>1. dispatch.run \in Run /\ dispatch' = [dispatch EXCEPT !.at = "queue"] /\ Enqueue(dispatch.run)
          /\ UNCHANGED <<runVars, cycleVars, crashes>>
    BY <1>5 DEF DispatchEnqueue, LeaseInv, IBudget, Named
  <2>2. dispatch'.run = dispatch.run
    BY <1>1, <2>1
  <2>3. \E j \in Job : EnqueueEffect(j)
    <3>1. CASE UNCHANGED jobs /\ \E j \in Job : Unfinished(j) /\ jobs[j].run = dispatch.run
      BY <2>1, <2>2, <3>1 DEF Enqueue, EnqueueEffect
    <3>2. ASSUME NEW j \in Job, JobIs(j, {"ABSENT"}),
                 jobs' = [jobs EXCEPT ![j] = [@ EXCEPT !.state = "QUEUED", !.run = dispatch.run]]
          PROVE  EnqueueEffect(j)
      <4>1. jobs'[j].state = "QUEUED" /\ jobs'[j].run = dispatch.run /\ OnlyJob(j)
        BY <1>1, <3>2 DEF OnlyJob, JobRecord
      <4> QED BY <2>1, <2>2, <3>2, <4>1 DEF Enqueue, EnqueueEffect, JobIs
    <3> QED BY <2>1, <3>1, <3>2 DEF Enqueue
  <2> QED BY <2>1, <2>3 DEF OtherEffects
<1>6. CASE DispatchQueue
  <2> DEFINE r == dispatch.run
  <2>1. dispatch'.at = "idle" /\ UNCHANGED <<jobVars, cycleVars, crashes>>
    BY <1>6 DEF DispatchQueue
  <2>2. CASE UNCHANGED runVars
    BY <2>1, <2>2 DEF OtherEffects, QuietEffect, SameJobs, SameRuns, jobVars, runVars
  <2>3. ASSUME NEW q \in Run, q = r, Go(q, "QUEUED") PROVE OtherEffects
    <3>1. RunIs(q, {"CREATED", "LEASED"})
      BY <1>6, <2>3 DEF Go, CanGo, RunNext, DispatchQueue, LeaseInv, IBudget, DispatchedActive, Active, RunIs, RunInactive
    <3>2. QueueEffect(q)
      BY <1>1, <1>6, <2>1, <2>3, <3>1, GoWrites, StatesAsked DEF DispatchQueue, QueueEffect, OnlyRun, RunIs,
         LeaseInv, IBudget
    <3> QED BY <3>2 DEF OtherEffects
  <2>4. CASE Go(r, "QUEUED") /\ r \notin Run
    BY <1>1, <2>1, <2>4 DEF Go, OtherEffects, QuietEffect, SameJobs, SameRuns, jobVars
  <2> QED BY <1>6, <2>1, <2>2, <2>3, <2>4 DEF DispatchQueue, QueueRun
<1>7. CASE Clock
  BY <1>1, <1>7 DEF Clock, JobLapses, JobDue, RunLapses, LeaseLapses, BackoffElapses, RunLeaseLapses, OtherEffects,
     QuietEffect, SameJobs, SameRuns, JobRecord, RunRecord, jobVars, runVars
<1>8. CASE UNCHANGED vars
  BY <1>8 DEF vars, jobVars, runVars, cycleVars, OtherEffects, QuietEffect, SameJobs, SameRuns
<1>9. ~Operate
  BY DEF Operate
<1> QED BY <1>2, <1>3, <1>4, <1>5, <1>6, <1>7, <1>8, <1>9 DEF Next, OtherEffects

----------------------------------------------------------------------------
(* Success is told to both stores.                                         *)

\* Unless the process was killed, the run of a succeeded job has succeeded, or
\* the job's cycle is about to say so.
SuccInv ==
    crashes = 0 => \A j \in Job : JobIs(j, {"SUCCEEDED"}) =>
        RunIs(jobs[j].run, {"SUCCEEDED"}) \/ \E c \in Cycle : pc[c] = "completeRun" /\ job[c] = j

LEMMA StepKinds ==
    ASSUME NEW c \in Cycle, Step(c)
    PROVE  BeginCycle(c) \/ StaleRuns(c) \/ Claim(c) \/ Leave(c) \/ RunStepOf(c) \/ JobStepOf(c)
BY DEF Step, RunStepOf, JobStepOf

\* A run that succeeded stays so.
LEMMA SucceededStays ==
    ASSUME ~Manual, LeaseInv, Next \/ UNCHANGED vars, NEW r \in Run, RunIs(r, {"SUCCEEDED"})
    PROVE  RunIs(r, {"SUCCEEDED"})'
<1>1. CASE Crash
  BY <1>1 DEF Crash, ForgetRuns, RunIs
<1>2. CASE ~Crash /\ \A c \in Cycle : ~Step(c)
  <2>1. OtherEffects
    BY <1>2, OthersWrite
  <2> QED BY <2>1 DEF OtherEffects, QuietEffect, SameRuns, SettleEffect, RequeueEffect, CreateEffect, EnqueueEffect,
             QueueEffect, OnlyRun, runVars, RunIs
<1>3. ASSUME NEW c \in Cycle, Step(c) PROVE RunIs(r, {"SUCCEEDED"})'
  <2>1. CASE StaleRuns(c)
    BY <2>1 DEF StaleRuns, ExpireStaleRuns, RunIs, RunLeased
  <2>2. CASE BeginCycle(c) \/ Claim(c) \/ Leave(c)
    BY <2>2 DEF BeginCycle, Claim, Leave, OnJobs, runVars, RunIs
  <2>3. CASE RunStepOf(c)
    BY <1>3, <2>3, RunStepEffects DEF RunEffects, RunEffect, RunIs
  <2>4. CASE JobStepOf(c)
    BY <1>3, <2>4, JobStepEffects DEF JobEffects, JobEffect, runVars, RunIs
  <2> QED BY <1>3, <2>1, <2>2, <2>3, <2>4, StepKinds
<1> QED BY <1>1, <1>2, <1>3

\* Only a cycle's accepted execution makes a job succeed.
LEMMA SuccessIsTold ==
    ASSUME ~Manual, LeaseInv, Next \/ UNCHANGED vars, NEW j \in Job,
           JobIs(j, {"SUCCEEDED"})', ~JobIs(j, {"SUCCEEDED"})
    PROVE  \E c \in Cycle : pc'[c] = "completeRun" /\ job'[c] = j
<1>1. ~Crash
  BY DEF Crash, Forget, JobIs
<1>2. CASE \A c \in Cycle : ~Step(c)
  <2>1. OtherEffects
    BY <1>1, <1>2, OthersWrite
  <2> QED BY <2>1 DEF OtherEffects, QuietEffect, SameJobs, SettleEffect, RequeueEffect, CreateEffect, EnqueueEffect,
             QueueEffect, OnlyJob, jobVars, JobIs
<1>3. ASSUME NEW c \in Cycle, Step(c) PROVE \E d \in Cycle : pc'[d] = "completeRun" /\ job'[d] = j
  <2>1. jobs \in [Job -> JobRecord]
    BY Typed DEF LeaseInv, IJobs
  <2>2. CASE BeginCycle(c)
    BY <2>1, <2>2 DEF BeginCycle, ExpireLeases, JobIs, JobRecord
  <2>3. CASE StaleRuns(c) \/ Leave(c) \/ RunStepOf(c)
    <3>1. UNCHANGED jobs
      BY <1>3, <2>3, RunStepEffects DEF StaleRuns, Leave, OnRuns, RunEffects, RunEffect, jobVars
    <3> QED BY <3>1 DEF JobIs
  <2>4. CASE Claim(c)
    <3>1. PICK i \in Job : Lease(i, Owner[c])
      BY <2>4 DEF Claim
    <3>2. i # j => jobs'[j] = jobs[j]
      BY <2>1, <3>1 DEF Lease
    <3>3. jobs'[i].state = "LEASED"
      <4> DEFINE new == [jobs[i] EXCEPT !.state = "LEASED", !.owner = Owner[c], !.lease = "live",
                                        !.attempt = jobs[i].attempt + 1]
      <4>1. jobs' = [jobs EXCEPT ![i] = new]
        BY <3>1 DEF Lease
      <4>2. new.state = "LEASED"
        BY <2>1 DEF JobRecord
      <4> HIDE DEF new
      <4> QED BY <2>1, <4>1, <4>2
    <3> QED BY <3>2, <3>3 DEF JobIs
  <2>5. CASE JobStepOf(c)
    <3>1. JobEffects(c)
      BY <1>3, <2>5, JobStepEffects
    <3>2. job[c] = j /\ pc[c] = "execute" /\ Goto(c, "completeRun")
      BY <3>1 DEF JobEffects, JobEffect, JobIs, jobVars
    <3> QED BY <3>2 DEF Goto, LeaseInv, IBudget, Named
  <2> QED BY <1>3, <2>2, <2>3, <2>4, <2>5, StepKinds
<1> QED BY <1>2, <1>3

LEMMA SuccNext ==
    ASSUME ~Manual, LeaseInv, SuccInv, crashes \in Nat, Next \/ UNCHANGED vars
    PROVE  SuccInv'
<1> SUFFICES ASSUME crashes' = 0, NEW j \in Job, JobIs(j, {"SUCCEEDED"})'
             PROVE  RunIs(jobs[j].run, {"SUCCEEDED"})' \/ \E c \in Cycle : pc'[c] = "completeRun" /\ job'[c] = j
  BY DEF SuccInv
<1>1. ~Crash
  BY DEF Crash
<1>2. crashes = 0
  <2>1. ASSUME NEW c \in Cycle, Step(c) PROVE crashes' = crashes
    BY <2>1 DEF Step, BeginCycle, StaleRuns, Claim, Leave, BindCreated, BindTreated, StartJob,
       LeaseRunStep, NotExecutable, StartRunStep, Succeed, CompleteRunStep, Break, Diagnose,
       RootCause, FailJobStep, DeadLetterStep, FailRunStep, Recover, Verify, DeferStep, Retry,
       Outer, OnJobs, OnRuns
  <2> QED BY <1>1, <2>1, OthersWrite
<1>3. CASE ~JobIs(j, {"SUCCEEDED"})
  BY <1>3, SuccessIsTold
<1>4. CASE JobIs(j, {"SUCCEEDED"})
  <2>1. jobs'[j] = jobs[j]
    <3>1. IJobs /\ QueueStep
      BY CycleUsesQueue, OthersUseQueue DEF LeaseInv, IBudget
    <3> QED BY <1>4, <3>1, EndStays DEF QueueStep, jobVars, JobIs, JobEnd
  <2>2. jobs[j].run \in Run
    BY <1>4 DEF LeaseInv, Placed, JobIs
  <2>3. CASE RunIs(jobs[j].run, {"SUCCEEDED"})
    BY <2>1, <2>2, <2>3, SucceededStays DEF RunIs
  <2>4. ASSUME NEW c \in Cycle, pc[c] = "completeRun", job[c] = j
        PROVE  RunIs(jobs[j].run, {"SUCCEEDED"})' \/ (pc'[c] = "completeRun" /\ job'[c] = j)
    <3>1. CASE \A d \in Cycle : ~Step(d)
      BY <1>1, <2>4, <3>1, OthersWrite DEF cycleVars
    <3>2. ASSUME NEW d \in Cycle, Step(d), d # c PROVE FALSE
      BY <2>4, <3>2, StepOthers DEF Jobless
    <3>3. CASE Step(c)
      <4>1. RunEffects(c)
        <5>1. ~BeginCycle(c) /\ ~StaleRuns(c) /\ ~Claim(c) /\ ~Leave(c)
          BY <2>4 DEF BeginCycle, StaleRuns, Claim, Leave, At
        <5>2. ~JobEffects(c)
          BY <2>4 DEF JobEffects, JobEffect
        <5> QED BY <3>3, <5>1, <5>2, StepKinds, RunStepEffects, JobStepEffects
      <4> QED BY <2>1, <2>4, <4>1 DEF RunEffects, RunEffect, RunIs, run
    <3> QED BY <3>1, <3>2, <3>3
  <2> QED BY <1>2, <1>4, <2>3, <2>4 DEF SuccInv
<1> QED BY <1>3, <1>4

LEMMA SuccShows == SuccInv => SuccessAgrees
BY DEF SuccInv, SuccessAgrees, ThreadFree, Awaiting

----------------------------------------------------------------------------
(* Late answers.  What a cycle with an id of its own holds, it holds for   *)
(* the attempt it claimed, whatever lapses, crashes or is done by hand.    *)

OwnersApart == \A c, d \in Cycle : Owner[c] = Owner[d] => c = d

LateInv ==
    \A c \in Cycle : pc[c] \notin Jobless /\ JobIs(job[c], Held) /\ jobs[job[c]].owner = Owner[c]
                        => jobs[job[c]].attempt = ticket[c]

\* The job has the attempt it had, and nobody new.
Kept(j) ==
    /\ jobs'[j].attempt = jobs[j].attempt /\ jobs'[j].owner \in {jobs[j].owner, Nobody}
    /\ JobIs(j, Held)' => JobIs(j, Held)

\* Every operation of the queue but the lease.
LEMMA OpsKeep ==
    ASSUME IJobs, NEW j,
           \/ UNCHANGED jobs \/ ExpireLeases \/ \E r : Enqueue(r)
           \/ Defer(j) \/ Cancel(j) \/ LeaseLapses(j) \/ BackoffElapses(j) \/ Settle(j)
           \/ \E w : Start(j, w) \/ Heartbeat(j, w) \/ Complete(j, w) \/ Fail(j, w)
    PROVE  \A i \in Job : Kept(i)
<1>1. jobs \in [Job -> JobRecord]
  BY Typed DEF IJobs
<1>2. ASSUME NEW s, NEW l, NEW b, NEW w, JobTo(j, s, l, b, w), s \in Held => JobIs(j, Held), w \in {jobs[j].owner, Nobody}
      PROVE  \A i \in Job : Kept(i)
  <2> DEFINE new == [jobs[j] EXCEPT !.state = s, !.lease = l, !.waiting = b, !.owner = w]
  <2>1. jobs' = [jobs EXCEPT ![j] = new]
    BY <1>2 DEF JobTo
  <2>2. j \in Job => new.state = s /\ new.owner = w /\ new.attempt = jobs[j].attempt
    BY <1>1 DEF JobRecord
  <2> HIDE DEF new
  <2> QED BY <1>1, <1>2, <2>1, <2>2 DEF Kept, JobIs
<1>3. CASE UNCHANGED jobs
  BY <1>3 DEF Kept, JobIs
<1>4. CASE ExpireLeases
  BY <1>1, <1>4 DEF ExpireLeases, Kept, JobIs, JobRecord, Held
<1>5. ASSUME NEW r, Enqueue(r) PROVE \A i \in Job : Kept(i)
  <2>1. ASSUME NEW k \in Job, jobs' = [jobs EXCEPT ![k] = [@ EXCEPT !.state = "QUEUED", !.run = r]]
        PROVE  \A i \in Job : Kept(i)
    <3> DEFINE new == [jobs[k] EXCEPT !.state = "QUEUED", !.run = r]
    <3>1. jobs' = [jobs EXCEPT ![k] = new]
      BY <2>1
    <3>2. new.state = "QUEUED" /\ new.owner = jobs[k].owner /\ new.attempt = jobs[k].attempt
      BY <1>1 DEF JobRecord
    <3> HIDE DEF new
    <3> QED BY <1>1, <3>1, <3>2 DEF Kept, JobIs, Held
  <2> QED BY <1>3, <1>5, <2>1 DEF Enqueue
<1>6. CASE Defer(j) \/ Cancel(j)
  BY <1>2, <1>6 DEF Defer, Cancel, Held
<1>7. CASE Settle(j)
  BY <1>2, <1>7 DEF Settle, Held
<1>8. CASE LeaseLapses(j) \/ BackoffElapses(j) \/ \E w : Heartbeat(j, w)
  BY <1>1, <1>8 DEF LeaseLapses, BackoffElapses, Heartbeat, Kept, JobIs, JobRecord
<1>9. ASSUME NEW w, Start(j, w) \/ Complete(j, w) \/ Fail(j, w) PROVE \A i \in Job : Kept(i)
  BY <1>2, <1>9 DEF Start, CanStart, Complete, Fail, JobIs, Held
<1> QED BY <1>3, <1>4, <1>5, <1>6, <1>7, <1>8, <1>9

\* What leasing a job writes.
LEMMA LeaseWrites ==
    ASSUME IJobs, NEW j \in Job, NEW w, Lease(j, w)
    PROVE  /\ jobs'[j].state = "LEASED" /\ jobs'[j].owner = w /\ jobs'[j].run = jobs[j].run
           /\ \A i \in Job : i # j => jobs'[i] = jobs[i]
<1> DEFINE a == jobs[j].attempt + 1
           new == [jobs[j] EXCEPT !.state = "LEASED", !.owner = w, !.lease = "live", !.attempt = a]
<1>1. jobs \in [Job -> JobRecord]
  BY Typed DEF IJobs
<1>2. jobs' = [jobs EXCEPT ![j] = new]
  BY DEF Lease
<1>3. new.state = "LEASED" /\ new.owner = w /\ new.run = jobs[j].run
  BY <1>1 DEF JobRecord
<1> HIDE DEF new
<1> QED BY <1>1, <1>2, <1>3

\* A step of a cycle that claims nothing.
LEMMA StepKeeps ==
    ASSUME Named, IJobs, NEW c \in Cycle, Step(c), ~Claim(c)
    PROVE  /\ \A i \in Job : Kept(i)
           /\ UNCHANGED <<job, ticket>>
           /\ \A d \in Cycle : pc'[d] \notin Jobless => pc[d] \notin Jobless
<1>1. PICK m : Goto(c, m) /\ (m \in Jobless \/ pc[c] \notin Jobless)
  BY DEF Step, BeginCycle, StaleRuns, Leave, BindCreated, BindTreated, StartJob,
         LeaseRunStep, NotExecutable, StartRunStep, Succeed, CompleteRunStep, Break, Diagnose,
         RootCause, FailJobStep, DeadLetterStep, FailRunStep, Recover, Verify, DeferStep, Retry,
         Outer, OnJobs, OnRuns, At, Jobless
<1>2. \/ UNCHANGED jobs \/ ExpireLeases
      \/ Defer(job[c]) \/ Cancel(job[c]) \/ \E w : Start(job[c], w) \/ Complete(job[c], w) \/ Fail(job[c], w)
  BY DEF Step, BeginCycle, StaleRuns, Leave, BindCreated, BindTreated, StartJob,
         LeaseRunStep, NotExecutable, StartRunStep, Succeed, CompleteRunStep, Break, Diagnose,
         RootCause, FailJobStep, DeadLetterStep, FailRunStep, Recover, Verify, DeferStep, Retry,
         Outer, OnRuns, jobVars
<1>3. \A d \in Cycle : pc'[d] = pc[d] \/ (d = c /\ pc'[d] = m)
  BY <1>1 DEF Goto, Named
<1> QED BY <1>1, <1>2, <1>3, OpsKeep DEF Goto

LEMMA LateNext ==
    ASSUME OwnersApart, Named, Turn, IJobs, Ticketed, LateInv, Next \/ UNCHANGED vars
    PROVE  LateInv'
<1> SUFFICES ASSUME NEW c \in Cycle, pc'[c] \notin Jobless, JobIs(job[c], Held)', jobs'[job'[c]].owner = Owner[c]
             PROVE  jobs'[job'[c]].attempt = ticket'[c]
  BY DEF LateInv
<1>1. Owner[c] \in Worker /\ Owner[c] # Nobody /\ Owner[c] # Operator
  BY DEF WorkerAssumption
<1>2. ASSUME \A i \in Job : Kept(i), UNCHANGED <<job, ticket>>, pc[c] \notin Jobless
      PROVE  jobs'[job'[c]].attempt = ticket'[c]
  BY <1>1, <1>2 DEF Named, Kept, LateInv
<1>3. ASSUME NEW d \in Cycle, Claim(d) PROVE jobs'[job'[c]].attempt = ticket'[c]
  <2>1. PICK j \in Job : /\ Lease(j, Owner[d]) /\ job' = [job EXCEPT ![d] = j]
                         /\ ticket' = [ticket EXCEPT ![d] = jobs'[j].attempt]
                         /\ pc' = [pc EXCEPT ![d] = "bind"]
    BY <1>3 DEF Claim
  <2>2. CASE c = d
    BY <2>1, <2>2 DEF Named, Ticketed
  <2>3. CASE c # d
    <3>1. pc[c] \notin Jobless /\ job'[c] = job[c] /\ ticket'[c] = ticket[c] /\ job[c] \in Job
      BY <2>1, <2>3 DEF Named, Ticketed
    <3>2. job[c] # j
      BY <2>1, <2>3, <3>1, LeaseWrites DEF OwnersApart
    <3>3. jobs'[job[c]] = jobs[job[c]]
      BY <2>1, <3>1, <3>2, LeaseWrites
    <3> QED BY <3>1, <3>3 DEF LateInv, JobIs
  <2> QED BY <2>2, <2>3
<1>4. ASSUME NEW d \in Cycle, Step(d), ~Claim(d) PROVE jobs'[job'[c]].attempt = ticket'[c]
  BY <1>2, <1>4, StepKeeps
<1>5. ASSUME UNCHANGED cycleVars, NEW j,
             \/ UNCHANGED jobs \/ ExpireLeases \/ \E r : Enqueue(r)
             \/ Defer(j) \/ Cancel(j) \/ LeaseLapses(j) \/ BackoffElapses(j) \/ Settle(j)
             \/ \E w : Start(j, w) \/ Heartbeat(j, w) \/ Complete(j, w) \/ Fail(j, w)
      PROVE  jobs'[job'[c]].attempt = ticket'[c]
  BY <1>2, <1>5, OpsKeep DEF cycleVars
<1>6. CASE (\E d \in Cycle : Beat(d)) \/ SettleStep \/ (\E t \in Task : Dispatch(t)) \/ DispatchEnqueue
             \/ DispatchQueue
  BY <1>5, <1>6 DEF Beat, SettleStep, Dispatch, DispatchEnqueue, DispatchQueue, jobVars
<1>7. CASE Clock \/ UNCHANGED vars
  BY <1>5, <1>7 DEF Clock, JobLapses, JobDue, RunLapses, vars, jobVars
<1>8. CASE Operate
  <2>1. ASSUME NEW j \in Job, Lease(j, Operator), UNCHANGED cycleVars PROVE jobs'[job'[c]].attempt = ticket'[c]
    <3>1. job'[c] = job[c] /\ pc[c] \notin Jobless /\ ticket'[c] = ticket[c] /\ job[c] \in Job
      BY <2>1 DEF cycleVars, Named
    <3>2. job[c] # j
      BY <1>1, <2>1, <3>1, LeaseWrites
    <3>3. jobs'[job[c]] = jobs[job[c]]
      BY <2>1, <3>1, <3>2, LeaseWrites
    <3> QED BY <3>1, <3>3 DEF LateInv, JobIs
  <2> QED BY <1>5, <1>8, <2>1 DEF Operate, QueueRoute, jobVars
<1>9. CASE Crash
  BY <1>9 DEF Crash, Jobless
<1> QED BY <1>3, <1>4, <1>6, <1>7, <1>8, <1>9 DEF Next

\* An answer for an attempt that is over leaves the job as it is.
LEMMA LateSettlesNothing ==
    ASSUME Named, IJobs, LateInv, Next \/ UNCHANGED vars, NEW c \in Cycle,
           pc[c] \in {"execute", "failJob"}, pc'[c] # pc[c], jobs[job[c]].attempt # ticket[c]
    PROVE  jobs'[job[c]].state = jobs[job[c]].state
<1>1. CASE Crash
  BY <1>1 DEF Crash, Forget
<1>2. CASE Step(c)
  <2>1. ~(JobIs(job[c], Held) /\ Holds(job[c], Owner[c]))
    <3>1. Owner[c] # Nobody /\ job[c] \in Job
      BY DEF WorkerAssumption, Named, Jobless
    <3> QED BY <3>1 DEF LateInv, Jobless, Holds, IJobs, JobsSound, OwnedIffHeld
  <2>2. UNCHANGED jobs
    <3>1. CASE Succeed(c) \/ Break(c)
      BY <2>1, <3>1 DEF Succeed, Break, CanComplete, JobIs, Held, jobVars
    <3>2. CASE FailJobStep(c)
      BY <2>1, <3>2 DEF FailJobStep, Fail, CanFail, jobVars
    <3>3. Succeed(c) \/ Break(c) \/ FailJobStep(c)
      BY <1>2 DEF Step, BeginCycle, StaleRuns, Claim, Leave, BindCreated, BindTreated, StartJob,
         LeaseRunStep, NotExecutable, StartRunStep, CompleteRunStep, Diagnose,
         RootCause, DeadLetterStep, FailRunStep, Recover, Verify, DeferStep, Retry, Outer, At
    <3> QED BY <3>1, <3>2, <3>3
  <2> QED BY <2>2
<1>3. ASSUME NEW d \in Cycle, Step(d), d # c PROVE FALSE
  BY <1>3, StepTurn DEF Named
<1>4. UNCHANGED pc \/ Crash \/ \E d \in Cycle : Step(d)
  BY DEF Next, Beat, SettleStep, Dispatch, DispatchEnqueue, DispatchQueue, Clock, JobLapses, JobDue, RunLapses,
     Operate, cycleVars, vars
<1> QED BY <1>1, <1>2, <1>3, <1>4

LEMMA LateInit == Init => LateInv /\ Ticketed
BY DEF Init, LateInv, Ticketed, Jobless

----------------------------------------------------------------------------
(* The local runtime, never killed: only an execution lets others in.  Then *)
(* whatever is under way has a cycle at it, and a task has one run.         *)

Standing == {"QUEUED", "LEASED", "RUNNING", "FAILED"} \cup Treatment

\* A job that is not over stands for the run.
Covered(r) == \E j \in Job : OfItsRun(j) /\ jobs[j].run = r

\* A cycle whose job is over is about to tell the run.
AtEnd(c) == pc[c] = "completeRun" \/ (pc[c] = "verdict" /\ JobIs(job[c], {"DEAD_LETTER"}))
Closing(r) == \E c \in Cycle : AtEnd(c) /\ run(c) = r

Live(r) == Active(r) \/ RunIs(r, {"FAILED"})

HeldWorked == \A j \in Job : JobIs(j, Held) => \E c \in Cycle : pc[c] \in Working /\ job[c] = j
RunningExecuted ==
    \A r \in Run : RunIs(r, {"RUNNING"}) =>
        \E c \in Cycle : pc[c] \in {"execute", "completeRun", "investigate"} /\ run(c) = r
FailedTreated ==
    \A r \in Run : RunIs(r, {"FAILED"}) => r \in requeuing \/ \E c \in Cycle : pc[c] = "recover" /\ run(c) = r
SettledAtVerdict == \A j \in settling : \E c \in Cycle : pc[c] = "verdict" /\ job[c] = j
StandingCovered == \A r \in Run : RunIs(r, Standing) => Covered(r) \/ Closing(r)
DispatchCovered == dispatch.at = "queue" => Covered(dispatch.run)
LiveAlone == \A q, r \in Run : Live(q) /\ Live(r) /\ runs[q].task = runs[r].task => q = r

LocalInv ==
    /\ HeldWorked /\ RunningExecuted /\ FailedTreated /\ SettledAtVerdict /\ StandingCovered /\ DispatchCovered
    /\ LiveAlone

\* While one cycle moves, the others execute or are between two calls.
LEMMA LocalTurn ==
    ASSUME ~Docker, LeaseInv, NEW c \in Cycle, Step(c)
    PROVE  /\ settling = {} /\ requeuing = {} /\ dispatch.at = "idle" /\ UNCHANGED dispatch
           /\ \A d \in Cycle : d # c => /\ pc[d] \in {"idle", "execute"} /\ pc'[d] = pc[d] /\ job'[d] = job[d]
                                        /\ pc[d] = "execute" => run(d)' = run(d)
<1>1. /\ settling = {} /\ requeuing = {} /\ UNCHANGED dispatch
      /\ \A d \in Cycle : d # c => pc'[d] = pc[d] /\ job'[d] = job[d] /\ (pc[d] \notin Jobless => run(d)' = run(d))
  BY StepOthers, StepTurn
<1>2. dispatch.at = "idle" /\ \A d \in Cycle : d # c => pc[d] \in Awaiting
  BY StepTurn DEF LeaseInv, IBudget, Turn, ThreadFree
<1> QED BY <1>1, <1>2 DEF Awaiting, Jobless

\* A cycle's write to its run.
LEMMA LocalRunStep ==
    ASSUME ~Docker, LeaseInv, LocalInv, NEW c \in Cycle, Step(c), RunEffects(c)
    PROVE  LocalInv'
<1>1. PICK at, s, t, to :
        /\ RunEffect(c, at, s, t, to)
        /\ s \in Standing \cup {"CREATED"} /\ (s = "CREATED" => at = "bind")
        /\ t = "RUNNING" => to = "execute"
        /\ t = "FAILED" => to = "recover"
        /\ t \in Standing => at # "completeRun" /\ ~(at = "verdict" /\ JobIs(job[c], {"DEAD_LETTER"}))
        /\ at \in Working => to \in Working \/ at = "completeRun"
        /\ t # "ABSENT" /\ at \notin Jobless
  BY DEF RunEffects, Standing, Treatment, Working, OnHand, Jobless
<1>2. /\ pc[c] = at /\ pc'[c] = to /\ job' = job /\ UNCHANGED jobVars /\ run(c)' = run(c) /\ run(c) \in Run
      /\ runs[run(c)].state = s /\ runs'[run(c)].state = t /\ runs'[run(c)].task = runs[run(c)].task
      /\ \A q \in Run : q # run(c) => runs'[q] = runs[q]
      /\ requeuing' = requeuing
  BY <1>1, StepOthers DEF RunEffect, Goto, LeaseInv, IBudget, Named, Stand
<1>3. /\ settling = {} /\ requeuing = {} /\ dispatch.at = "idle" /\ UNCHANGED dispatch
      /\ \A d \in Cycle : d # c => /\ pc[d] \in {"idle", "execute"} /\ pc'[d] = pc[d]
                                   /\ pc[d] = "execute" => run(d)' = run(d)
  BY LocalTurn
<1>4. HeldWorked'
  <2> SUFFICES ASSUME NEW j \in Job, JobIs(j, Held)' PROVE \E d \in Cycle : pc'[d] \in Working /\ job'[d] = j
    BY DEF HeldWorked
  <2>1. PICK d \in Cycle : pc[d] \in Working /\ job[d] = j
    BY <1>2 DEF LocalInv, HeldWorked, JobIs, jobVars
  <2>2. d = c => at # "completeRun"
    BY <1>2, <2>1 DEF LeaseInv, Stand, JobIs, Held, jobVars
  <2> QED BY <1>1, <1>2, <1>3, <2>1, <2>2
<1>5. RunningExecuted'
  <2> SUFFICES ASSUME NEW r \in Run, runs'[r].state = "RUNNING"
               PROVE  \E d \in Cycle : pc'[d] \in {"execute", "completeRun", "investigate"} /\ run(d)' = r
    BY DEF RunningExecuted, RunIs
  <2>1. CASE r = run(c)
    BY <1>1, <1>2, <2>1
  <2>2. CASE r # run(c)
    <3>1. PICK d \in Cycle : pc[d] \in {"execute", "completeRun", "investigate"} /\ run(d) = r
      BY <1>2, <2>2 DEF LocalInv, RunningExecuted, RunIs
    <3> QED BY <1>3, <2>2, <3>1
  <2> QED BY <2>1, <2>2
<1>6. FailedTreated'
  <2> SUFFICES ASSUME NEW r \in Run, runs'[r].state = "FAILED" PROVE \E d \in Cycle : pc'[d] = "recover" /\ run(d)' = r
    BY DEF FailedTreated, RunIs
  <2>1. CASE r = run(c)
    BY <1>1, <1>2, <2>1
  <2>2. CASE r # run(c)
    <3>1. PICK d \in Cycle : pc[d] = "recover" /\ run(d) = r
      BY <1>2, <1>3, <2>2 DEF LocalInv, FailedTreated, RunIs
    <3> QED BY <1>3, <2>2, <3>1
  <2> QED BY <2>1, <2>2
<1>7. SettledAtVerdict' /\ DispatchCovered'
  BY <1>2, <1>3 DEF SettledAtVerdict, DispatchCovered, jobVars
<1>8. \A r : Covered(r) => Covered(r)'
  BY <1>2 DEF Covered, OfItsRun, Unfinished, JobIs, jobVars
<1>9. StandingCovered'
  <2> SUFFICES ASSUME NEW r \in Run, runs'[r].state \in Standing PROVE Covered(r)'
    BY DEF StandingCovered, RunIs
  <2>1. r # run(c) => Covered(r)
    <3> SUFFICES ASSUME r # run(c), Closing(r) PROVE FALSE
      BY <1>2 DEF LocalInv, StandingCovered, RunIs
    <3> QED BY <1>3 DEF Closing, AtEnd
  <2>2. r = run(c) /\ s \in Standing => Covered(r)
    <3> SUFFICES ASSUME r = run(c), s \in Standing, Closing(r) PROVE FALSE
      BY <1>2 DEF LocalInv, StandingCovered, RunIs
    <3>1. AtEnd(c)
      BY <1>3 DEF Closing, AtEnd
    <3> QED BY <1>1, <1>2, <3>1 DEF AtEnd
  <2>3. r = run(c) /\ s = "CREATED" => Covered(r)
    <3>1. pc[c] = "bind" => job[c] \in Job /\ JobIs(job[c], {"LEASED"})
      BY DEF LeaseInv, IBudget, Named, Stand, Has, Jobless
    <3> QED BY <1>1, <1>2, <3>1 DEF Covered, OfItsRun, Unfinished, JobIs, Held, run
  <2> QED BY <1>1, <1>8, <2>1, <2>2, <2>3
<1>10. LiveAlone'
  <2>1. \A q \in Run : (Live(q)' => Live(q)) /\ runs'[q].task = runs[q].task
    <3>1. ASSUME NEW q \in Run, q = run(c) PROVE Live(q)
      BY <1>1, <1>2, <3>1 DEF Live, Active, RunIs, RunInactive, Standing, Treatment
    <3> QED BY <1>2, <3>1 DEF Live, Active, RunIs
  <2> QED BY <2>1 DEF LocalInv, LiveAlone
<1> QED BY <1>4, <1>5, <1>6, <1>7, <1>9, <1>10 DEF LocalInv

\* A cycle's write to its job.
LEMMA LocalJobStep ==
    ASSUME ~Docker, LeaseInv, LocalInv, NEW c \in Cycle, Step(c), JobEffects(c)
    PROVE  LocalInv'
<1>1. /\ settling = {} /\ requeuing = {} /\ dispatch.at = "idle" /\ UNCHANGED dispatch
      /\ \A d \in Cycle : d # c => /\ pc[d] \in {"idle", "execute"} /\ pc'[d] = pc[d]
                                   /\ pc[d] = "execute" => run(d)' = run(d)
  BY LocalTurn
<1>2. pc[c] \notin Jobless /\ job[c] \in Job /\ run(c) \in Run /\ Stand(c) /\ job' = job /\ run(c)' = run(c)
        /\ UNCHANGED runVars
  <2>1. pc[c] \notin Jobless /\ UNCHANGED runVars /\ job' = job
    BY DEF JobEffects, JobEffect, Jobless, Goto
  <2> QED BY <2>1, StepOthers DEF LeaseInv, IBudget, Named, Stand
<1>3. PICK at, s, t, to :
        /\ pc[c] = at /\ pc'[c] = to /\ jobs[job[c]].state = s /\ jobs'[job[c]].state = t
        /\ jobs'[job[c]].run = run(c) /\ \A i \in Job : i # job[c] => jobs'[i] = jobs[i]
        /\ settling' = IF t = "FAILED" /\ at # "defer" THEN {job[c]} ELSE {}
        /\ t \in Held => s \in Held /\ (at \in Working => to \in Working)
        /\ t = "FAILED" /\ at # "defer" => to = "verdict"
        /\ at \in {"execute", "completeRun", "investigate"} => to \in {"execute", "completeRun", "investigate"}
        /\ at # "recover" /\ at # "completeRun" /\ at # "verdict"
        /\ \/ t \in {"QUEUED"} \cup Held \/ job[c] \in settling'
           \/ to = "completeRun"
           \/ at = "defer" /\ s = t
           \/ at = "leaseRun" /\ ~RunIs(run(c), {"QUEUED", "LEASED"})
  <2>1. pc'[c] \in {to \in Labels : Goto(c, to)}
    <3>1. PICK to \in Labels : Goto(c, to)
      BY DEF JobEffects, JobEffect, Labels
    <3> QED BY <3>1 DEF Goto, LeaseInv, IBudget, Named
  <2>2. \A to : Goto(c, to) => pc'[c] = to
    BY DEF Goto, LeaseInv, IBudget, Named
  <2>3. CASE pc[c] = "defer" /\ Goto(c, "claim") /\ UNCHANGED jobVars
    BY <1>1, <1>2, <2>2, <2>3 DEF jobVars, run, Held, Working, OnHand
  <2>4. CASE ~(pc[c] = "defer" /\ Goto(c, "claim") /\ UNCHANGED jobVars)
    BY <1>1, <1>2, <2>2, <2>4 DEF JobEffects, JobEffect, Held, Working, OnHand, run
  <2> QED BY <2>3, <2>4
<1>4. HeldWorked'
  <2> SUFFICES ASSUME NEW j \in Job, jobs'[j].state \in Held PROVE \E d \in Cycle : pc'[d] \in Working /\ job'[d] = j
    BY DEF HeldWorked, JobIs
  <2>1. JobIs(j, Held)
    BY <1>3 DEF JobIs
  <2>2. PICK d \in Cycle : pc[d] \in Working /\ job[d] = j
    BY <2>1 DEF LocalInv, HeldWorked
  <2>3. CASE d = c
    BY <1>2, <1>3, <2>2, <2>3
  <2>4. CASE d # c
    BY <1>1, <1>2, <2>2, <2>4
  <2> QED BY <2>3, <2>4
<1>5. RunningExecuted'
  <2> SUFFICES ASSUME NEW r \in Run, runs'[r].state = "RUNNING"
               PROVE  \E d \in Cycle : pc'[d] \in {"execute", "completeRun", "investigate"} /\ run(d)' = r
    BY DEF RunningExecuted, RunIs
  <2>1. PICK d \in Cycle : pc[d] \in {"execute", "completeRun", "investigate"} /\ run(d) = r
    BY <1>2 DEF LocalInv, RunningExecuted, RunIs, runVars
  <2> QED BY <1>1, <1>2, <1>3, <2>1
<1>6. FailedTreated'
  <2> SUFFICES ASSUME NEW r \in Run, runs'[r].state = "FAILED" PROVE FALSE
    BY DEF FailedTreated, RunIs
  <2>1. PICK d \in Cycle : pc[d] = "recover"
    BY <1>1, <1>2 DEF LocalInv, FailedTreated, RunIs, runVars
  <2> QED BY <1>1, <1>3, <2>1
<1>7. SettledAtVerdict'
  BY <1>2, <1>3 DEF SettledAtVerdict
<1>8. DispatchCovered'
  BY <1>1 DEF DispatchCovered
<1>9. ASSUME NEW r \in Run, Covered(r), r # run(c) \/ jobs'[job[c]].state \in {"QUEUED"} \cup Held \/ job[c] \in settling'
      PROVE  Covered(r)'
  <2>1. PICK j \in Job : OfItsRun(j) /\ jobs[j].run = r
    BY <1>9 DEF Covered
  <2>2. CASE j = job[c]
    <3>1. OfItsRun(j)' /\ jobs'[j].run = r
      BY <1>3, <1>9, <2>1, <2>2 DEF OfItsRun, Unfinished, JobIs, run
    <3> QED BY <3>1 DEF Covered
  <2>3. CASE j # job[c]
    <3>1. OfItsRun(j)' /\ jobs'[j].run = r
      BY <1>1, <1>3, <2>1, <2>3 DEF OfItsRun, Unfinished, JobIs
    <3> QED BY <3>1 DEF Covered
  <2> QED BY <2>2, <2>3
<1>10. StandingCovered'
  <2> SUFFICES ASSUME NEW r \in Run, runs[r].state \in Standing PROVE Covered(r)' \/ Closing(r)'
    BY <1>2 DEF StandingCovered, RunIs, runVars
  <2>1. Covered(r)
    <3>1. ~Closing(r)
      BY <1>1, <1>3 DEF Closing, AtEnd
    <3> QED BY <3>1 DEF LocalInv, StandingCovered, RunIs
  <2>2. CASE r = run(c) /\ pc'[c] = "completeRun"
    BY <1>2, <2>2 DEF Closing, AtEnd
  <2>3. CASE r = run(c) /\ pc[c] = "defer" /\ jobs'[job[c]].state = jobs[job[c]].state
    <3>1. \A j \in Job : jobs'[j].state = jobs[j].state /\ jobs'[j].run = jobs[j].run
      BY <1>3, <2>3 DEF run
    <3> QED BY <1>1, <2>1, <3>1 DEF Covered, OfItsRun, Unfinished, JobIs
  <2>4. ASSUME r = run(c), pc[c] = "leaseRun", ~RunIs(run(c), {"QUEUED", "LEASED"}) PROVE FALSE
    <3>1. RunIs(run(c), {"RUNNING", "FAILED"}) /\ Has(c, "RUNNING")
      BY <1>2, <2>4 DEF Stand, Standing, RunIs, OnHand
    <3>2. ~RunIs(run(c), {"FAILED"})
      BY <1>1, <1>2, <2>4 DEF LocalInv, FailedTreated
    <3>3. PICK d \in Cycle : pc[d] \in {"execute", "completeRun", "investigate"} /\ run(d) = run(c)
      BY <1>2, <3>1, <3>2 DEF LocalInv, RunningExecuted, RunIs
    <3>4. d # c /\ pc[d] = "execute"
      BY <1>1, <2>4, <3>3
    <3>5. job[d] \in Job /\ JobIs(job[d], {"RUNNING"}) /\ job[d] # job[c]
      BY <2>4, <3>4 DEF LeaseInv, IBudget, Named, Stand, Has, Jobless, OnHand, Apart, Working
    <3> QED BY <1>2, <3>1, <3>3, <3>5 DEF LeaseInv, IJobs, JobsSound, OfItsRun, Unfinished, Has, JobIs, Held, run
  <2> QED BY <1>3, <1>9, <2>1, <2>2, <2>3, <2>4
<1>11. LiveAlone'
  BY <1>2 DEF LocalInv, LiveAlone, Live, Active, RunIs, runVars
<1> QED BY <1>4, <1>5, <1>6, <1>7, <1>8, <1>10, <1>11 DEF LocalInv

\* What holds of the jobs and the cycles goes on holding when no job and no run
\* moves and the cycle that does was, and is, between two jobs.
LEMMA LocalIdle ==
    ASSUME ~Docker, LeaseInv, LocalInv, NEW c \in Cycle, Step(c), pc[c] \in Jobless, pc'[c] \in Jobless, UNCHANGED jobVars,
           requeuing' \in SUBSET Run, requeuing \subseteq requeuing',
           \A r \in Run :
              /\ runs'[r].task = runs[r].task
              /\ \/ runs'[r].state = runs[r].state
                 \/ Live(r) /\ runs'[r].state = "DEAD_LETTER"
                 \/ RunIs(r, Standing) /\ runs'[r].state = "FAILED" /\ r \in requeuing'
    PROVE  LocalInv'
<1>1. /\ dispatch.at = "idle" /\ UNCHANGED dispatch
      /\ \A d \in Cycle : d # c => /\ pc[d] \in {"idle", "execute"} /\ pc'[d] = pc[d] /\ job'[d] = job[d]
                                   /\ pc[d] = "execute" => run(d)' = run(d)
  BY LocalTurn
<1> USE DEF Jobless, Working, OnHand
<1>2. HeldWorked'
  <2> SUFFICES ASSUME NEW j \in Job, JobIs(j, Held)' PROVE \E d \in Cycle : pc'[d] \in Working /\ job'[d] = j
    BY DEF HeldWorked
  <2>1. PICK d \in Cycle : pc[d] \in Working /\ job[d] = j
    BY DEF LocalInv, HeldWorked, JobIs, jobVars
  <2> QED BY <1>1, <2>1
<1>3. RunningExecuted'
  <2> SUFFICES ASSUME NEW r \in Run, runs'[r].state = "RUNNING"
               PROVE  \E d \in Cycle : pc'[d] \in {"execute", "completeRun", "investigate"} /\ run(d)' = r
    BY DEF RunningExecuted, RunIs
  <2>1. PICK d \in Cycle : pc[d] \in {"execute", "completeRun", "investigate"} /\ run(d) = r
    BY DEF LocalInv, RunningExecuted, RunIs
  <2> QED BY <1>1, <2>1
<1>4. FailedTreated'
  <2> SUFFICES ASSUME NEW r \in Run, runs'[r].state = "FAILED", r \notin requeuing' PROVE FALSE
    BY DEF FailedTreated, RunIs
  <2>1. PICK d \in Cycle : pc[d] = "recover"
    BY DEF LocalInv, FailedTreated, RunIs
  <2> QED BY <1>1, <2>1
<1>5. SettledAtVerdict'
  BY LocalTurn DEF SettledAtVerdict, jobVars
<1>6. DispatchCovered'
  BY <1>1 DEF DispatchCovered
<1>7. StandingCovered'
  <2> SUFFICES ASSUME NEW r \in Run, runs'[r].state \in Standing PROVE Covered(r)'
    BY DEF StandingCovered, RunIs
  <2>1. RunIs(r, Standing)
    BY DEF RunIs, Standing, Treatment
  <2>2. ~Closing(r)
    BY <1>1 DEF Closing, AtEnd
  <2>3. Covered(r)
    BY <2>1, <2>2 DEF LocalInv, StandingCovered
  <2> QED BY <2>3 DEF Covered, OfItsRun, Unfinished, JobIs, jobVars
<1>8. LiveAlone'
  <2>1. \A q \in Run : Live(q)' => Live(q)
    BY DEF Live, Active, RunIs, RunInactive, Standing, Treatment
  <2> QED BY <2>1 DEF LocalInv, LiveAlone
<1> QED BY <1>2, <1>3, <1>4, <1>5, <1>6, <1>7, <1>8 DEF LocalInv

LEMMA LocalFirstHalf ==
    ASSUME ~Docker, LeaseInv, LocalInv, NEW c \in Cycle, Step(c), BeginCycle(c) \/ StaleRuns(c) \/ Leave(c)
    PROVE  LocalInv'
<1>1. /\ settling = {} /\ requeuing = {} /\ dispatch.at = "idle"
      /\ \A d \in Cycle : d # c => pc[d] \in {"idle", "execute"}
  BY LocalTurn
<1>2. /\ jobs \in [Job -> JobRecord] /\ runs \in [Run -> RunRecord]
      /\ pc \in [Cycle -> Labels]
  BY Typed DEF LeaseInv, IJobs, IBudget, Budget, Named
<1>3. pc[c] \in Jobless /\ pc'[c] \in Jobless
  BY <1>2 DEF BeginCycle, StaleRuns, Leave, At, OnJobs, OnRuns, Goto, Jobless
<1>4. CASE BeginCycle(c)
  <2>1. \A j \in Job : ~(JobIs(j, Held) /\ jobs[j].lease = "lapsed")
    <3> SUFFICES ASSUME NEW j \in Job, JobIs(j, Held), jobs[j].lease = "lapsed" PROVE FALSE
      OBVIOUS
    <3>1. PICK d \in Cycle : pc[d] \in Working /\ job[d] = j
      BY DEF LocalInv, HeldWorked
    <3> QED BY <3>1, StandsOn
  <2>2. jobs' = jobs /\ settling' = settling
    <3>1. {j \in Job : JobIs(j, Held) /\ jobs[j].lease = "lapsed"} = {}
      BY <2>1
    <3> QED BY <1>2, <1>4, <3>1 DEF BeginCycle, ExpireLeases
  <2>3. UNCHANGED runVars
    BY <1>4 DEF BeginCycle, OnJobs
  <2> QED BY <1>1, <1>3, <2>2, <2>3, LocalIdle DEF jobVars, runVars
<1>5. CASE StaleRuns(c)
  <2> DEFINE stale == {r \in Run : RunIs(r, RunLeased) /\ runs[r].lease = "lapsed"}
             spent == {r \in stale : Exhausted(r)}
  <2>1. requeuing' = stale \ spent /\ UNCHANGED jobVars
    BY <1>1, <1>5 DEF StaleRuns, ExpireStaleRuns, OnRuns
  <2>2. \A r \in Run : ~(r \in stale /\ RunIs(r, {"RUNNING"}))
    <3> SUFFICES ASSUME NEW r \in Run, RunIs(r, {"RUNNING"}), runs[r].lease = "lapsed" PROVE FALSE
      OBVIOUS
    <3>1. PICK d \in Cycle : pc[d] \in {"execute", "completeRun", "investigate"} /\ run(d) = r
      BY DEF LocalInv, RunningExecuted
    <3>2. pc[d] \in {"execute", "investigate"}
      BY <1>1, <1>3, <3>1 DEF Jobless
    <3> QED BY <3>1, <3>2, StandsOn
  <2>3. ASSUME NEW r \in Run
        PROVE  /\ runs'[r].task = runs[r].task
               /\ \/ runs'[r].state = runs[r].state
                  \/ Live(r) /\ runs'[r].state = "DEAD_LETTER"
                  \/ RunIs(r, Standing) /\ runs'[r].state = "FAILED" /\ r \in requeuing'
    <3>1. runs'[r] = IF r \in spent
                     THEN [runs[r] EXCEPT !.state = IF CanGo(r, "DEAD_LETTER") THEN "DEAD_LETTER"
                                                                                ELSE runs[r].state]
                     ELSE IF r \in stale THEN [runs[r] EXCEPT !.state = "FAILED"] ELSE runs[r]
      BY <1>5 DEF StaleRuns, ExpireStaleRuns
    <3>2. r \in stale => RunIs(r, RunLeased)
      OBVIOUS
    <3> HIDE DEF stale, spent
    <3>3. r \in stale => Live(r) /\ RunIs(r, Standing)
      BY <3>2 DEF RunLeased, Live, Active, RunIs, RunInactive, Standing, Treatment
    <3>4. spent \subseteq stale
      BY DEF spent
    <3> QED BY <1>2, <2>1, <3>1, <3>3, <3>4 DEF RunRecord
  <2>4. requeuing' \in SUBSET Run
    BY <2>1
  <2> QED BY <1>1, <1>3, <2>1, <2>3, <2>4, LocalIdle
<1>6. CASE Leave(c)
  BY <1>1, <1>3, <1>6, LocalIdle DEF Leave, OnJobs, runVars
<1> QED BY <1>4, <1>5, <1>6

LEMMA LocalClaim ==
    ASSUME ~Docker, LeaseInv, LocalInv, NEW c \in Cycle, Step(c), Claim(c)
    PROVE  LocalInv'
<1>1. /\ settling = {} /\ requeuing = {} /\ dispatch.at = "idle" /\ UNCHANGED dispatch
      /\ \A d \in Cycle : d # c => /\ pc[d] \in {"idle", "execute"} /\ pc'[d] = pc[d] /\ job'[d] = job[d]
                                   /\ pc[d] = "execute" => run(d)' = run(d)
  BY LocalTurn
<1>2. PICK j \in Job : Lease(j, Owner[c]) /\ job' = [job EXCEPT ![c] = j]
  BY DEF Claim
<1>3. /\ JobIs(j, {"QUEUED"}) /\ jobs'[j].state = "LEASED" /\ jobs'[j].run = jobs[j].run
      /\ \A i \in Job : i # j => jobs'[i] = jobs[i]
      /\ UNCHANGED settling
  BY <1>2, LeaseWrites DEF Lease, Claimable, LeaseInv
<1>4. pc[c] \in {"claim", "reconcile"} /\ pc'[c] = "bind" /\ job'[c] = j /\ UNCHANGED runVars
  BY <1>2 DEF Claim, At, LeaseInv, IBudget, Named
<1>5. HeldWorked'
  <2> SUFFICES ASSUME NEW i \in Job, jobs'[i].state \in Held PROVE \E d \in Cycle : pc'[d] \in Working /\ job'[d] = i
    BY DEF HeldWorked, JobIs
  <2>1. CASE i = j
    BY <1>4, <2>1 DEF Working
  <2>2. CASE i # j
    <3>1. PICK d \in Cycle : pc[d] \in Working /\ job[d] = i
      BY <1>3, <2>2 DEF LocalInv, HeldWorked, JobIs
    <3> QED BY <1>1, <1>4, <3>1 DEF Working, OnHand
  <2> QED BY <2>1, <2>2
<1>6. RunningExecuted'
  <2> SUFFICES ASSUME NEW r \in Run, runs[r].state = "RUNNING"
               PROVE  \E d \in Cycle : pc'[d] \in {"execute", "completeRun", "investigate"} /\ run(d)' = r
    BY <1>4 DEF RunningExecuted, RunIs, runVars
  <2>1. PICK d \in Cycle : pc[d] \in {"execute", "completeRun", "investigate"} /\ run(d) = r
    BY DEF LocalInv, RunningExecuted, RunIs
  <2> QED BY <1>1, <1>4, <2>1
<1>7. FailedTreated'
  <2> SUFFICES ASSUME NEW r \in Run, runs[r].state = "FAILED" PROVE FALSE
    BY <1>4 DEF FailedTreated, RunIs, runVars
  <2>1. PICK d \in Cycle : pc[d] = "recover"
    BY <1>1 DEF LocalInv, FailedTreated, RunIs
  <2> QED BY <1>1, <1>4, <2>1
<1>8. SettledAtVerdict' /\ DispatchCovered'
  BY <1>1, <1>3 DEF SettledAtVerdict, DispatchCovered
<1>9. StandingCovered'
  <2> SUFFICES ASSUME NEW r \in Run, runs[r].state \in Standing PROVE Covered(r)'
    BY <1>4 DEF StandingCovered, RunIs, runVars
  <2>1. ~Closing(r)
    BY <1>1, <1>4 DEF Closing, AtEnd
  <2>2. PICK i \in Job : OfItsRun(i) /\ jobs[i].run = r
    BY <2>1 DEF LocalInv, StandingCovered, RunIs, Covered
  <2>3. OfItsRun(i)' /\ jobs'[i].run = r
    BY <1>3, <2>2 DEF OfItsRun, Unfinished, JobIs, Held
  <2> QED BY <2>3 DEF Covered
<1>10. LiveAlone'
  BY <1>4 DEF LocalInv, LiveAlone, Live, Active, RunIs, runVars
<1> QED BY <1>5, <1>6, <1>7, <1>8, <1>9, <1>10 DEF LocalInv

\* A step that moves no cycle, and starts, fails and claims nothing.
LEMMA LocalAway ==
    ASSUME LeaseInv, LocalInv, UNCHANGED cycleVars, QueueStep,
           \A j \in Job : JobIs(j, Held)' => JobIs(j, Held),
           \A j \in Job : OfItsRun(j) => OfItsRun(j)' \/ (j \in settling /\ JobIs(j, {"DEAD_LETTER"})'),
           settling' \subseteq settling,
           \A r \in Run : runs'[r].state \in {"RUNNING", "FAILED"} => runs'[r].state = runs[r].state,
           \A r \in Run : runs'[r].state \in Standing => RunIs(r, Standing) \/ Covered(r),
           \A r \in requeuing : r \in requeuing' \/ runs'[r].state # "FAILED"
    PROVE  /\ HeldWorked' /\ RunningExecuted' /\ FailedTreated' /\ SettledAtVerdict' /\ StandingCovered'
           /\ \A r \in Run : Covered(r) => Covered(r)' \/ settling # {}
<1>1. /\ \A d \in Cycle : pc[d] \notin Jobless => run(d)' = run(d) /\ job[d] \in Job /\ run(d) \in Run
      /\ pc' = pc /\ job' = job /\ IJobs
  BY RunOfJobStays DEF LeaseInv, IBudget, Named, Stand, cycleVars, run
<1>2. HeldWorked' /\ SettledAtVerdict'
  BY <1>1 DEF LocalInv, HeldWorked, SettledAtVerdict
<1>3. RunningExecuted'
  <2> SUFFICES ASSUME NEW r \in Run, runs'[r].state = "RUNNING"
               PROVE  \E d \in Cycle : pc'[d] \in {"execute", "completeRun", "investigate"} /\ run(d)' = r
    BY DEF RunningExecuted, RunIs
  <2>1. PICK d \in Cycle : pc[d] \in {"execute", "completeRun", "investigate"} /\ run(d) = r
    BY DEF LocalInv, RunningExecuted, RunIs
  <2> QED BY <1>1, <2>1 DEF Jobless
<1>4. FailedTreated'
  <2> SUFFICES ASSUME NEW r \in Run, runs'[r].state = "FAILED", r \notin requeuing'
               PROVE  \E d \in Cycle : pc'[d] = "recover" /\ run(d)' = r
    BY DEF FailedTreated, RunIs
  <2>1. PICK d \in Cycle : pc[d] = "recover" /\ run(d) = r
    BY DEF LocalInv, FailedTreated, RunIs
  <2> QED BY <1>1, <2>1 DEF Jobless
<1>5. ASSUME NEW r \in Run, NEW j \in Job, OfItsRun(j), jobs[j].run = r, OfItsRun(j)' PROVE Covered(r)'
  <2>1. jobs'[j].run = r
    BY <1>1, <1>5, RunOfJobStays
  <2> QED BY <1>5, <2>1 DEF Covered
<1>6. StandingCovered'
  <2> SUFFICES ASSUME NEW r \in Run, runs'[r].state \in Standing PROVE Covered(r)' \/ Closing(r)'
    BY DEF StandingCovered, RunIs
  <2>1. CASE Covered(r)
    <3>1. PICK j \in Job : OfItsRun(j) /\ jobs[j].run = r
      BY <2>1 DEF Covered
    <3>2. CASE j \in settling /\ JobIs(j, {"DEAD_LETTER"})'
      <4>1. PICK d \in Cycle : pc[d] = "verdict" /\ job[d] = j
        BY <3>2 DEF LocalInv, SettledAtVerdict
      <4>2. run(d)' = r /\ JobIs(job[d], {"DEAD_LETTER"})'
        BY <1>1, <3>1, <3>2, <4>1 DEF run, Jobless, JobIs
      <4> QED BY <1>1, <4>1, <4>2 DEF Closing, AtEnd
    <3> QED BY <1>5, <3>1, <3>2
  <2>2. CASE Closing(r)
    <3>1. PICK d \in Cycle : AtEnd(d) /\ run(d) = r
      BY <2>2 DEF Closing
    <3>2. run(d)' = r /\ job[d] \in Job
      BY <1>1, <3>1 DEF AtEnd, Jobless
    <3>3. JobIs(job[d], {"DEAD_LETTER"}) => JobIs(job[d], {"DEAD_LETTER"})'
      BY <1>1, <3>2, EndStays DEF QueueStep, jobVars, JobIs, JobEnd
    <3>4. AtEnd(d)'
      BY <1>1, <3>1, <3>3 DEF AtEnd, JobIs
    <3> QED BY <3>2, <3>4 DEF Closing
  <2> QED BY <2>1, <2>2 DEF LocalInv, StandingCovered
<1>7. ASSUME NEW r \in Run, Covered(r), settling = {} PROVE Covered(r)'
  <2>1. PICK j \in Job : OfItsRun(j) /\ jobs[j].run = r
    BY <1>7 DEF Covered
  <2> QED BY <1>5, <1>7, <2>1
<1> QED BY <1>2, <1>3, <1>4, <1>6, <1>7

LEMMA LocalOthers ==
    ASSUME ~Docker, ~Manual, ~Stalls, LeaseInv, LocalInv, Next \/ UNCHANGED vars, \A c \in Cycle : ~Step(c), ~Crash
    PROVE  LocalInv'
<1>1. OtherEffects /\ UNCHANGED cycleVars /\ QueueStep
  BY OthersWrite, OthersUseQueue DEF LeaseInv, IBudget
<1>2. /\ dispatch.at # "idle" => settling = {} /\ requeuing = {}
      /\ settling \subseteq Job /\ requeuing \subseteq Run
      /\ \A j \in settling : JobIs(j, {"FAILED"})
      /\ \A j \in Job : OfItsRun(j) => jobs[j].run \in Run /\ ~JobIs(j, {"ABSENT"})
      /\ dispatch.run \in Run \cup {Nobody}
  BY DEF LeaseInv, IBudget, Turn, Named, Settled, IJobs, JobsSound, JobTypeOK, Placed, Requeued, OfItsRun, Unfinished,
         JobIs, Held
<1> DEFINE Away == HeldWorked' /\ RunningExecuted' /\ FailedTreated' /\ SettledAtVerdict' /\ StandingCovered'
<1>3. ASSUME \A q \in Run : Live(q)' => Live(q) /\ runs'[q].task = runs[q].task PROVE LiveAlone'
  BY <1>3 DEF LocalInv, LiveAlone
<1>4. ASSUME \A q \in Run : (Live(q)' => Live(q)) /\ runs'[q].task = runs[q].task, Away,
             dispatch'.at = "queue" => Covered(dispatch.run)' /\ dispatch'.run = dispatch.run
      PROVE  LocalInv'
  <2>1. DispatchCovered'
    BY <1>4 DEF DispatchCovered, Covered
  <2> QED BY <1>3, <1>4, <2>1 DEF LocalInv
<1> HIDE DEF Away
<1>5. ASSUME SameJobs PROVE \A j \in Job : (JobIs(j, Held)' => JobIs(j, Held)) /\ (Unfinished(j) => Unfinished(j)')
  BY <1>5 DEF SameJobs, JobIs, Unfinished
<1>6. ASSUME SameRuns
      PROVE  \A q \in Run : (Live(q)' => Live(q)) /\ runs'[q].task = runs[q].task /\ runs'[q].state = runs[q].state
  BY <1>6 DEF SameRuns, Live, Active, RunIs
<1>7. Covered(dispatch.run) => dispatch.run \in Run
  BY <1>2 DEF Covered
<1>8. CASE QuietEffect
  <2>1. Away /\ \A r \in Run : Covered(r) => Covered(r)' \/ settling # {}
    BY <1>1, <1>5, <1>6, <1>8, LocalAway DEF QuietEffect, OfItsRun, RunIs, Away
  <2>2. ASSUME dispatch'.at = "queue" PROVE Covered(dispatch.run)' /\ dispatch'.run = dispatch.run
    <3>1. UNCHANGED dispatch /\ Covered(dispatch.run) /\ settling = {}
      BY <1>2, <1>8, <2>2 DEF QuietEffect, LocalInv, DispatchCovered
    <3>2. ASSUME NEW r, r = dispatch.run PROVE Covered(r)'
      BY <1>7, <2>1, <3>1, <3>2
    <3> QED BY <3>1, <3>2 DEF Covered
  <2> QED BY <1>4, <1>6, <1>8, <2>1, <2>2 DEF QuietEffect
<1>9. ASSUME NEW j \in settling, SettleEffect(j) PROVE LocalInv'
  <2>1. dispatch'.at # "queue" /\ j \in Job
    BY <1>2, <1>9 DEF SettleEffect
  <2>2. SameRuns
    BY <1>9 DEF SettleEffect, SameRuns, runVars
  <2>3. \A i \in Job : /\ JobIs(i, Held)' => JobIs(i, Held)
                       /\ OfItsRun(i) => OfItsRun(i)' \/ (i \in settling /\ JobIs(i, {"DEAD_LETTER"})')
    BY <1>9 DEF SettleEffect, OnlyJob, JobIs, Held, OfItsRun, Unfinished
  <2>4. settling' \subseteq settling /\ requeuing' = requeuing
    BY <1>9 DEF SettleEffect, runVars
  <2>5. Away
    BY <1>1, <1>6, <2>2, <2>3, <2>4, LocalAway DEF RunIs, Away
  <2> QED BY <1>4, <1>6, <2>1, <2>2, <2>5
<1>10. ASSUME NEW r \in requeuing, RequeueEffect(r) PROVE LocalInv'
  <2>1. dispatch'.at # "queue" /\ r \in Run
    BY <1>2, <1>10 DEF RequeueEffect
  <2>2. SameJobs /\ settling' = settling
    BY <1>10 DEF RequeueEffect, SameJobs, jobVars
  <2>3. \A q \in Run : /\ (Live(q)' => Live(q)) /\ runs'[q].task = runs[q].task
                       /\ runs'[q].state \in {"RUNNING", "FAILED"} => runs'[q].state = runs[q].state
                       /\ runs'[q].state \in Standing => RunIs(q, Standing)
    BY <1>10 DEF RequeueEffect, OnlyRun, Live, Active, RunIs, RunInactive, Standing
  <2>4. \A q \in requeuing : q \in requeuing' \/ runs'[q].state # "FAILED"
    BY <1>10 DEF RequeueEffect, RunIs
  <2>5. Away
    BY <1>1, <1>5, <2>2, <2>3, <2>4, LocalAway DEF OfItsRun, Away
  <2> QED BY <1>4, <2>1, <2>3, <2>5
<1>11. ASSUME NEW r \in Run, CreateEffect(r) PROVE LocalInv'
  <2>1. SameJobs /\ settling' = settling /\ requeuing' = requeuing /\ dispatch'.at # "queue"
    BY <1>11 DEF CreateEffect, SameJobs, jobVars
  <2>2. \A q \in Run : /\ runs'[q].state \in {"RUNNING", "FAILED"} => runs'[q].state = runs[q].state
                       /\ runs'[q].state \in Standing => RunIs(q, Standing)
    BY <1>11 DEF CreateEffect, OnlyRun, RunIs, Standing, Treatment
  <2>3. Away
    BY <1>1, <1>5, <2>1, <2>2, LocalAway DEF OfItsRun, Away
  <2>4. \A q \in Run : ~RunIs(q, {"FAILED"})
    <3> SUFFICES ASSUME NEW q \in Run, RunIs(q, {"FAILED"}) PROVE FALSE
      OBVIOUS
    <3>1. requeuing = {} /\ \A d \in Cycle : pc[d] \in Awaiting
      BY <1>11 DEF CreateEffect, ThreadFree, Settled
    <3> QED BY <3>1 DEF LocalInv, FailedTreated, Awaiting
  <2>5. LiveAlone'
    <3>1. \A q \in Run : q # r => runs'[q] = runs[q] /\ (Live(q)' => Live(q) /\ runs[q].task # runs'[r].task)
      BY <1>11, <2>4 DEF CreateEffect, OnlyRun, Live, Active, RunIs
    <3> QED BY <3>1 DEF LocalInv, LiveAlone
  <2>6. DispatchCovered'
    BY <2>1 DEF DispatchCovered
  <2> QED BY <2>3, <2>5, <2>6 DEF LocalInv, Away
<1>12. ASSUME NEW j \in Job, EnqueueEffect(j) PROVE LocalInv'
  <2>1. SameRuns /\ settling' = settling /\ requeuing' = requeuing
    BY <1>12 DEF EnqueueEffect, SameRuns, runVars
  <2>2. /\ \A i \in Job : (JobIs(i, Held)' => JobIs(i, Held)) /\ (OfItsRun(i) => OfItsRun(i)')
        /\ OfItsRun(j)' /\ jobs'[j].run = dispatch.run
    <3>1. CASE UNCHANGED jobs
      BY <1>12, <2>1, <3>1 DEF EnqueueEffect, JobIs, OfItsRun, Unfinished, Held
    <3>2. CASE JobIs(j, {"ABSENT"}) /\ JobIs(j, {"QUEUED"})' /\ jobs'[j].run = dispatch.run /\ OnlyJob(j)
      BY <1>2, <2>1, <3>2 DEF OnlyJob, JobIs, OfItsRun, Unfinished, Held
    <3> QED BY <1>12, <3>1, <3>2 DEF EnqueueEffect
  <2>3. Away
    BY <1>1, <1>6, <2>1, <2>2, LocalAway DEF RunIs, Away
  <2>4. dispatch'.run = dispatch.run
    BY <1>12 DEF EnqueueEffect
  <2>5. Covered(dispatch.run)'
    BY <2>2, <2>4 DEF Covered
  <2> QED BY <1>4, <1>6, <2>1, <2>3, <2>4, <2>5
<1>13. ASSUME NEW r \in Run, QueueEffect(r) PROVE LocalInv'
  <2>1. SameJobs /\ settling' = settling /\ requeuing' = requeuing /\ dispatch'.at # "queue"
    BY <1>13 DEF QueueEffect, SameJobs, jobVars
  <2>2. \A q \in Run : /\ (Live(q)' => Live(q)) /\ runs'[q].task = runs[q].task
                       /\ runs'[q].state \in {"RUNNING", "FAILED"} => runs'[q].state = runs[q].state
                       /\ runs'[q].state \in Standing => RunIs(q, Standing) \/ q = r
    BY <1>13 DEF QueueEffect, OnlyRun, Live, Active, RunIs, RunInactive
  <2>3. Covered(r)
    BY <1>13 DEF QueueEffect, LocalInv, DispatchCovered
  <2>4. Away
    BY <1>1, <1>5, <2>1, <2>2, <2>3, LocalAway DEF OfItsRun, Away
  <2> QED BY <1>4, <2>1, <2>2, <2>4
<1> QED BY <1>1, <1>8, <1>9, <1>10, <1>11, <1>12, <1>13 DEF OtherEffects

LEMMA LocalNext ==
    ASSUME ~Docker, ~Manual, ~Stalls, LeaseInv, LocalInv, crashes \in Nat, MaxCrashes = 0, Next \/ UNCHANGED vars
    PROVE  LocalInv'
<1>1. ~Crash
  BY DEF Crash
<1>2. CASE \A c \in Cycle : ~Step(c)
  BY <1>1, <1>2, LocalOthers
<1>3. ASSUME NEW c \in Cycle, Step(c) PROVE LocalInv'
  BY <1>3, StepKinds, LocalFirstHalf, LocalClaim, LocalRunStep, LocalJobStep, RunStepEffects, JobStepEffects
<1> QED BY <1>2, <1>3

LEMMA LocalInit == Init => LocalInv
BY DEF Init, JobInit, RunInit, NoJob, NoRun, LocalInv, HeldWorked, RunningExecuted, FailedTreated, SettledAtVerdict,
       StandingCovered, DispatchCovered, LiveAlone, Live, Active, JobIs, RunIs, Held, RunInactive, Standing, Treatment

LEMMA LocalShows == ~Docker /\ LeaseInv /\ LocalInv => OneRunPerTask /\ QueuedRunHasJob
<1> SUFFICES ASSUME ~Docker, LeaseInv, LocalInv PROVE OneRunPerTask /\ QueuedRunHasJob
  OBVIOUS
<1>1. OneRunPerTask
  BY DEF LocalInv, LiveAlone, OneRunPerTask, Live
<1>2. QueuedRunHasJob
  <2> SUFFICES ASSUME ThreadFree, NEW r \in Run, RunIs(r, {"QUEUED"})
               PROVE  \E j \in Job : Unfinished(j) /\ jobs[j].run = r
    BY DEF QueuedRunHasJob
  <2>1. ~Closing(r)
    BY DEF Closing, AtEnd, ThreadFree, Awaiting
  <2>2. Covered(r)
    BY <2>1 DEF LocalInv, StandingCovered, Standing, RunIs
  <2> QED BY <2>2 DEF Covered, OfItsRun, ThreadFree, Settled
<1> QED BY <1>1, <1>2

----------------------------------------------------------------------------
(* What the worker keeps.                                                  *)

LEMMA CrashesCounted ==
    ASSUME crashes \in Nat, Next \/ UNCHANGED vars
    PROVE  crashes' \in Nat
<1>1. ASSUME NEW c \in Cycle, Step(c) PROVE crashes' = crashes
  BY <1>1 DEF Step, BeginCycle, StaleRuns, Claim, Leave, BindCreated, BindTreated, StartJob,
     LeaseRunStep, NotExecutable, StartRunStep, Succeed, CompleteRunStep, Break, Diagnose,
     RootCause, FailJobStep, DeadLetterStep, FailRunStep, Recover, Verify, DeferStep, Retry,
     Outer, OnJobs, OnRuns
<1>2. CASE UNCHANGED crashes
  BY <1>2
<1>3. CASE Crash
  BY <1>3 DEF Crash
<1>4. UNCHANGED crashes \/ Crash \/ \E c \in Cycle : Step(c)
  BY DEF Next, Beat, SettleStep, Dispatch, DispatchEnqueue, DispatchQueue, Clock, JobLapses, JobDue, RunLapses,
     Operate, vars
<1> QED BY <1>1, <1>2, <1>3, <1>4

\* The part of the invariant that holds under every operator, stall and kill.
UseInv == Named /\ Turn /\ IJobs /\ Ticketed /\ crashes \in Nat

LEMMA UseInvInit == Init => UseInv
<1>1. Init => Turn
  BY DEF Init, Turn, Awaiting
<1>2. Init => JobInit /\ crashes \in Nat
  BY DEF Init
<1> QED BY <1>1, <1>2, NamedInit, LateInit, InitSound DEF UseInv

LEMMA UseInvNext ==
    ASSUME UseInv, Next \/ UNCHANGED vars
    PROVE  UseInv'
<1>1. QueueStep
  BY CycleUsesQueue, OthersUseQueue DEF UseInv
<1>2. IJobs'
  BY <1>1, StepSound DEF QueueStep, UseInv
<1> QED BY <1>2, NamedNext, TurnNext, TicketedNext, CrashesCounted DEF UseInv, Named

LEMMA OtherInvsInit == Init => TransInv /\ SuccInv
BY DEF Init, JobInit, NoJob, TransInv, SuccInv, JobIs

\* A cycle executes only under its own live lease, in any number and across
\* crashes, and what it accepted is told to both stores unless it is killed in
\* between (worker.ts:114-171, queue.ts:18).
THEOREM WorksUnderLease ==
    ASSUME ~Manual, ~Stalls
    PROVE  Spec => []ExecutesUnderLease /\ []SuccessAgrees
<1> DEFINE Inv == LeaseInv /\ SuccInv /\ crashes \in Nat
<1>1. Init => Inv
  BY LeaseInvInit, OtherInvsInit, UseInvInit DEF UseInv
<1>2. Inv /\ [Next]_vars => Inv'
  BY LeaseInvNext, SuccNext, CrashesCounted
<1>3. Inv => ExecutesUnderLease /\ SuccessAgrees
  BY LeaseShows, SuccShows
<1> HIDE DEF Inv
<1> QED BY <1>1, <1>2, <1>3, PTL DEF Spec

\* FAILED is a state jobs pass through, whoever fails them and whatever lapses,
\* as long as the process lives (queue.ts:9-11,210-217,240-248).
THEOREM FailedPasses == Spec => []FailedIsTransient
<1> DEFINE Inv == UseInv /\ TransInv
<1>1. Init => Inv
  BY UseInvInit, OtherInvsInit
<1>2. Inv /\ [Next]_vars => Inv'
  BY UseInvNext, TransNext DEF UseInv
<1>3. Inv => FailedIsTransient
  BY TransShows
<1> HIDE DEF Inv
<1> QED BY <1>1, <1>2, <1>3, PTL DEF Spec

\* With the local runtime and no kill a task has one active run, and a run that
\* waits to be executed has a job (runs.ts:15-16,113; worker.ts:82,210-211).
THEOREM LocalRuns ==
    ASSUME ~Docker, ~Manual, ~Stalls, MaxCrashes = 0
    PROVE  Spec => []OneRunPerTask /\ []QueuedRunHasJob
<1> DEFINE Inv == LeaseInv /\ LocalInv /\ crashes \in Nat
<1>1. Init => Inv
  BY LeaseInvInit, LocalInit, UseInvInit DEF UseInv
<1>2. Inv /\ [Next]_vars => Inv'
  BY LeaseInvNext, LocalNext, CrashesCounted
<1>3. Inv => OneRunPerTask /\ QueuedRunHasJob
  BY LocalShows
<1> HIDE DEF Inv
<1> QED BY <1>1, <1>2, <1>3, PTL DEF Spec

\* The answer of an execution settles the job only if the job is still at the
\* attempt that was executed.
LateAnswersLeave ==
    [][\A c \in Cycle : /\ pc[c] \in {"execute", "failJob"} /\ pc'[c] # pc[c]
                        /\ jobs[job[c]].attempt # ticket[c]
                        => jobs'[job[c]].state = jobs[job[c]].state]_vars

\* When the cycles have ids of their own, a late answer settles nothing, whatever
\* stalls, is killed or is done by hand (queue.ts:18, worker.ts:170).
THEOREM LateAnswersAreLeft ==
    ASSUME OwnersApart
    PROVE  Spec => LateAnswersLeave
<1> DEFINE Inv == UseInv /\ LateInv
           A == \A c \in Cycle : /\ pc[c] \in {"execute", "failJob"} /\ pc'[c] # pc[c]
                                 /\ jobs[job[c]].attempt # ticket[c]
                                 => jobs'[job[c]].state = jobs[job[c]].state
<1>1. Init => Inv
  BY UseInvInit, LateInit
<1>2. Inv /\ [Next]_vars => Inv'
  BY UseInvNext, LateNext DEF UseInv
<1>3. Inv /\ [Next]_vars => [A]_vars
  BY LateSettlesNothing DEF UseInv
<1> HIDE DEF Inv, A
<1>4. Spec => [][A]_vars
  BY <1>1, <1>2, <1>3, PTL DEF Spec
<1> QED BY <1>4 DEF LateAnswersLeave, A
=============================================================================
