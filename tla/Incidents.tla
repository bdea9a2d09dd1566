----------------------------- MODULE Incidents -----------------------------
(***************************************************************************)
(* The life of one error incident: error-intelligence.ts, with the         *)
(* failures and recovery plans of reliability.ts, the regression tests of  *)
(* regression.ts and verification.ts, and knowledge.ts.                    *)
(*                                                                         *)
(* One process, several callers (requests, the worker).  A caller that     *)
(* awaits a sandbox or a test run keeps what it read (pending); the steps  *)
(* of other callers come in between.  beginRecovery and verifyRecovery     *)
(* keep the whole reliability payload and write it back after the await.   *)
(***************************************************************************)
EXTENDS Naturals, FiniteSets

CONSTANTS
    Caller, Test,    \* requests in flight; command lines of regression tests
    OtherTests,      \* tests other incidents have left behind
    Patch,           \* what a caller may set of an incident: records of some of its fields
    MaxFailures, MaxPlans, MaxCalls,   \* bounds on the records and the calls made
    None

VARIABLES
    incident, reliability, tests, known,
    sandbox,     \* the diagnostic sandbox SB-DIAG-<incident> is registered
    experiment,  \* the experiment EXP-<incident> is recorded
    pending,     \* of each caller: the call it is awaiting
    made,        \* failures and plans made so far
    calls,       \* calls so far
    raw,         \* history: the raw transition route was used
    passed,      \* history: tests that have passed
    proved       \* history: plans whose smoke test and regression suite passed

vars == <<incident, reliability, tests, known, sandbox, experiment, pending, made, calls, raw, passed, proved>>

Failure == 1..MaxFailures
Plan == 1..MaxPlans

\* ERROR_TRANSITIONS, without ESCALATED, which CanGo adds.
Successors == [
    DETECTED |-> {"TRIAGING"}, TRIAGING |-> {"CONTAINED"}, CONTAINED |-> {"REPRODUCING"},
    REPRODUCING |-> {"DIAGNOSING"}, DIAGNOSING |-> {"HYPOTHESIS"}, HYPOTHESIS |-> {"EXPERIMENTING"},
    EXPERIMENTING |-> {"ROOT_CAUSE_FOUND", "HYPOTHESIS"}, ROOT_CAUSE_FOUND |-> {"FIXING"},
    FIXING |-> {"VERIFYING"}, VERIFYING |-> {"LEARNED", "ROOT_CAUSE_FOUND"},
    LEARNED |-> {"REGRESSION_LOCKED"}, REGRESSION_LOCKED |-> {}, ESCALATED |-> {"TRIAGING"}]

Status == DOMAIN Successors
Final == {"LEARNED", "REGRESSION_LOCKED"}
CanGo(i, s) == s \in Successors[i.status] \/ (s = "ESCALATED" /\ i.status \notin Final \cup {"ESCALATED"})
To(i, s) == IF CanGo(i, s) THEN [i EXCEPT !.status = s] ELSE i

Free == [at |-> "free"]
NoFailure == [state |-> "absent", test |-> None]
NoPlan == [state |-> "absent", failure |-> 0, box |-> FALSE, checkpoint |-> FALSE]

\* The fields of an incident.  task: bound to a task that has an agent; severe:
\* HIGH or CRITICAL; box, place: diagnosticSandboxId and sandboxId name something.
\* The failure or the plan 0 is none, or an id nothing has.
Field == [status |-> Status, task |-> BOOLEAN, severe |-> BOOLEAN, hypothesis |-> BOOLEAN, evidence |-> BOOLEAN,
          cause |-> BOOLEAN, box |-> BOOLEAN, place |-> BOOLEAN, experiment |-> BOOLEAN,
          failure |-> {0} \cup Failure, plan |-> {0} \cup Plan, test |-> {None} \cup Test]
Blank == [status |-> "DETECTED", task |-> FALSE, severe |-> FALSE, hypothesis |-> FALSE, evidence |-> FALSE,
          cause |-> FALSE, box |-> FALSE, place |-> FALSE, experiment |-> FALSE, failure |-> 0, plan |-> 0, test |-> None]
Patched(i, patch) == [field \in DOMAIN i |-> IF field \in DOMAIN patch THEN patch[field] ELSE i[field]]

Init ==
    /\ incident \in {[Patched(Blank, patch) EXCEPT !.status = "DETECTED"] : patch \in Patch}    \* createErrorIncident
    /\ reliability = [failures |-> [f \in Failure |-> NoFailure], plans |-> [p \in Plan |-> NoPlan]]
    /\ tests = [t \in Test |-> IF t \in OtherTests THEN "UNKNOWN" ELSE "absent"]
    /\ known = "nothing"
    /\ sandbox = FALSE /\ experiment = FALSE
    /\ pending = [c \in Caller |-> Free]
    /\ made = [failures |-> 0, plans |-> 0]
    /\ calls = 0 /\ raw = FALSE /\ passed = {} /\ proved = {}

Call(c) == pending[c] = Free /\ calls < MaxCalls /\ calls' = calls + 1
Now(c) == Call(c) /\ UNCHANGED pending
Await(c, call) == Call(c) /\ pending' = [pending EXCEPT ![c] = call]
Resume(c, call) == pending' = [pending EXCEPT ![c] = call] /\ UNCHANGED calls
Return(c) == Resume(c, Free)

Exists(f) == f # 0 /\ reliability.failures[f].state # "absent"
WithFailure(payload, f, state) ==
    IF f # 0 /\ payload.failures[f].state # "absent" THEN [payload EXCEPT !.failures[f].state = state] ELSE payload

----------------------------------------------------------------------------
(* Investigation.                                                          *)

NewFailure(f, t) ==    \* recordFailure
    /\ made.failures < MaxFailures /\ f = made.failures + 1
    /\ made' = [made EXCEPT !.failures = f]
    /\ reliability' = [reliability EXCEPT !.failures[f] = [state |-> "OPEN", test |-> t]]

\* The reliability route: the caller's record may name a test.
RecordFailure(c, f, t) ==
    /\ Now(c) /\ NewFailure(f, t)
    /\ UNCHANGED <<incident, tests, known, sandbox, experiment, raw, passed, proved>>

\* DIAGNOSING refused, the failure stays without a reference.
Diagnose(i, f) ==
    /\ NewFailure(f, None)
    /\ incident' = IF CanGo(i, "DIAGNOSING") THEN [To(i, "DIAGNOSING") EXCEPT !.failure = f] ELSE i

\* DETECTED and TRIAGING are contained; in any other state a severe incident
\* is refused and another goes on where it is.
Contained(i) == To(To(i, "TRIAGING"), "CONTAINED")
Triaged(i) == IF i.status \in {"DETECTED", "TRIAGING"} THEN Contained(i) ELSE i

Investigate(c) ==
    /\ incident.severe => incident.status \in {"DETECTED", "TRIAGING"}
    /\ \/ /\ incident.task /\ ~incident.box
          /\ incident' = Triaged(incident)
          /\ Await(c, [at |-> "creating"])
          /\ UNCHANGED <<reliability, made>>
       \/ /\ ~incident.task \/ incident.box
          /\ Now(c) /\ \E f \in Failure : Diagnose(To(Triaged(incident), "REPRODUCING"), f)
    /\ UNCHANGED <<tests, known, sandbox, experiment, raw, passed, proved>>

\* createSandbox is refused an id that is registered.
SandboxCreated(c) ==
    /\ pending[c].at = "creating"
    /\ sandbox' = TRUE
    /\ Resume(c, IF sandbox THEN Free ELSE [at |-> "starting"])
    /\ UNCHANGED <<incident, reliability, tests, known, experiment, made, raw, passed, proved>>

\* startSandbox is over: REPRODUCING from CONTAINED, or nothing more.
SandboxStarted(c) ==
    /\ pending[c].at = "starting"
    /\ Return(c)
    /\ IF CanGo(incident, "REPRODUCING")
       THEN \E f \in Failure : Diagnose([To(incident, "REPRODUCING") EXCEPT !.box = TRUE, !.place = TRUE], f)
       ELSE UNCHANGED <<incident, reliability, made>>
    /\ UNCHANGED <<tests, known, sandbox, experiment, raw, passed, proved>>

Refused(c) ==    \* the runtime, the gate or the broker refuses
    /\ pending[c].at \in {"creating", "starting", "restoring", "suite"}
    /\ pending[c].at = "suite" => pending[c].of = "fix"
    /\ Return(c)
    /\ UNCHANGED <<incident, reliability, tests, known, sandbox, experiment, made, raw, passed, proved>>

----------------------------------------------------------------------------
(* Diagnosis.                                                              *)

FormHypothesis(c) ==
    /\ Now(c) /\ CanGo(incident, "HYPOTHESIS")
    /\ incident' = [To(incident, "HYPOTHESIS") EXCEPT !.hypothesis = TRUE]
    /\ UNCHANGED <<reliability, tests, known, sandbox, experiment, made, raw, passed, proved>>

\* createExperiment is refused an id that is recorded, and the id is the incident's.
CanExperiment(i) == i.hypothesis /\ (i.box \/ i.place) /\ ~experiment

\* startExperiment: the experiment is recorded before the transition is tried.
StartExperiment(c) ==
    /\ Now(c) /\ CanExperiment(incident)
    /\ experiment' = TRUE
    /\ incident' = IF CanGo(incident, "EXPERIMENTING")
                   THEN [To(incident, "EXPERIMENTING") EXCEPT !.experiment = TRUE] ELSE incident
    /\ UNCHANGED <<reliability, tests, known, sandbox, made, raw, passed, proved>>

RecordEvidence(c) ==
    /\ Now(c) /\ incident.experiment
    /\ incident' = [incident EXCEPT !.evidence = TRUE]
    /\ UNCHANGED <<reliability, tests, known, sandbox, experiment, made, raw, passed, proved>>

\* resolveFailure: the regression id is set to what the caller names, or to none.
Resolved(f, t) == [reliability EXCEPT !.failures[f] = [state |-> "RESOLVED", test |-> t]]
Resolve(c, f, t) ==
    /\ Now(c) /\ Exists(f)
    /\ reliability' = Resolved(f, t)
    /\ UNCHANGED <<incident, tests, known, sandbox, experiment, made, raw, passed, proved>>

RootCause(i) ==
    /\ incident' = [To(i, "ROOT_CAUSE_FOUND") EXCEPT !.cause = TRUE]
    /\ reliability' = IF Exists(i.failure) THEN Resolved(i.failure, None) ELSE reliability

\* Variant: no evidence is asked for.
EstablishUnfounded(c, claims) ==
    /\ Now(c) /\ CanGo(incident, "ROOT_CAUSE_FOUND")
    /\ RootCause([incident EXCEPT !.evidence = @ \/ claims])
    /\ UNCHANGED <<tests, known, sandbox, experiment, made, raw, passed, proved>>

\* establishRootCause; ids the caller names count as evidence unseen.
EstablishRootCause(c, claims) ==
    /\ Now(c) /\ CanGo(incident, "ROOT_CAUSE_FOUND")
    /\ incident.evidence \/ claims
    /\ RootCause([incident EXCEPT !.evidence = @ \/ claims])
    /\ UNCHANGED <<tests, known, sandbox, experiment, made, raw, passed, proved>>

\* establishRootCauseFromFailure, the worker's way in one go.  Without a
\* sandbox, or when the experiment exists, it gets no further than HYPOTHESIS.
FromFailure(c) ==
    /\ Now(c)
    /\ LET hyp == IF incident.status = "DIAGNOSING" THEN [To(incident, "HYPOTHESIS") EXCEPT !.hypothesis = TRUE]
                  ELSE incident
           try == hyp.status = "HYPOTHESIS"
           exp == IF try THEN [To(hyp, "EXPERIMENTING") EXCEPT !.experiment = TRUE] ELSE hyp
       IN  \/ /\ try /\ ~CanExperiment(hyp)
              /\ incident' = hyp /\ UNCHANGED <<experiment, reliability>>
           \/ /\ exp.status = "EXPERIMENTING" /\ exp.experiment /\ (try => CanExperiment(hyp))
              /\ RootCause([exp EXCEPT !.evidence = TRUE]) /\ experiment' = (experiment \/ try)
           \/ /\ exp.status = "VERIFYING" /\ exp.evidence
              /\ RootCause(exp) /\ UNCHANGED experiment
    /\ UNCHANGED <<tests, known, sandbox, made, raw, passed, proved>>

----------------------------------------------------------------------------
(* Recovery.                                                               *)

\* prepareErrorRecovery, up to the snapshot; it goes on without one.
PrepareRecovery(c) ==
    /\ Await(c, [at |-> "snapshot", incident |-> incident])
    /\ UNCHANGED <<incident, reliability, tests, known, sandbox, experiment, made, raw, passed, proved>>

NewPlan(p, plan) ==    \* prepareRecovery
    /\ made.plans < MaxPlans /\ p = made.plans + 1
    /\ made' = [made EXCEPT !.plans = p]
    /\ reliability' = [reliability EXCEPT !.plans[p] = plan]

\* The reliability route: the caller names the failure, the sandbox and the
\* snapshot, which counts for nothing without a sandbox.
Prepare(c, p, f, box, checkpoint) ==
    /\ checkpoint => box
    /\ Now(c) /\ NewPlan(p, [state |-> "PREPARED", failure |-> f, box |-> box, checkpoint |-> checkpoint])
    /\ UNCHANGED <<incident, tests, known, sandbox, experiment, raw, passed, proved>>

\* The plan is made before the transition is tried.
RecoveryPrepared(c, p, checkpoint) ==
    /\ pending[c].at = "snapshot"
    /\ LET i == pending[c].incident IN
       /\ checkpoint => i.box
       /\ NewPlan(p, [state |-> "PREPARED", failure |-> i.failure, box |-> i.box, checkpoint |-> checkpoint])
    /\ incident' = IF CanGo(incident, "FIXING") THEN [To(incident, "FIXING") EXCEPT !.plan = p] ELSE incident
    /\ Return(c)
    /\ UNCHANGED <<tests, known, sandbox, experiment, raw, passed, proved>>

Executing(p) == [WithFailure(reliability, reliability.plans[p].failure, "CONTAINED")
                    EXCEPT !.plans[p].state = "EXECUTING"]

\* executeRecoveryForIncident and beginRecovery; without a checkpoint at once.
ExecuteRecovery(c) ==
    /\ LET p == incident.plan IN
       /\ p # 0 /\ reliability.plans[p].state = "PREPARED"
       /\ IF reliability.plans[p].box /\ reliability.plans[p].checkpoint
          THEN /\ Await(c, [at |-> "restoring", payload |-> Executing(p)])
               /\ UNCHANGED reliability
          ELSE Now(c) /\ reliability' = Executing(p)
    /\ UNCHANGED <<incident, tests, known, sandbox, experiment, made, raw, passed, proved>>

\* What was read before the await is written, with its changes.
Restored(c) ==
    /\ pending[c].at = "restoring"
    /\ reliability' = pending[c].payload
    /\ Return(c)
    /\ UNCHANGED <<incident, tests, known, sandbox, experiment, made, raw, passed, proved>>

\* verifyRecoveryForIncident, or the reliability route on the plan alone.
VerifyRecovery(c, p, forIncident) ==
    /\ p # 0 /\ reliability.plans[p].state = "EXECUTING" /\ reliability.plans[p].box
    /\ forIncident => p = incident.plan
    /\ Await(c, [at |-> "smoke", plan |-> p, was |-> reliability,
                 fixing |-> forIncident /\ incident.status = "FIXING", evidence |-> incident.evidence])
    /\ UNCHANGED <<incident, reliability, tests, known, sandbox, experiment, made, raw, passed, proved>>

Active == {t \in Test : tests[t] # "absent"}
Suite(t) == IF t = None THEN Active ELSE Active \cap {t}

\* ~ok: the smoke test failed, or the snapshot of the plan is gone.
SmokeDone(c, ok) ==
    /\ pending[c].at = "smoke"
    /\ LET f == pending[c].was.plans[pending[c].plan].failure IN
       Resume(c, [at |-> "suite", of |-> "plan", call |-> pending[c], smoke |-> ok,
                  suite |-> Suite(IF f = 0 THEN None ELSE pending[c].was.failures[f].test)])
    /\ UNCHANGED <<incident, reliability, tests, known, sandbox, experiment, made, raw, passed, proved>>

\* Variant: a suite without a test counts as passed.
EmptyPasses(suite, failing) == failing = {}
SuitePassed(suite, failing) == suite # {} /\ failing = {}

SuiteRun(suite, failing) ==
    /\ failing \subseteq suite
    /\ tests' = [t \in Test |-> IF t \in failing THEN "FAIL" ELSE IF t \in suite THEN "PASS" ELSE tests[t]]
    /\ passed' = passed \cup (suite \ failing)

\* verifyRecovery after its runs writes what it read before them, with its
\* verdict; an accepted plan takes a fixing incident on, with the evidence it
\* had before.
PlanVerified(c, failing) ==
    /\ pending[c].at = "suite" /\ pending[c].of = "plan"
    /\ SuiteRun(pending[c].suite, failing)
    /\ LET call == pending[c].call
           ok == pending[c].smoke /\ SuitePassed(pending[c].suite, failing)
           contained == WithFailure(call.was, call.was.plans[call.plan].failure,
                                    IF ok THEN "VERIFIED" ELSE "ANALYZING")
       IN  /\ reliability' = [contained EXCEPT !.plans[call.plan].state = IF ok THEN "VERIFIED" ELSE "REJECTED"]
           /\ incident' = IF ok /\ call.fixing /\ CanGo(incident, "VERIFYING")
                          THEN [To(incident, "VERIFYING") EXCEPT !.evidence = call.evidence,
                                                                 !.plan = call.plan]
                          ELSE incident
           /\ proved' = IF pending[c].smoke /\ pending[c].suite # {} /\ failing = {}
                        THEN proved \cup {call.plan} ELSE proved
    /\ Return(c)
    /\ UNCHANGED <<known, sandbox, experiment, made, raw>>

----------------------------------------------------------------------------
(* Regression, verification of the fix, learning.                          *)

CreateRegressionTest(c, t) ==
    /\ Now(c)
    /\ tests' = [tests EXCEPT ![t] = IF @ = "absent" THEN "UNKNOWN" ELSE @]
    /\ reliability' = IF Exists(incident.failure)
                      THEN [reliability EXCEPT !.failures[incident.failure].test = t] ELSE reliability
    /\ incident' = [incident EXCEPT !.test = t]
    /\ UNCHANGED <<known, sandbox, experiment, made, raw, passed, proved>>

VerifyFix(c) ==
    /\ incident.box
    /\ incident.status \in {"VERIFYING", "LEARNED"} \/ CanGo(incident, "VERIFYING")
    /\ incident' = To(incident, "VERIFYING")
    /\ Await(c, [at |-> "suite", of |-> "fix", learned |-> incident.status = "LEARNED",
                 suite |-> Suite(incident.test)])
    /\ UNCHANGED <<reliability, tests, known, sandbox, experiment, made, raw, passed, proved>>

\* The answer is applied to whatever has become of the incident.
FixVerified(c, failing) ==
    /\ pending[c].at = "suite" /\ pending[c].of = "fix"
    /\ SuiteRun(pending[c].suite, failing)
    /\ incident' = IF ~SuitePassed(pending[c].suite, failing) THEN To(incident, "ROOT_CAUSE_FOUND")
                   ELSE IF pending[c].learned THEN incident
                   ELSE To(incident, "LEARNED")
    /\ Return(c)
    /\ UNCHANGED <<reliability, known, sandbox, experiment, made, raw, proved>>

\* upsertKnowledge takes no ESTABLISHED without evidence and verification.
StateOf(i, verification) == IF i.cause /\ i.evidence /\ verification THEN "ESTABLISHED" ELSE "SUPPORTED"

\* learnFromError; without a regression test the call fails, knowledge written.
Learn(c, verification) ==
    /\ Now(c) /\ incident.status = "LEARNED"
    /\ known' = StateOf(incident, verification)
    /\ incident' = IF incident.test # None THEN To(incident, "REGRESSION_LOCKED") ELSE incident
    /\ UNCHANGED <<reliability, tests, sandbox, experiment, made, raw, passed, proved>>

Escalate(c) ==
    /\ Now(c) /\ CanGo(incident, "ESCALATED")
    /\ incident' = To(incident, "ESCALATED")
    /\ UNCHANGED <<reliability, tests, known, sandbox, experiment, made, raw, passed, proved>>

\* The route's "transition": any step of the table, and then whatever the
\* caller's patch sets, the status included.
Transition(c, s, patch) ==
    /\ Now(c) /\ CanGo(incident, s)
    /\ incident' = Patched(To(incident, s), patch)
    /\ raw' = TRUE
    /\ UNCHANGED <<reliability, tests, known, sandbox, experiment, made, passed, proved>>

Next ==
    \E c \in Caller :
        \/ Investigate(c) \/ SandboxCreated(c) \/ SandboxStarted(c) \/ Refused(c)
        \/ FormHypothesis(c) \/ StartExperiment(c) \/ RecordEvidence(c) \/ FromFailure(c)
        \/ PrepareRecovery(c) \/ ExecuteRecovery(c) \/ Restored(c) \/ VerifyFix(c) \/ Escalate(c)
        \/ \E b \in BOOLEAN : SmokeDone(c, b) \/ Learn(c, b)
        \/ \E claims \in BOOLEAN : EstablishRootCause(c, claims)
        \/ \E f \in Failure, t \in Test \cup {None} : RecordFailure(c, f, t) \/ Resolve(c, f, t)
        \/ \E p \in Plan, b \in BOOLEAN : RecoveryPrepared(c, p, b) \/ VerifyRecovery(c, p, b)
        \/ \E p \in Plan, f \in {0} \cup Failure, box \in BOOLEAN, checkpoint \in BOOLEAN :
               Prepare(c, p, f, box, checkpoint)
        \/ \E failing \in SUBSET Test : PlanVerified(c, failing) \/ FixVerified(c, failing)
        \/ \E t \in Test : CreateRegressionTest(c, t)
        \/ \E s \in Status, patch \in Patch : Transition(c, s, patch)

Spec == Init /\ [][Next]_vars

----------------------------------------------------------------------------
(* Properties.                                                             *)

CauseKnown == {"ROOT_CAUSE_FOUND", "FIXING", "VERIFYING"} \cup Final

\* Unless the raw route was used, whatever calls overlap: an incident whose root
\* cause is found has evidence ("Root Cause ohne Evidenz ist unzulässig",
\* error-intelligence.ts:24), although verifyRecoveryForIncident puts back the
\* evidence it read before its await.
RootCauseHasEvidence == ~raw /\ incident.status \in CauseKnown => incident.evidence /\ incident.cause

\* Unless the raw route was used, what was learned has passed a test, and
\* knowledge counts as established only with evidence and a passed test
\* (verifyFix, learnFromError; knowledge.ts:71).
LearnedAfterPass ==
    /\ ~raw /\ incident.status \in Final => passed # {}
    /\ ~raw /\ known = "ESTABLISHED" => passed # {} /\ incident.evidence

\* Both, in whatever order the steps of two calls come.
LearnedIsFounded == RootCauseHasEvidence /\ LearnedAfterPass

\* Whatever a call read before an await and writes over newer records, whatever
\* the callers set of the incident: a plan is VERIFIED only after a smoke test
\* and a suite of at least one test passed for it ("Ohne bestandene Verifikation
\* ist der Status REJECTED", reliability.ts:23-24), and a failure is VERIFIED
\* only while a plan that names it is.
RecoveriesProved ==
    /\ \A p \in Plan : reliability.plans[p].state = "VERIFIED" => p \in proved
    /\ \A f \in Failure : reliability.failures[f].state = "VERIFIED" =>
           \E p \in Plan : reliability.plans[p].state = "VERIFIED" /\ reliability.plans[p].failure = f
=============================================================================
