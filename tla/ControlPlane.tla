---------------------------- MODULE ControlPlane ----------------------------
(***************************************************************************)
(* Missions, objectives, tasks, approvals and agents of the control plane  *)
(* (control-plane.ts), the policy of its guardian (policy.ts), the plans   *)
(* (plans.ts), and their routes.                                           *)
(*                                                                         *)
(* A process reads the state once, when the module is loaded.  A call      *)
(* changes that copy and then persist() writes it whole, whatever the      *)
(* store says by then; when the write throws, the caller gets an error and *)
(* the copy keeps the change.  Each call is synchronous.                   *)
(*                                                                         *)
(* The ids of a kind are counted up, and the counter is part of the state: *)
(* in one copy the n-th record of a kind has the id n.  Titles, progress   *)
(* and agents are left out, as are the sandboxes (module Sandboxes) and    *)
(* the experiments (module Science).                                       *)
(***************************************************************************)
EXTENDS Naturals, Sequences, FiniteSets, TLC

CONSTANTS
    Process,
    MaxCalls,      \* bound
    MaxNew         \* bound: records of a kind that are added to the seed

VARIABLES
    plane,      \* the stores "control-state" and "plans", and the revision of the former
    copies,     \* of each process: its copy and the revision it goes back to
    calls,
    past        \* history: .lost when a process wrote over what another had written, .failed when a write threw

vars == <<plane, copies, calls, past>>

Risk == {"LOW", "HIGH", "CRITICAL"}
TaskStatus == {"PLANNING", "QUEUED", "RUNNING", "APPROVAL_REQUIRED", "BLOCKED", "COMPLETED"}

\* The policy treats a task that requires an approval as it treats a HIGH risk:
\* HIGH stands for both.
Task(objective, risk, status) == [objective |-> objective, risk |-> risk, status |-> status]

Seed == [missions |-> 2, objectives |-> <<1, 1, 2>>,    \* of each objective its mission
         tasks |-> <<Task(1, "LOW", "RUNNING"), Task(3, "HIGH", "APPROVAL_REQUIRED"), Task(2, "LOW", "PLANNING")>>,
         approvals |-> <<[task |-> 2, status |-> "PENDING"]>>,
         locked |-> FALSE]

Init ==
    /\ plane = [state |-> Seed, plans |-> <<>>, revision |-> 0]
    /\ copies = [p \in Process |-> [state |-> Seed, revision |-> 0]]
    /\ calls = 0 /\ past = [lost |-> FALSE, failed |-> FALSE]

\* A call leaves the state new in the copy of process p; persist() writes it
\* (the revision goes up by one, unconditionally) or throws.
Call == calls < MaxCalls /\ calls' = calls + 1
Written(p, new) ==
    /\ plane' = [plane EXCEPT !.state = new, !.revision = @ + 1]
    /\ copies' = [copies EXCEPT ![p] = [state |-> new, revision |-> plane.revision + 1]]
    /\ past' = [past EXCEPT !.lost = @ \/ copies[p].revision # plane.revision]
Thrown(p, new) ==
    /\ copies' = [copies EXCEPT ![p].state = new]
    /\ past' = [past EXCEPT !.failed = TRUE]
    /\ UNCHANGED plane
Persist(p, new) == Call /\ (Written(p, new) \/ Thrown(p, new))

----------------------------------------------------------------------------
CreateMission(p) ==
    LET s == copies[p].state IN
    s.missions < 2 + MaxNew /\ Persist(p, [s EXCEPT !.missions = @ + 1])

CreateObjective(p, mission) ==
    LET s == copies[p].state IN
    mission <= s.missions /\ Len(s.objectives) < 3 + MaxNew /\ Persist(p, [s EXCEPT !.objectives = Append(@, mission)])

\* The objective of a task has to exist, not to belong to its mission.
CreateTask(p, objective, risk) ==
    LET s == copies[p].state IN
    /\ objective <= Len(s.objectives) /\ Len(s.tasks) < 3 + MaxNew
    /\ Persist(p, [s EXCEPT !.tasks = Append(@, Task(objective, risk, "PLANNING"))])

\* assignTask queues the task whatever it was; updateTaskStatus, by the
\* Creator, the task's agent or the worker, sets any status.  To the guardian
\* QUEUED, RUNNING and COMPLETED are the same: COMPLETED stands for them.
SetStatus(p, t, status) ==
    /\ t \in DOMAIN copies[p].state.tasks
    /\ Persist(p, [copies[p].state EXCEPT !.tasks[t].status = status])

Pending(s, t) == \E i \in DOMAIN s.approvals : s.approvals[i] = [task |-> t, status |-> "PENDING"]

\* requestApproval, which only the guardian calls.
Requested(s, t) ==
    [s EXCEPT !.approvals = Append(@, [task |-> t, status |-> "PENDING"]), !.tasks[t].status = "APPROVAL_REQUIRED"]

EvaluateTask(task) == CASE task.risk = "CRITICAL" -> "DENY" [] task.risk = "HIGH" -> "REQUIRE_APPROVAL" [] OTHER -> "ALLOW"

AsksAlways(s, t) == EvaluateTask(s.tasks[t]) = "REQUIRE_APPROVAL"    \* mutant: asks whether or not it has asked
Asks(s, t) == EvaluateTask(s.tasks[t]) = "REQUIRE_APPROVAL" /\ ~Pending(s, t)

\* runGuardian, from the route without a task: it takes the first one that is
\* planned or waits for an approval.  A task it allows stays where it is, and
\* is the first one the next time too.
Guardian(p) ==
    LET s == copies[p].state
        waiting == {t \in DOMAIN s.tasks : s.tasks[t].status \in {"APPROVAL_REQUIRED", "PLANNING"}} IN
    /\ ~s.locked
    /\ \E t \in waiting :
          /\ \A u \in waiting : t <= u
          /\ \/ EvaluateTask(s.tasks[t]) = "DENY" /\ Persist(p, [s EXCEPT !.tasks[t].status = "BLOCKED"])
             \/ Asks(s, t) /\ Persist(p, Requested(s, t))

CanResolve(s, a) == a \in DOMAIN s.approvals /\ s.approvals[a].status = "PENDING"

\* resolveApproval moves the task whatever it has become in the meantime.
Resolve(p, a, grant) ==
    LET s == copies[p].state IN
    /\ CanResolve(s, a)
    /\ Persist(p, [s EXCEPT !.approvals[a].status = IF grant THEN "GRANTED" ELSE "DENIED",
                            !.tasks[s.approvals[a].task].status = IF grant THEN "QUEUED" ELSE "BLOCKED"])

\* setLockdown, without the status it gives every agent; updateAgentStatus
\* gives an agent another one, locked or not: the copy is written all the same.
SetLockdown(p, locked) == Persist(p, [copies[p].state EXCEPT !.locked = locked])
UpdateAgentStatus(p) == Persist(p, copies[p].state)

----------------------------------------------------------------------------
\* createPlan asks the copy of its process and updates the store of the plans.
FitsExists(s, objective, tasks) == objective \in DOMAIN s.objectives /\ tasks \subseteq DOMAIN s.tasks    \* mutant: not asked whose tasks they are
Fits(s, objective, tasks) ==
    /\ objective \in DOMAIN s.objectives
    /\ tasks \subseteq {t \in DOMAIN s.tasks : s.tasks[t].objective = objective}

CreatePlan(p, objective, tasks) ==
    /\ Call /\ Len(plane.plans) < MaxNew /\ tasks # {} /\ Fits(copies[p].state, objective, tasks)
    /\ plane' = [plane EXCEPT !.plans = Append(@, [objective |-> objective, tasks |-> tasks, active |-> FALSE])]
    /\ UNCHANGED <<copies, past>>

ActivatePlan(i) ==
    /\ Call /\ i \in DOMAIN plane.plans /\ ~plane.plans[i].active
    /\ plane' = [plane EXCEPT !.plans[i].active = TRUE]
    /\ UNCHANGED <<copies, past>>

\* A process ends and begins anew.
Restart(p) ==
    /\ copies[p] # [state |-> plane.state, revision |-> plane.revision]
    /\ copies' = [copies EXCEPT ![p] = [state |-> plane.state, revision |-> plane.revision]]
    /\ UNCHANGED <<plane, calls, past>>

Next ==
    \/ \E i \in DOMAIN plane.plans : ActivatePlan(i)
    \/ \E p \in Process :
          \/ CreateMission(p) \/ Guardian(p) \/ UpdateAgentStatus(p) \/ Restart(p)
          \/ CreateObjective(p, copies[p].state.missions)
          \/ \E risk \in Risk : CreateTask(p, 1, risk)
          \/ \E t \in 2..(3 + MaxNew), status \in {"APPROVAL_REQUIRED", "COMPLETED"} : SetStatus(p, t, status)
          \/ \E a \in DOMAIN copies[p].state.approvals, grant \in BOOLEAN : Resolve(p, a, grant)
          \/ \E locked \in BOOLEAN : SetLockdown(p, locked)
          \/ \E tasks \in {{1, 4}, {1, 2}} : CreatePlan(p, 1, tasks)

Spec == Init /\ [][Next]_vars

Symmetry == Permutations(Process)

----------------------------------------------------------------------------
(* Properties.                                                             *)

States == {plane.state} \cup {copies[p].state : p \in Process}

\* The guardian asks for an approval once at a time and never for a critical
\* task (control-plane.ts:624, policy.ts:6): whatever is assigned, answered or
\* restarted in between, and in a copy that is out of date too.
AskedOnce ==
    \A s \in States : \A i, j \in DOMAIN s.approvals :
       /\ s.tasks[s.approvals[i].task].risk # "CRITICAL"
       /\ i # j /\ s.approvals[i].status = "PENDING" => s.approvals[j] # s.approvals[i]

\* The tasks of a plan exist and belong to the plan's objective (plans.ts:53-55),
\* unless a process wrote over another's change, or a write threw: then the
\* plan may name a task that was never written.
PlansHold ==
    past.lost \/ past.failed \/
    \A i \in DOMAIN plane.plans : \A t \in plane.plans[i].tasks :
       t \in DOMAIN plane.state.tasks /\ plane.state.tasks[t].objective = plane.plans[i].objective
=============================================================================
