----------------------------- MODULE Execution -----------------------------
(***************************************************************************)
(* The way of an execution to the runtime: execution-broker.ts with the    *)
(* gate (execution-gate.ts, policy.ts), the kill switches (governance.ts), *)
(* the lockdown (control-plane.ts), the approvals (approvals.ts) and the   *)
(* computers (computer-use.ts), over the tokens of CapabilityTokens.       *)
(*                                                                         *)
(* Each process runs one synchronous stretch of code at a time: from the   *)
(* checks of authorizeExecution to consumeCapabilityToken, or from the     *)
(* read of a payload to its write.  The steps of other processes come in   *)
(* between, its own do not; only the command itself is awaited (running).  *)
(*                                                                         *)
(* control-plane.ts and computer-use.ts read their store once, when they   *)
(* are loaded (plane, fleet of each process), and write their copy back    *)
(* whole; governance.ts and approvals.ts read and write the payload.       *)
(***************************************************************************)
EXTENDS CapabilityTokens

CONSTANTS
    Governing,     \* processes that serve the Creator's commands
    Agent, AssignedTo,      \* the agent of each task, a principal
    NeedsApproval,          \* tasks with requiresApproval or of risk HIGH
    Computer,
    Delegation,
    CentreId, ControlId,    \* approval ids: "APR-<8 hex>" and "APR-<counter>"
    MaxCommands,            \* bound on the commands given
    None

ASSUME ExecutionAssumption ==
    /\ Governing \subseteq Process /\ Agent \subseteq Principal
    /\ AssignedTo \in [Task -> Agent] /\ NeedsApproval \subseteq Task
    /\ CentreId \cap ControlId = {}

Switch == {"SYSTEM"} \cup Task \cup Agent

VARIABLES
    control, plane,     \* control state: on disk, and each process's copy
    computers, fleet,   \* the same for the computers
    governance,         \* kill switches that are on, delegations in force
    centre,             \* approvals of the approval centre
    thread,             \* what each process is in the middle of
    running,            \* executions awaited, by whom and on what computer
    pressed,            \* history: switches pressed and not released since
    commands

execVars == <<control, plane, computers, fleet, governance, centre, thread, running, pressed, commands>>
vars == <<tokenVars, execVars>>

Free == [at |-> "free"]
Idle(p) == thread[p] = Free /\ draft[p] = NoDraft

ExecInit ==
    /\ TokenInit
    /\ control = [locked |-> FALSE, granted |-> {}]
    /\ plane = [p \in Process |-> control]
    /\ computers = [c \in Computer |-> [authorized |-> FALSE, state |-> "AVAILABLE", task |-> None]]
    /\ fleet = [p \in Process |-> computers]
    /\ governance = [on |-> {}, delegations |-> Delegation]
    /\ centre = [a \in CentreId |-> "PENDING"]
    /\ thread = [p \in Process |-> Free]
    /\ running = {}
    /\ pressed = {}
    /\ commands = 0

----------------------------------------------------------------------------
(* The Creator's commands, each served by a governing process.  The guard  *)
(* of the routes refuses every call that changes something while SYSTEM is *)
(* on, the one that would switch it off included.                          *)

Admitted(p) == p \in Governing /\ Idle(p) /\ "SYSTEM" \notin governance.on
Command(p) == Admitted(p) /\ commands < MaxCommands /\ commands' = commands + 1

SetControl(p, state) == plane' = [plane EXCEPT ![p] = state] /\ control' = state
SetComputers(p, state) == fleet' = [fleet EXCEPT ![p] = state] /\ computers' = state

SetLockdown(p, locked) ==
    /\ Command(p)
    /\ SetControl(p, [plane[p] EXCEPT !.locked = locked])
    /\ UNCHANGED <<tokenVars, computers, fleet, governance, centre, thread, running, pressed>>

ResolveControl(p, a) ==    \* resolveApproval of the control plane, granting
    /\ Command(p) /\ a \notin plane[p].granted
    /\ SetControl(p, [plane[p] EXCEPT !.granted = @ \cup {a}])
    /\ UNCHANGED <<tokenVars, computers, fleet, governance, centre, thread, running, pressed>>

\* Variant: releasing one switch releases all.
WithSwitchAll(payload, s, on) == [payload EXCEPT !.on = IF on THEN @ \cup {s} ELSE {}]
WithSwitch(payload, s, on) == [payload EXCEPT !.on = IF on THEN @ \cup {s} ELSE @ \ {s}]

\* setKillSwitch, up to its write.
SwitchRead(p, s, on) ==
    /\ Command(p)
    /\ thread' = [thread EXCEPT ![p] =
           [at |-> "switch", payload |-> WithSwitch(governance, s, on), s |-> s, on |-> on]]
    /\ UNCHANGED <<tokenVars, control, plane, computers, fleet, governance, centre, running, pressed>>

SwitchWrite(p) ==
    /\ thread[p].at = "switch"
    /\ governance' = thread[p].payload
    /\ pressed' = IF thread[p].on THEN pressed \cup {thread[p].s} ELSE pressed \ {thread[p].s}
    /\ thread' = [thread EXCEPT ![p] = Free]
    /\ UNCHANGED <<tokenVars, control, plane, computers, fleet, centre, running, commands>>

\* revokeDelegation writes the switches it read along with the delegations.
DelegationRead(p, d) ==
    /\ Command(p) /\ d \in governance.delegations
    /\ thread' = [thread EXCEPT ![p] =
           [at |-> "delegation", payload |-> [governance EXCEPT !.delegations = @ \ {d}]]]
    /\ UNCHANGED <<tokenVars, control, plane, computers, fleet, governance, centre, running, pressed>>

DelegationWrite(p) ==
    /\ thread[p].at = "delegation"
    /\ governance' = thread[p].payload
    /\ thread' = [thread EXCEPT ![p] = Free]
    /\ UNCHANGED <<tokenVars, control, plane, computers, fleet, centre, running, pressed, commands>>

\* Variant: an approval may be decided again.
ResolveAgain(p, a, status) ==
    /\ Command(p)
    /\ thread' = [thread EXCEPT ![p] = [at |-> "resolve", payload |-> [centre EXCEPT ![a] = status]]]
    /\ UNCHANGED <<tokenVars, control, plane, computers, fleet, governance, centre, running, pressed>>

\* resolveApprovalRequest.
ResolveRead(p, a, status) ==
    /\ Command(p) /\ centre[a] = "PENDING"
    /\ thread' = [thread EXCEPT ![p] = [at |-> "resolve", payload |-> [centre EXCEPT ![a] = status]]]
    /\ UNCHANGED <<tokenVars, control, plane, computers, fleet, governance, centre, running, pressed>>

ResolveWrite(p) ==
    /\ thread[p].at = "resolve"
    /\ centre' = thread[p].payload
    /\ thread' = [thread EXCEPT ![p] = Free]
    /\ UNCHANGED <<tokenVars, control, plane, computers, fleet, governance, running, pressed, commands>>

AuthorizeComputer(p, c, authorized) ==
    /\ Command(p)
    /\ SetComputers(p, [fleet[p] EXCEPT ![c].authorized = authorized])
    /\ UNCHANGED <<tokenVars, control, plane, governance, centre, thread, running, pressed>>

AllocateComputer(p, c, task) ==
    /\ Command(p) /\ fleet[p][c].authorized /\ fleet[p][c].state = "AVAILABLE"
    /\ SetComputers(p, [fleet[p] EXCEPT ![c].state = "ALLOCATED", ![c].task = task])
    /\ UNCHANGED <<tokenVars, control, plane, governance, centre, thread, running, pressed>>

StartComputer(p, c) ==
    /\ Command(p) /\ fleet[p][c].state = "ALLOCATED"
    /\ SetComputers(p, [fleet[p] EXCEPT ![c].state = "EXECUTING"])
    /\ UNCHANGED <<tokenVars, control, plane, governance, centre, thread, running, pressed>>

\* RELEASED is final but for a completion that comes after it.
ReleaseComputer(p, c) ==
    /\ Command(p)
    /\ SetComputers(p, [fleet[p] EXCEPT ![c].state = "RELEASED", ![c].task = None])
    /\ UNCHANGED <<tokenVars, control, plane, governance, centre, thread, running, pressed>>

\* Tokens: issued by the Creator, and by the worker if there is none to reuse
\* (ensureExecutionCapability) or for a system run (executeSystemAuthorized).
CreatorIssues(p, t, task, max) ==
    /\ Admitted(p)
    /\ Issue(t, Creator, AssignedTo[task], task, Capability, 1, max)
    /\ UNCHANGED execVars

EnsureCapability(p, t, task) ==
    /\ Idle(p)
    /\ ~\E u \in Token : Valid(u, AssignedTo[task], task, Capability, 1)
    /\ Issue(t, Worker, AssignedTo[task], task, Capability, 1, 1)
    /\ UNCHANGED execVars

SystemCapability(p, t, task) ==
    /\ Idle(p)
    /\ Issue(t, Worker, AssignedTo[task], task, Capability, 1, 1)
    /\ UNCHANGED execVars

RevokeTokenRead(p, t) == Command(p) /\ RevokeRead(p, t)
    /\ UNCHANGED <<control, plane, computers, fleet, governance, centre, thread, running, pressed>>
RevokeTokenWrite(p) == RevokeWrite(p) /\ UNCHANGED execVars

Delegate(p, e) ==
    /\ Command(p)
    /\ AddEdge(e) \/ (edges[e] = "live" /\ RevokeEdge(e))
    /\ UNCHANGED <<control, plane, computers, fleet, governance, centre, thread, running, pressed>>

----------------------------------------------------------------------------
(* The broker.                                                             *)

Killed(task) == {"SYSTEM", task, AssignedTo[task]} \cap governance.on # {}

\* Variant: the gate does not ask for the task and the agent.
GateOpenSystem(p, task, approval) ==
    /\ ~plane[p].locked /\ "SYSTEM" \notin governance.on
    /\ task \in NeedsApproval => approval \in CentreId /\ centre[approval] = "GRANTED"

\* executionGate.
GateOpen(p, task, approval) ==
    /\ ~plane[p].locked /\ ~Killed(task)
    /\ task \in NeedsApproval => approval \in CentreId /\ centre[approval] = "GRANTED"

\* authorizeExecution: the broker looks the same approval up in the control
\* state, where no id of the approval centre occurs.
Authorized(p, t, task, caps, risk, approval) ==
    /\ Valid(t, AssignedTo[task], task, caps, risk)
    /\ GateOpen(p, task, approval)
    /\ task \in NeedsApproval => approval \in plane[p].granted

\* assertComputerBinding.
Bound(p, c, task) ==
    /\ fleet[p][c].authorized /\ fleet[p][c].task = task
    /\ fleet[p][c].state \in {"ALLOCATED", "EXECUTING"}

\* executeAuthorized and executeComputerAuthorized: checks 1 to 16, and the
\* claim of the computer, outside the denial's try.
Authorize(p, t, task, caps, risk, approval, c) ==
    /\ Idle(p) /\ Authorized(p, t, task, caps, risk, approval)
    /\ thread' = [thread EXCEPT ![p] = [at |-> "authorized", token |-> t, task |-> task, computer |-> c]]
    /\ \/ c = None /\ UNCHANGED <<computers, fleet>>
       \/ c # None /\ Bound(p, c, task) /\ SetComputers(p, [fleet[p] EXCEPT ![c].state = "EXECUTING"])
    /\ UNCHANGED <<tokenVars, control, plane, governance, centre, running, pressed, commands>>

Run(p) == [by |-> p, token |-> thread[p].token, task |-> thread[p].task,
           computer |-> thread[p].computer, use |-> tokens[thread[p].token].uses]

\* consumeTokenFor, and the start of the command.
Begin(p) ==
    /\ thread[p].at = "authorized"
    /\ Consume(thread[p].token)
    /\ running' = running \cup {Run(p)}
    /\ thread' = [thread EXCEPT ![p] = Free]
    /\ UNCHANGED <<control, plane, computers, fleet, governance, centre, pressed, commands>>

\* The token was used or revoked in between: the computer stays claimed.
Replayed(p) ==
    /\ thread[p].at = "authorized" /\ ~CanConsume(thread[p].token)
    /\ thread' = [thread EXCEPT ![p] = Free]
    /\ UNCHANGED <<tokenVars, control, plane, computers, fleet, governance, centre, running, pressed, commands>>

\* The command ends; completeComputerExecution looks at nothing.
Finish(r, ok) ==
    /\ r \in running /\ Idle(r.by)
    /\ running' = running \ {r}
    /\ \/ r.computer = None /\ UNCHANGED <<computers, fleet>>
       \/ /\ r.computer # None
          /\ SetComputers(r.by, [fleet[r.by] EXCEPT ![r.computer].task = None,
                 ![r.computer].state = IF ok THEN "AVAILABLE" ELSE "FAILED"])
    /\ UNCHANGED <<tokenVars, control, plane, governance, centre, thread, pressed, commands>>

\* A process dies and comes back: its copies are read afresh.
Restart(p) ==
    /\ plane' = [plane EXCEPT ![p] = control]
    /\ fleet' = [fleet EXCEPT ![p] = computers]
    /\ thread' = [thread EXCEPT ![p] = Free]
    /\ running' = {r \in running : r.by # p}
    /\ TokenForget(p)
    /\ UNCHANGED <<control, computers, governance, centre, pressed, commands>>

ExecNext ==
    \/ \E p \in Process :
        \/ SwitchWrite(p) \/ DelegationWrite(p) \/ ResolveWrite(p) \/ RevokeTokenWrite(p)
        \/ Begin(p) \/ Replayed(p) \/ Restart(p)
        \/ \E b \in BOOLEAN : SetLockdown(p, b) \/ \E s \in Switch : SwitchRead(p, s, b)
        \/ \E d \in Delegation : DelegationRead(p, d)
        \/ \E a \in CentreId, status \in {"GRANTED", "DENIED"} : ResolveRead(p, a, status)
        \/ \E a \in ControlId : ResolveControl(p, a)
        \/ \E c \in Computer :
            \/ StartComputer(p, c) \/ ReleaseComputer(p, c)
            \/ \E b \in BOOLEAN : AuthorizeComputer(p, c, b)
            \/ \E task \in Task : AllocateComputer(p, c, task)
        \/ \E e \in Edge : Delegate(p, e)
        \/ \E t \in Token :
            \/ RevokeTokenRead(p, t)
            \/ \E task \in Task :
                \/ EnsureCapability(p, t, task) \/ SystemCapability(p, t, task)
                \/ \E max \in 1..MaxUses : CreatorIssues(p, t, task, max)
            \/ \E task \in Task, a \in CentreId \cup ControlId \cup {None}, c \in Computer \cup {None} :
                   Authorize(p, t, task, Capability, 1, a, c)
    \/ \E r \in running, ok \in BOOLEAN : Finish(r, ok)
    \/ \E t \in Token : TokenExpires(t) /\ UNCHANGED execVars

ExecSpec == ExecInit /\ [][ExecNext]_vars

----------------------------------------------------------------------------
(* Properties.                                                             *)

Begins(p) == {r \in running' \ running : r.by = p}

\* Nothing begins in a process that serves the Creator once it has confirmed a
\* lockdown or a kill switch for the task or its agent, although the checks
\* and the start are apart and other processes write in between
\* (executeAuthorized has no await before the command).
StopHolds ==
    [][\A p \in Governing : \A r \in Begins(p) :
        ~plane[p].locked /\ {"SYSTEM", r.task, AssignedTo[r.task]} \cap pressed = {}]_vars

\* A switch that was pressed stays on until it is released, whatever else is
\* written to the governance store (governance.ts:12).
SwitchesHold == pressed \subseteq governance.on

\* A decision on an approval is never taken back or replaced (approvals.ts:15).
DecisionsFinal == [][\A a \in CentreId : centre[a] # "PENDING" => centre'[a] = centre[a]]_vars
==============================================================================
