------------------------------ MODULE Devices ------------------------------
(***************************************************************************)
(* The device fleet (devices.ts) and its route (app/api/devices/route.ts). *)
(*                                                                         *)
(* A process reads the devices once, when the module is loaded; it changes *)
(* its own array and persist() writes the whole array, whatever the store  *)
(* says by then.  Each call is synchronous.                                *)
(*                                                                         *)
(* A device is a number, in the order localeCompare gives the ids; device  *)
(* 1 is the seed DEV-LOCAL.  Of its cpu and memory size remains, of its    *)
(* capabilities whether it has the ones that are asked for.                *)
(***************************************************************************)
EXTENDS Naturals, FiniteSets, TLC

CONSTANTS
    Process,
    MaxDevice,     \* number of devices
    MaxSize,       \* cpu and memory
    Task,
    MaxCalls       \* bound

Device == 1..MaxDevice

VARIABLES
    fleet,      \* the store "devices"
    arrays,     \* the array of each process
    calls,
    holders,    \* history: tasks that were given the device and did not release it
    decided,    \* history: the Creator's last decision about the device
    lost        \* history: a process wrote over what another had written

vars == <<fleet, arrays, calls, holders, decided, lost>>

Trust == {"WORKING", "OBSERVATION_ONLY"}
Absent == [state |-> "UNKNOWN", authorized |-> FALSE, trust |-> "WORKING", size |-> 1, able |-> FALSE]
Seed == [d \in Device |-> IF d = 1 THEN [state |-> "AVAILABLE", authorized |-> TRUE, trust |-> "WORKING", size |-> MaxSize, able |-> TRUE]
                          ELSE Absent]

TypeOK ==
    /\ {fleet} \cup {arrays[p] : p \in Process} \subseteq
         [Device -> [state : {"UNKNOWN", "DISCOVERED", "AUTHORIZED", "AVAILABLE", "ALLOCATED", "RELEASED"}, authorized : BOOLEAN,
                     trust : Trust, size : 1..MaxSize, able : BOOLEAN]]
    /\ holders \in [Device -> SUBSET Task] /\ decided \in [Device -> BOOLEAN] /\ lost \in BOOLEAN

Init ==
    /\ fleet = Seed /\ arrays = [p \in Process |-> Seed] /\ calls = 0
    /\ holders = [d \in Device |-> {}] /\ decided = [d \in Device |-> d = 1] /\ lost = FALSE

Has(p, d) == arrays[p][d].state # "UNKNOWN"

\* A call of process p changes its array, and persist() writes that.
Change(p, d, device) ==
    /\ calls < MaxCalls /\ calls' = calls + 1
    /\ arrays' = [arrays EXCEPT ![p][d] = device]
    /\ fleet' = arrays'[p]
    /\ lost' = (lost \/ fleet # arrays[p])

----------------------------------------------------------------------------
\* A device that is there is not discovered again: the call only answers.
\* Whatever the report says, it is neither authorized nor in another state.
Discover(p, d, trust, size, able) ==
    /\ ~Has(p, d)
    /\ Change(p, d, [state |-> "DISCOVERED", authorized |-> FALSE, trust |-> trust, size |-> size, able |-> able])
    /\ UNCHANGED <<holders, decided>>

AuthorizedState(state, yes) == IF yes THEN "AUTHORIZED" ELSE "RELEASED"    \* mutant: whatever the state was
DecidedState(state, yes) == IF state = "DISCOVERED" THEN (IF yes THEN "AUTHORIZED" ELSE "RELEASED") ELSE state

\* authorizeDevice: the state follows only once; a device that works goes on.
Authorize(p, d, yes) ==
    /\ Has(p, d)
    /\ Change(p, d, [arrays[p][d] EXCEPT !.state = DecidedState(@, yes), !.authorized = yes])
    /\ decided' = [decided EXCEPT ![d] = yes]
    /\ UNCHANGED holders

Free(device) == device.authorized /\ device.state \in {"AUTHORIZED", "AVAILABLE"}

Allocate(p, d, task) ==
    /\ Has(p, d) /\ Free(arrays[p][d])
    /\ Change(p, d, [arrays[p][d] EXCEPT !.state = "ALLOCATED"])
    /\ holders' = [holders EXCEPT ![d] = @ \cup {task}]
    /\ UNCHANGED decided

\* scheduleDevice: of the devices that are free and meet the requirements the
\* one with the lowest score, of these the first by id.
Fits(device, size, able) == Free(device) /\ device.size >= size /\ (able => device.able)
Score(device, size) == (IF device.state = "AVAILABLE" THEN 0 ELSE MaxSize + 1) + device.size - size

Schedule(p, task, size, able) ==
    LET fitting == {d \in Device : Fits(arrays[p][d], size, able)}
        score(d) == Score(arrays[p][d], size) IN
    \E d \in fitting :
       /\ \A e \in fitting : score(d) < score(e) \/ (score(d) = score(e) /\ d <= e)
       /\ Allocate(p, d, task)

\* releaseDevice: of any device, in any state; nothing makes it AVAILABLE again.
Release(p, d) ==
    /\ Has(p, d)
    /\ Change(p, d, [arrays[p][d] EXCEPT !.state = "RELEASED"])
    /\ holders' = [holders EXCEPT ![d] = {}]
    /\ UNCHANGED decided

\* heartbeatDevice takes over the reported capabilities.
Heartbeat(p, d, able) ==
    /\ Has(p, d)
    /\ Change(p, d, [arrays[p][d] EXCEPT !.able = able])
    /\ UNCHANGED <<holders, decided>>

\* A process ends and begins anew.
Restart(p) ==
    /\ arrays[p] # fleet
    /\ arrays' = [arrays EXCEPT ![p] = fleet]
    /\ UNCHANGED <<fleet, calls, holders, decided, lost>>

Next ==
    \E p \in Process :
       \/ Restart(p)
       \/ \E task \in Task, size \in 1..MaxSize, able \in BOOLEAN : Schedule(p, task, size, able)
       \/ \E d \in Device :
             \/ Release(p, d)
             \/ \E trust \in Trust, size \in 1..MaxSize, able \in BOOLEAN : Discover(p, d, trust, size, able)
             \/ \E yes \in BOOLEAN : Authorize(p, d, yes) \/ Heartbeat(p, d, yes)
             \/ \E task \in Task : Allocate(p, d, task)

Spec == Init /\ [][Next]_vars

Symmetry == Permutations(Process) \cup Permutations(Task)

----------------------------------------------------------------------------
(* Properties.                                                             *)

\* A device works for one task at a time, whatever is decided about it while
\* it works (devices.ts:28-29); unless a process has written over another's
\* change.
OneHolder == lost \/ \A d \in Device : Cardinality(holders[d]) <= 1

\* What the store says about a device is what the Creator decided last: no
\* report, heartbeat, allocation, release or restart changes it ("Discovery #
\* Autorisierung", devices.ts:14-28), unless a process has written over
\* another's change.
DecisionsKept == lost \/ \A d \in Device : fleet[d].authorized = decided[d]

==============================================================================
