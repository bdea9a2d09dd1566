------------------------------- MODULE MCFleet -------------------------------
(* The registers that share no state, checked in one run: the initial state   *)
(* chooses the part that moves, the others stay as they begin.  The model     *)
(* values of the callers stand for the processes of every part, and those of  *)
(* the sandboxes for the tasks and the experiments.                           *)
EXTENDS Sandboxes

CONSTANTS
    MaxDevice, MaxSize, DeviceCalls,    \* Devices
    MaxNew, PlaneCalls,                 \* ControlPlane
    MaxRecords, TrialCalls,             \* Science
    Provider, ProviderCalls             \* Providers

VARIABLES
    part,
    fleet, arrays, holders, decided, lost,    \* Devices
    plane, copies, past,                      \* ControlPlane
    science, read, begun, patched,            \* Science
    fabric, request, overlapped,              \* Providers
    calls                                     \* of each of these

Fleet == INSTANCE Devices WITH Process <- Caller, Task <- Box, MaxCalls <- DeviceCalls
Control == INSTANCE ControlPlane WITH Process <- Caller, MaxCalls <- PlaneCalls
Lab == INSTANCE Science WITH Process <- Caller, Experiment <- Box, MaxCalls <- TrialCalls
Remote == INSTANCE Providers WITH Process <- Caller, MaxCalls <- ProviderCalls

sandboxVars == <<mode, record, box, place, taken, kept, listed, op, made, blurred>>
deviceVars == <<fleet, arrays, holders, decided, lost>>
planeVars == <<plane, copies, past>>
labVars == <<science, read, begun, patched>>
remoteVars == <<fabric, request, overlapped>>
anyVars == <<part, sandboxVars, deviceVars, planeVars, labVars, remoteVars, calls>>

AnyInit ==
    /\ part \in {"sandboxes", "devices", "control plane", "science", "providers"}
    /\ Init /\ (part = "sandboxes" \/ mode = "local")
    /\ Fleet!Init /\ Control!Init /\ Lab!Init /\ (part = "science" \/ begun = {})
    /\ Remote!Init

AnyNext ==
    /\ \/ part = "sandboxes" /\ Next /\ UNCHANGED <<deviceVars, planeVars, labVars, remoteVars, calls>>
       \/ part = "devices" /\ Fleet!Next /\ UNCHANGED <<sandboxVars, planeVars, labVars, remoteVars>>
       \/ part = "control plane" /\ Control!Next /\ UNCHANGED <<sandboxVars, deviceVars, labVars, remoteVars>>
       \/ part = "science" /\ Lab!Next /\ UNCHANGED <<sandboxVars, deviceVars, planeVars, remoteVars>>
       \/ part = "providers" /\ Remote!Next /\ UNCHANGED <<sandboxVars, deviceVars, planeVars, labVars>>
    /\ UNCHANGED part

AnySpec == AnyInit /\ [][AnyNext]_anyVars

----------------------------------------------------------------------------
(* The properties of the parts.                                               *)

\* Devices: a device works for one task at a time (devices.ts:28-29).
OneHolder == Fleet!OneHolder

\* ControlPlane: the guardian asks once at a time (control-plane.ts:624).
AskedOnce == Control!AskedOnce

\* ControlPlane: the tasks of a plan belong to its objective (plans.ts:53-55).
PlansHold == Control!PlansHold

\* Science: what is established is earned, but for what a request patched of it
\* (science.ts:14-17, 188-194).
EarnedUnlessPatched == Lab!EarnedUnlessPatched

\* Providers: a bound provider is enabled (provider-fabric.ts:169-188).
BoundIsEnabled == Remote!BoundIsEnabled
==============================================================================
