------------------------------ MODULE MCHistory ------------------------------
(* What the system keeps for later and shares with nothing else: the initial  *)
(* state chooses the part that moves, among the parts of the run; the others  *)
(* stay as they begin.  The model values of the processes serve every part.   *)
EXTENDS Records

CONSTANTS
    Parts,                                \* the parts a run looks at
    Test, NoTest, OtherTests, Patch, MaxFailures, MaxPlans, DiagnosisCalls,    \* Incidents
    TravelRuns, TravelCalls,              \* Offline
    Module, Approval, InstallCalls,       \* Apps
    Commands, MaxChanges, MaxRestarts     \* Isolation

ASSUME HistoryAssumption == MaxFailures \in Nat /\ MaxPlans \in Nat

VARIABLES
    part,
    incident, reliability, tests, known, sandbox, experiment, pending,    \* Incidents
    recorded, raw, passed, proved,
    contents, backups, due,                                               \* Backups
    offline, exported, merged,                                            \* Offline
    file, copy, awaits, sandboxes, granted, registered, asked, overwrote, \* Apps
    setup, host, cache, command, cgroups, lacked, results, tally,         \* Isolation
    turns                                                                 \* calls of each of the four before

Diagnosis == INSTANCE Incidents WITH
                Caller <- Process, None <- NoTest, MaxCalls <- DiagnosisCalls, made <- recorded, calls <- turns
Saving == INSTANCE Backups WITH
             Store <- <<"workshop", "executions">>, MaxFiles <- 3, KeepPerStore <- 1, MaxCalls <- 6, calls <- turns,
             Extends <- [s \in {"workshop", "executions"} |-> IF s = "workshop" THEN {"executions"} ELSE {}]
Travel == INSTANCE Offline WITH Site <- Process, MaxRuns <- TravelRuns, MaxCalls <- TravelCalls, calls <- turns
Install == INSTANCE Apps WITH MaxCalls <- InstallCalls, calls <- turns
Guarding == INSTANCE Isolation WITH Caller <- Process, MaxRuns <- Commands, op <- command, nodes <- cgroups

diagnosisVars == <<incident, reliability, tests, known, sandbox, experiment, pending, recorded, raw, passed, proved>>
savingVars == <<contents, backups, due>>
travelVars == <<offline, exported, merged>>
installVars == <<file, copy, awaits, sandboxes, granted, registered, asked, overwrote>>
guardingVars == <<setup, host, cache, command, cgroups, lacked, results, tally>>
\* What callers set of an incident.
ASSUME PatchAssumption ==
    \A patch \in Patch : \A field \in DOMAIN patch : field \in DOMAIN Diagnosis!Field /\ patch[field] \in Diagnosis!Field[field]

\* What a root cause asks for; a task, with evidence taken away and the table left.
SomePatches == {
    [box |-> TRUE, hypothesis |-> TRUE, evidence |-> TRUE, cause |-> TRUE, failure |-> 1, plan |-> 1],
    [severe |-> TRUE, task |-> TRUE, place |-> TRUE, evidence |-> FALSE, status |-> "FIXING"]}

anyVars == <<part, vars, diagnosisVars, savingVars, travelVars, installVars, guardingVars, turns>>

AnyInit ==
    /\ part \in Parts \cap {"records", "incidents", "backups", "offline", "apps", "isolation"}
    /\ Init /\ (part = "records" \/ events = <<>>)
    /\ Diagnosis!Init /\ Saving!Init /\ Travel!Init /\ Install!Init
    /\ Guarding!Init
    /\ part # "isolation" => /\ setup = [isolation |-> "off", cgroup |-> FALSE, launcher |-> "none"]
                             /\ ~host.rootfs /\ ~host.userns

AnyNext ==
    /\ \/ part = "records" /\ Next /\ UNCHANGED <<diagnosisVars, savingVars, travelVars, installVars, guardingVars, turns>>
       \/ part = "incidents" /\ Diagnosis!Next /\ UNCHANGED <<vars, savingVars, travelVars, installVars, guardingVars>>
       \/ part = "backups" /\ Saving!Next /\ UNCHANGED <<vars, diagnosisVars, travelVars, installVars, guardingVars>>
       \/ part = "offline" /\ Travel!Next /\ UNCHANGED <<vars, diagnosisVars, savingVars, installVars, guardingVars>>
       \/ part = "apps" /\ Install!Next /\ UNCHANGED <<vars, diagnosisVars, savingVars, travelVars, guardingVars>>
       \/ part = "isolation" /\ Guarding!Next /\ UNCHANGED <<vars, diagnosisVars, savingVars, travelVars, installVars, turns>>
    /\ UNCHANGED part

AnySpec == AnyInit /\ [][AnyNext]_anyVars

AnySymmetry == Symmetry \cup Permutations(Module)

----------------------------------------------------------------------------
(* The properties of the parts.                                               *)

\* Incidents: no root cause without evidence, nothing learned without a test
\* that passed (error-intelligence.ts:296-306,440-470).
LearnedIsFounded == Diagnosis!LearnedIsFounded

\* Incidents: no plan or failure is VERIFIED without its tests, whatever stale
\* payload is written back (reliability.ts:170-237).
RecoveriesProved == Diagnosis!RecoveriesProved

\* Backups: the retention rule keeps the newest (backup-policy.ts:18-22).
PolicyKeepsNewest == Saving!PolicyKeepsNewest

\* Offline: nothing that was merged is forgotten (offline.ts:185-192).
NothingForgotten == Travel!NothingForgotten

\* Apps: a sandbox is asked for once for a registered module (apps.ts:57-70).
InstallsOnce == Install!AskedOnce

\* Isolation: what a result says of the isolation of its command held, whatever
\* has become of the host (ns-isolation.ts:391-398, 487-491, runtime-local.ts:310-315).
ClaimsHold == Guarding!ClaimsHold
==============================================================================
