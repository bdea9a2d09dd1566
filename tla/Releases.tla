------------------------------ MODULE Releases ------------------------------
(***************************************************************************)
(* Release slots, pipelines and deployments (release.ts, cicd.ts,          *)
(* promotion.ts, deployment.ts, app/api/deployment/route.ts), the process  *)
(* that serves them (server.mjs, shutdown.ts) and the script that replaces *)
(* it (release-supervisor.sh).                                             *)
(*                                                                         *)
(* Requests of the one server await the health checks of a deployment or   *)
(* of a rollback (op); the supervisor is a process of its own that moves   *)
(* the same pointer.                                                       *)
(***************************************************************************)
EXTENDS Naturals, FiniteSets, FiniteSetsExt

CONSTANTS
    Caller, Build,    \* requests in flight; build ids
    SourceBuild,      \* the build of the source tree the first server runs from
    MaxReleases, MaxDeployments,   \* bounds on the records
    MaxCalls, MaxRulings,          \* bounds on the steps from outside; on those of them by CI and governance
    Switches          \* kinds of kill switch pressed: "SYSTEM", "pipeline", "release", "deployment"

ASSUME ReleaseAssumption ==
    /\ {MaxReleases, MaxDeployments, MaxCalls, MaxRulings} \subseteq Nat
    /\ SourceBuild \in Build

Release == 1..MaxReleases    \* release ids sort by the time of their preparation
Deployment == 1..MaxDeployments
None == 0
Source == MaxReleases + 1    \* the source tree, as a place to start from
System == <<"SYSTEM", 0>>
Target == ({"SYSTEM", "pipeline"} \X {0}) \cup ({"release"} \X Release) \cup ({"deployment"} \X Deployment)

VARIABLES
    slot,        \* of each release: the state of its directory and its build
    current,     \* where the symlink "current" points
    server,      \* the process on the port: the slot it was started from, and whether it drains
    pipeline,    \* the one pipeline: its stage, its checks by class
    granted,     \* approvals granted: "deployment", "pipeline"
    killed, locked,   \* kill switches on; system lockdown
    dep,         \* the deployment records; one that is not REJECTED names the pipeline
    op,          \* of each caller: the deployment or rollback whose health checks it awaits
    sup,         \* the supervisor script
    calls, rulings,   \* steps so far
    raced        \* history: a slot was pruned or damaged while somebody was about to use it

vars == <<slot, current, server, pipeline, granted, killed, locked, dep, op, sup, calls, rulings, raced>>
world == <<pipeline, granted, killed, locked>>

Check == {"mandatory", "optional", "SMOKE"}    \* LINT..BUILD; BROWSER and EVALUATION; SMOKE
Stage == {"BRANCH", "STAGING", "SMOKE", "PRODUCTION", "ROLLED_BACK"}
Ended == {"REJECTED", "ROLLED_BACK"}

NoDeployment == [state |-> "absent", release |-> None, from |-> None]
Free == [at |-> "free"]
Idle == [at |-> "idle"]
Down == [from |-> None, draining |-> FALSE]

Present(r) == slot[r].state # "absent"
Intact(r) == slot[r].state = "ready"                       \* verifyRelease
Readable(r) == slot[r].state \in {"ready", "changed"}      \* readManifest
Listable == \A r \in Release : Present(r) => Readable(r)   \* listReleases
InFlight == {c \in Caller : op[c] # Free}
Used == {op[c].release : c \in InFlight} \cup (IF sup = Idle THEN {} ELSE {sup.release, sup.previous})

\* Releases, pipeline and approvals may have been prepared before.
Prepared == {[stage |-> "STAGING", checks |-> [k \in Check |-> IF k = "mandatory" THEN "PASSED" ELSE "SKIPPED"]],
             [stage |-> "SMOKE", checks |-> [k \in Check |-> "PASSED"]]}
Init ==
    /\ \E n \in 0..MaxReleases, b \in [Release -> Build] :
          slot = [r \in Release |-> IF r <= n THEN [state |-> "ready", build |-> b[r]]
                                    ELSE [state |-> "absent", build |-> None]]
    /\ current = None
    /\ server = [from |-> Source, draining |-> FALSE]
    /\ pipeline \in Prepared
    /\ granted \in {{}, {"deployment", "pipeline"}} /\ killed = {} /\ locked = FALSE
    /\ dep = [d \in Deployment |-> NoDeployment]
    /\ op = [c \in Caller |-> Free] /\ sup = Idle
    /\ calls = 0 /\ rulings = 0 /\ raced = FALSE

Outside == calls < MaxCalls /\ calls' = calls + 1 /\ UNCHANGED rulings
\* A request the server takes: a draining one answers 503 (guardOrDeny).
Up == server.from # None /\ ~server.draining
Request == Up /\ Outside
Ruling == Up /\ rulings < MaxRulings /\ rulings' = rulings + 1 /\ calls < MaxCalls /\ calls' = calls + 1

----------------------------------------------------------------------------
(* Pipelines, approvals, switches.                                         *)

Promoted(p, stage) ==
    IF stage = "PRODUCTION" /\ (p.stage # "SMOKE" \/ \E k \in Check : p.checks[k] # "PASSED")
    THEN p ELSE [p EXCEPT !.stage = stage]

Ci ==
    /\ Ruling
    /\ \/ \E s \in Stage : pipeline' = Promoted(pipeline, s)
       \/ \E k \in Check, v \in {"open", "PASSED", "SKIPPED"} : pipeline' = [pipeline EXCEPT !.checks[k] = v]
    /\ pipeline' # pipeline
    /\ UNCHANGED <<slot, current, server, granted, killed, locked, dep, op, sup, raced>>

Govern ==
    /\ Ruling
    /\ \/ \E a \in {"deployment", "pipeline"} \ granted : granted' = granted \cup {a} /\ UNCHANGED <<killed, locked>>
       \/ \E k \in Target \ killed :
             k[1] \in Switches /\
             killed' = killed \cup {k}
             /\ UNCHANGED <<granted, locked>>
       \/ \E k \in killed : killed' = killed \ {k} /\ UNCHANGED <<granted, locked>>
       \/ locked' = ~locked /\ UNCHANGED <<granted, killed>>
    /\ UNCHANGED <<slot, current, server, pipeline, dep, op, sup, raced>>

IsKilled(target) == killed \cap {System, target} # {}

----------------------------------------------------------------------------
(* Slots.                                                                  *)

\* A slot is filled file by file; the process may die before the manifest is
\* written, or refuse the slot when the source changed meanwhile.
Prepare ==
    /\ Request
    /\ \E r \in Release, b \in Build :
          /\ r = 1 + Max({0} \cup {s \in Release : Present(s)})
          /\ \/ slot' = [slot EXCEPT ![r] = [state |-> "ready", build |-> b]] /\ UNCHANGED <<server, op>>
             \/ /\ slot' = [slot EXCEPT ![r] = [state |-> "partial", build |-> b]]
                /\ server' = Down /\ op' = [c \in Caller |-> Free]
    /\ UNCHANGED <<current, world, dep, sup, raced>>

Kept == IF current = None THEN {} ELSE {current}
Pruned(keep) == LET candidates == {r \in Release : Present(r)} \ Kept
                IN {r \in candidates : Cardinality({s \in candidates : s >= r}) > keep}
Prune ==
    /\ Request
    /\ \E keep \in 1..MaxReleases :
          /\ Pruned(keep) # {}
          /\ slot' = [r \in Release |-> IF r \in Pruned(keep) THEN [state |-> "absent", build |-> None] ELSE slot[r]]
          /\ raced' = (raced \/ Pruned(keep) \cap Used # {})
    /\ UNCHANGED <<current, server, world, dep, op, sup>>

\* Somebody changes a file of a slot, other than its BUILD_ID.
Damage ==
    /\ Outside
    /\ \E r \in Release : Intact(r) /\ slot' = [slot EXCEPT ![r].state = "changed"]
                          /\ raced' = (raced \/ r \in Used)
    /\ UNCHANGED <<current, server, world, dep, op, sup>>

----------------------------------------------------------------------------
(* Deployments.                                                            *)

\* runningBuildId: read from the directory the process was started in.
RunningBuild == IF server.from = Source THEN SourceBuild
                ELSE IF server.from \in Release THEN slot[server.from].build ELSE None
SameBuild(r) == RunningBuild # None /\ RunningBuild = slot[r].build
ServesBuild(r) == SameBuild(r)    \* mutant: the same build is enough
Serves(r) == SameBuild(r) /\ server.from = r    \* runningState

StagingGate == pipeline.stage \in {"STAGING", "SMOKE"} /\ pipeline.checks["mandatory"] = "PASSED"
               /\ \A k \in Check : pipeline.checks[k] # "open"
PromotionGate == ~IsKilled(<<"pipeline", 0>>) /\ pipeline.stage = "SMOKE" /\ "pipeline" \in granted
                 /\ \A k \in Check \ {"SMOKE"} : pipeline.checks[k] = "PASSED"
PlanAllowsChanged(r, target, piped, approved) ==    \* mutant: the digest is not recomputed
    /\ Readable(r) /\ ~IsKilled(<<"release", r>>) /\ ~locked
    /\ piped /\ IF target = "PRODUCTION" THEN PromotionGate ELSE StagingGate
    /\ approved /\ "deployment" \in granted
PlanAllows(r, target, piped, approved) ==
    /\ Intact(r)
    /\ ~IsKilled(<<"release", r>>) /\ ~locked
    /\ piped /\ IF target = "PRODUCTION" THEN PromotionGate ELSE StagingGate
    /\ approved /\ "deployment" \in granted

Begun(allowed) == IF allowed THEN "HEALTH_CHECKING" ELSE "REJECTED"
Deploy(c) ==
    /\ Request /\ op[c] = Free
    /\ \E d \in Deployment, r \in Release, target \in {"STAGING", "PRODUCTION"}, piped, approved \in BOOLEAN :
          /\ dep[d].state = "absent" /\ \A e \in Deployment : e < d => dep[e].state # "absent"
          /\ LET allowed == PlanAllows(r, target, piped, approved) IN
             /\ dep' = [dep EXCEPT ![d] = [state |-> Begun(allowed), release |-> r, from |-> current]]
             /\ op' = IF allowed THEN [op EXCEPT ![c] = [at |-> "deploying", dep |-> d, release |-> r]] ELSE op
    /\ UNCHANGED <<slot, current, server, world, sup, raced>>

\* After the health checks: the slot may have gone meanwhile (the record stays
\* HEALTH_CHECKING); switches, approval and digest are not asked again.
Deployed(c) ==
    /\ op[c].at = "deploying" /\ server.from # None
    /\ LET d == op[c].dep r == op[c].release IN
       \/ dep' = [dep EXCEPT ![d].state = "FAILED"] /\ UNCHANGED <<current, pipeline>>
       \/ ~Present(r) /\ UNCHANGED <<current, dep, pipeline>>
       \/ /\ Present(r)
          /\ current' = r
          /\ dep' = [dep EXCEPT ![d].state = IF Serves(r) THEN "ACTIVE" ELSE "STAGED"]
          /\ pipeline' = IF Serves(r) THEN Promoted(pipeline, "PRODUCTION") ELSE pipeline
    /\ op' = [op EXCEPT ![c] = Free]
    /\ UNCHANGED <<slot, server, granted, killed, locked, sup, calls, rulings, raced>>

VerifiedAgain(d) ==    \* mutant: an ended deployment is measured again
    IF Serves(dep[d].release) /\ current = dep[d].release THEN "ACTIVE" ELSE "STAGED"
Verified(d) ==
    LET r == dep[d].release IN
    IF dep[d].state \in Ended \/ ~Readable(r) THEN dep[d].state
    ELSE IF current # r /\ dep[d].state = "ACTIVE" THEN "ROLLED_BACK"
    ELSE IF Serves(r) /\ current = r THEN "ACTIVE" ELSE "STAGED"
Verify ==
    /\ Request
    /\ \E d \in Deployment : dep[d].state # "absent" /\ dep' = [dep EXCEPT ![d].state = Verified(d)]
    /\ UNCHANGED <<slot, current, server, world, op, sup, raced>>

CanRollback(d) == /\ dep[d].from # None /\ Intact(dep[d].from)
                  /\ dep[d].state \notin Ended \cup {"absent"}
                  /\ ~IsKilled(<<"deployment", d>>)
\* The pointer moves at once; the record the caller read is written back after
\* the health checks.  A refusal only adds reasons to the record.
Rollback(c) ==
    /\ Request /\ op[c] = Free
    /\ \E d \in Deployment :
          /\ CanRollback(d)
          /\ current' = dep[d].from
          /\ op' = [op EXCEPT ![c] = [at |-> "restoring", dep |-> d, release |-> dep[d].from]]
    /\ UNCHANGED <<slot, server, world, dep, sup, raced>>
RolledBack(c) ==
    /\ op[c].at = "restoring" /\ server.from # None
    /\ LET d == op[c].dep IN
       IF Readable(op[c].release)
       THEN /\ \E s \in {"ROLLED_BACK", "FAILED"} : dep' = [dep EXCEPT ![d].state = s]
            /\ pipeline' = Promoted(pipeline, "ROLLED_BACK")
       ELSE UNCHANGED <<dep, pipeline>>
    /\ op' = [op EXCEPT ![c] = Free]
    /\ UNCHANGED <<slot, current, server, granted, killed, locked, sup, calls, rulings, raced>>

----------------------------------------------------------------------------
(* The process and its supervisor.                                         *)

Exit == server' = Down /\ op' = [c \in Caller |-> Free]
Crash == /\ server.from # None /\ Outside /\ Exit
         /\ UNCHANGED <<slot, current, world, dep, sup, raced>>
StartByHand == /\ server.from = None /\ Outside /\ sup = Idle
               /\ server' = [from |-> Source, draining |-> FALSE]
               /\ UNCHANGED <<slot, current, world, dep, op, sup, raced>>
\* The drained server goes when its requests are done, or is forced to.
Drained == /\ server.draining /\ Exit
           /\ UNCHANGED <<slot, current, world, dep, sup, calls, rulings, raced>>

SupGoes(state) == sup' = state /\ UNCHANGED <<slot, world, calls, rulings, raced>>
SupStart ==
    /\ Outside /\ sup = Idle
    /\ \E r \in Release : Present(r) /\ sup' = [at |-> "point", release |-> r, previous |-> current, back |-> FALSE]
    /\ UNCHANGED <<slot, current, server, world, dep, op, raced>>
SupTarget == IF sup.back THEN sup.previous ELSE sup.release
\* Forward the pointer moves first and then the process ends; back it is the
\* other way round.
SupPoint ==
    /\ sup.at = "point"
    /\ current' = SupTarget
    /\ SupGoes([sup EXCEPT !.at = IF sup.back THEN "start" ELSE "stop"]) /\ UNCHANGED <<server, dep, op>>
SupStop ==
    /\ sup.at = "stop"
    /\ server' = IF server.from = None THEN Down ELSE [server EXCEPT !.draining = TRUE]
    /\ SupGoes([sup EXCEPT !.at = "wait"]) /\ UNCHANGED <<current, dep, op>>
\* Its directory may be gone: then nothing is started.
SupServe ==
    /\ sup.at \in {"wait", "start"} /\ server.from = None
    /\ IF sup.at = "wait" /\ sup.back THEN SupGoes([sup EXCEPT !.at = "point"]) /\ UNCHANGED server
       ELSE /\ server' = IF Present(SupTarget) THEN [from |-> SupTarget, draining |-> FALSE] ELSE Down
            /\ SupGoes(IF sup.back THEN Idle ELSE [sup EXCEPT !.at = "measure"])
    /\ UNCHANGED <<current, dep, op>>
\* The newest open deployment of the release; the list is refused when one
\* slot has no manifest.
Open(r) == {d \in Deployment : dep[d].release = r /\ dep[d].state \in {"HEALTH_CHECKING", "STAGED", "ACTIVE"}}
SupConfirm ==
    /\ sup.at = "measure" /\ SameBuild(sup.release)
    /\ dep' = IF Listable /\ Open(sup.release) # {}
              THEN LET d == Max(Open(sup.release)) IN [dep EXCEPT ![d].state = Verified(d)] ELSE dep
    /\ SupGoes(Idle) /\ UNCHANGED <<current, server, op>>
SupUnhealthy ==
    /\ sup.at = "measure"
    /\ IF sup.previous = None THEN SupGoes(Idle)
       ELSE IF ~Present(sup.previous) THEN SupGoes(Idle)
       ELSE SupGoes([sup EXCEPT !.at = "stop", !.back = TRUE])
    /\ UNCHANGED <<current, server, dep, op>>
SupKilled == /\ sup # Idle /\ Outside /\ sup' = Idle
             /\ UNCHANGED <<slot, current, server, world, dep, op, raced>>

Supervise == SupStart \/ SupPoint \/ SupStop \/ SupServe \/ SupConfirm \/ SupUnhealthy \/ SupKilled
Process == Crash \/ StartByHand \/ Drained
Next == \/ Ci \/ Govern \/ Prepare \/ Prune \/ Damage \/ Verify \/ Process \/ Supervise
        \/ \E c \in Caller : Deploy(c) \/ Deployed(c) \/ Rollback(c) \/ RolledBack(c)
Spec == Init /\ [][Next]_vars

----------------------------------------------------------------------------
(* Properties.                                                             *)

\* The server moves the pointer only to a slot whose digest matches its
\* manifest ("ein veränderter Slot wird nicht ausgerollt", deployment.ts:38),
\* unless the slot was changed while the health checks were awaited.
MovesToIntact == [][current' # current /\ sup' = sup => Intact(current') \/ raced]_vars

\* A record becomes ACTIVE only while the pointer names its release and the
\* process was started from that slot, whatever moved pointer and process
\* meanwhile: an equal build id is not enough (deployment.ts:40, 318).
ActiveIsMeasured ==
    [][\A d \in Deployment : dep'[d].state = "ACTIVE" /\ dep[d].state # "ACTIVE" =>
          /\ current' = dep[d].release /\ server'.from = dep[d].release /\ Present(dep[d].release)]_vars

\* A deployment that was rejected or rolled back stays so, unless a call on it
\* was still awaiting its health checks and writes back what it read before.
EndedForGood ==
    [][\A d \in Deployment : dep[d].state \in Ended /\ dep'[d].state # dep[d].state =>
          \E c \in Caller : op[c] # Free /\ op[c].dep = d]_vars
=============================================================================
