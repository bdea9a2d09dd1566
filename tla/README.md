# BabajagaBoB: TLA+ models, model checks and proofs

BabajagaBoB is a control plane for autonomous agents, written in TypeScript (Next.js, Node). This
directory holds TLA+ models of its state-changing core, the TLC configurations that check them on small
instances, and TLAPS proofs of what matters most for every size. `store.ts:344` stands for
`src/lib/persistence/store.ts`, line 344, and other file names likewise for files of `src/lib/`; all
other paths are relative to `src/`.

## 1. The system

| Part | State it keeps | Operations, and whom it talks to | What makes it correct |
|---|---|---|---|
| Durable store (`persistence/store.ts`) | one JSON file per store (version, revision, payload, digest), one lock file, backups | `read`, `update`, `write`, migration, backups; every other part keeps its state here; several processes may share a storage root | an acknowledged update is never lost, a failed one leaves nothing behind, a dead process blocks nobody |
| Job queue (`queue.ts`) | jobs with state, attempt, lease, owner, backoff | enqueue, lease, start, heartbeat, complete, fail, defer, cancel, expire; called by worker, dispatcher and `/api/queue` | one unfinished job per run, only the lease owner acts, attempts are bounded, finished is final |
| Run lifecycle (`runs.ts`) | runs with state, attempt, lease, idempotency key | create, queue, lease, start, heartbeat, diagnosis, recovery, verification, retry, dead letter, expire | one active run per key, attempts within budget, runs of dead workers are found |
| Worker and dispatcher (`worker.ts`, `dispatcher.ts`) | nothing durable; cycles in progress, heartbeat timers | `POST /api/worker` and `/api/dispatcher` start cycles and dispatch tasks; there is no poller | a job is executed under its own lease, queue and runs agree, failed runs are treated or retried |
| Capability tokens (`authority.ts`) | tokens with uses and expiry, revoked ids, delegation edges, root authority | issue, consume, revoke, expire, delegate | a token is used at most as often as granted, a revocation is final |
| Broker and gate (`execution-broker.ts`, `execution-gate.ts`, `policy.ts`) | executions | check switches, lockdown, approval, token; claim a computer; consume; await the command | nothing starts after a confirmed stop |
| Governance, approvals (`governance.ts`, `approvals.ts`), computers (`computer-use.ts`) | kill switches, delegations, approval requests; computers | set, revoke, resolve; allocate, start, release | a decision is final, a switch once pressed stays pressed |
| Control plane and plans (`control-plane.ts`, `plans.ts`) | missions, objectives, tasks, approvals, agents, sandbox records, lockdown; cached in a module variable | everything the console does; the guardian assigns waiting tasks | memory and file agree, approvals are asked for once |
| Errors, recovery, regression, knowledge (`error-intelligence.ts`, `reliability.ts`, `regression.ts`, `knowledge.ts`) | incidents, failures, recovery plans, tests, entries | investigate, experiment, cause, recover, verify, learn; awaits sandboxes and test runs | no cause without evidence, nothing learned without a passed test |
| Deployment, releases (`deployment.ts`, `release.ts`, `cicd.ts`, `server.mjs`, `scripts/release-supervisor.sh`) | pipelines, slots, deployments, the current pointer | prepare, approve, deploy, verify, roll back, prune; the supervisor replaces the process | the pointer names an intact slot, ACTIVE is what runs |
| Bootstrap, login, sessions (`bootstrap.ts`, `creator-auth.ts`, `totp.ts`, `session.ts`) | root authority, secret file, hash, failures, used codes, sessions | bootstrap, rotate, revoke, login, logout | a bootstrapped system can be entered, a closed session cannot, codes are used once, guesses are bounded |
| Event log, audit, provenance, evidence, inbox (`events/log.ts`, `audit.ts`, `provenance.ts`, `artifacts.ts`, `inbox.ts`, `observability.ts`) | two chains with checkpoints, a graph, two lists | append, retain, verify | both chains verify from their checkpoint |
| Sandboxes and runtimes (`sandbox/fabric.ts`, `runtime-local.ts`, `oci-runtime.ts`) | control-plane record, runtime record, directory or container, snapshots | create, clone, start, execute, pause, reset, snapshot, restore, destroy, inspect | record and container come and go together |
| Devices (`devices.ts`), science (`science.ts`), providers (`provider-fabric.ts`), apps (`apps.ts`) | one register each | report, authorize, allocate; experiment and validate; connect and bind; install | a device has one holder, ESTABLISHED is earned, what is bound is enabled, an installation happens once |
| Backups (`persistence/store.ts`, `backup-policy.ts`), offline mode (`offline.ts`) | copies; packages, executions, sync records, conflicts | back up, prune, restore; export, merge | the newest good copy stays, nothing merged is forgotten |
| Process isolation (`ns-isolation.ts`, `sandbox-launcher.ts`, `runtime-local.ts`, `scripts/ns-exec.sh`) | remembered probes and report, cgroup nodes | probe the host, report, run a command isolated, bare or not at all | what a result claims of its isolation was so, whatever has become of the host |
| Fault injection, agent fabric, workshop, tools, observability views, user interface, scripts | | | not modelled, see section 5 |

`PROJECT.json` lists every part with its files, and under "hazards" the places, at their lines, where
this code can go wrong in ways a test would hardly reach.

**Where it is hard.** (a) Several processes on one storage root race on files; the tests do this on
purpose (`tests/integration/fault-injection-processes.test.ts`). (b) Inside one Node process, cycles,
timers and HTTP requests interleave at every `await`, and only there. (c) The process can be killed
between any two store writes, and one logical step (a failed job, a bootstrap, an observation) is
several of them. (d) Leases lapse while their holder is slow, so answers come late. (e) Two life cycles,
of jobs and of runs, must agree though each is stored separately. (f) Several parts read a store once
and write their copy back whole; others read, decide, await and write what they read. (g) The supervisor
script moves the same pointer as the server.

## 2. Modules

| Module | Models | Extends / instantiates |
|---|---|---|
| `TransactionalStore` | the promise of `update`: each update applied exactly once, to the content left by the one before; an answered one stays | |
| `DurableStore` | `store.ts` 149-488, one file-system call a step, any number of processes | `Promise == INSTANCE TransactionalStore` |
| `Attempts` | the constants queue and runs share | |
| `JobQueue`, `RunLifecycle` | `queue.ts`, `runs.ts` | `Attempts` |
| `AgentWorker` | `worker.ts`, `dispatcher.ts`, the routes for queue and runs, on both stores | `JobQueue`, `RunLifecycle` |
| `CapabilityTokens` | tokens and edges of `authority.ts` | |
| `Execution` | broker, gate, governance, approvals, lockdown, computers | `CapabilityTokens` |
| `Incidents` | an incident from failure to learning | |
| `Releases` | slots, pipelines, deployments, the server's end, the supervisor | |
| `Access` | bootstrap, secrets, login, second factor, sessions | |
| `Records` | events, audit, provenance, evidence, inbox | |
| `Sandboxes` | fabric, control-plane record, both runtimes | |
| `Devices`, `ControlPlane`, `Science`, `Providers` | one register each | |
| `Backups`, `Offline`, `Apps` | one part each | |
| `Isolation` | probes, report and the isolated run of a command | |
| `MC...` | instances for TLC, and the runs that take several parts together | the modules named there |
| `..._proofs` | theorems; `AgentWorker_proofs` also those of `JobQueue`, `MCStores_proofs` those of `DurableStore`, `MCHistory_proofs` those of `Records` | the module named; `MCWorkers_proofs` also instantiates `AgentWorker_proofs` |

**DurableStore.** `disk` is the file, `lock` the lock file (its creator, and whether the pid is in it
yet), `pc` the point each process has reached. The payload is the set of operations whose effect the
file holds: a lost update is a missing element. A label of `pc` stands before one file-system call:
`Read` (readRaw, read, readForUpdate), `Prepare` (the revision is computed and the temporary file
written, 399-409), `Acquire` (openSync, 344), `Judge` and `TakeOver` (347-362, 364), `TimeOut` (370),
`Sign` (375), `CheckRevision` (413-423), `Rename` (424), `ReleaseCommitted` / `ReleaseConflict` (the
finally block, 377-388, and what the caller does with the result). `kind` tells the call's own write
from a nested initial write or migration. `stolen` is a history variable: a lock was removed while its
owner lived.

**JobQueue and RunLifecycle.** One action per exported operation; a refused call is a step not enabled.
A lease is "none", "live" or "lapsed"; that time passes is the action that makes it lapse. `settling`
and `requeuing` hold the jobs and runs between the two writes of `failJob`, `expireLeases` and
`expireStaleRuns`; a kill (`Forget`) empties them and leaves the state of the first write.
`JobQueueSpec` puts the queue under arbitrary callers.

**AgentWorker.** Each cycle has a label. Labels in `Awaiting` are those at which the code awaits
something that really waits; at all others the cycle holds the only thread and nobody else moves, but
the process may be killed, since every store write is a step. `Docker` chooses the runtime: with
containers, reconciliation, investigation and recovery wait for a command; with the local runtime only
an execution does. `Owner` gives each cycle its worker id (by default all cycles of a process share
`worker-<pid>`, worker.ts:72; `OwnId` in `MCWorkers` gives each its own). `ticket` remembers the attempt
a cycle claimed. `dispatch` is the `dispatchTask` in progress, `Operate` the operator on the routes,
`Beat` a heartbeat timer, `Clock` the passing of time.

**CapabilityTokens and Execution.** Processes share the store. What `update` decides inside its mutator
(consumption) is one step; `revokeCapabilityToken`, `setKillSwitch`, `revokeDelegation` and
`resolveApprovalRequest` read first and write later, so each is two steps with the payload kept in
`draft` or `thread`. Control plane and computers are read once per process (`plane`, `fleet`) and
written whole. The broker goes from the checks to the consumption without an await, then the command
runs (`running`). `begun` and `pressed` are histories: executions begun per token, switches pressed and
not released.

**Incidents.** Several callers; `pending` is what a caller read before it awaited a sandbox or a test
run, and what it will write back. Neither `createErrorIncident` nor `transitionError` validates what the
request sets (error-intelligence.ts:107, 148), so an incident starts with any fields of a `Patch` and
`Transition` assigns one, the status included. A failure or plan `Patch` names need not exist; one that
is made only later stands for one that other incidents left, and 0 for none or an id nothing has.
`RecordFailure` and `Prepare` are the reliability route, which makes failures and plans of its own. `raw`
records that the transition route was used, `passed` the tests that passed, `proved` the plans whose
smoke test and suite did. Recovery tiers are left out, since nothing reads them; so is a patch of the
incident's own id.

**Science.** A call reads the payload (`Read`) and writes it whole. `UpdateExperiment` assigns any field the
request names, since the route passes the patch unvalidated (science.ts:194): only the state ESTABLISHED is
refused. `Rename` is such a patch of the id; runs belong to the id and stay where they are. A run that found
its record goes on under an id that has none by now (`begun`). `patched` is a history: the fields requests
patched of a record that `updateExperiment` does not declare as patchable. The store starts empty or with an
experiment whose baseline and control were accepted (`Tried`), so that few calls lead past the verdict.

**Apps.** `RegisterModule` takes any id, since the request's own replaces the one the code makes
(apps.ts:51): the record of an installed module becomes a VALIDATED one, and an installation that awaits
its sandbox goes on with the object of the old record (`held`), which no longer is the copy's.
`registered` and `asked` count registrations and sandboxes asked for of each id.

**Releases.** `Ci`, `Govern`, `Prepare`, `Prune`, `Damage`, `Verify` are what requests and the world do
at once; `Deploy`/`Deployed` and `Rollback`/`RolledBack` stand on both sides of the awaited health
checks (`op`). `Process` is the drain and end of the server, `Supervise` the script line by line.

**Access and Records.** A handler is synchronous, so it is the sequence of its accesses to the stores,
and only other processes or a kill come between two of them. In `Access` `op` names the next access and
`blurred` remembers which handlers were cut off or overlapped: each property says which overlaps it
excludes. Failed attempts are a set of numbered attempts with their time, since the code counts those
inside a window. In `Records` a caller is the list of accesses it still has to make (`Programs`), from
the append to the audit record; retention and reconstructed checkpoints are part of each.

**Sandboxes.** `record` (control plane), `box` (store of the runtime) and `place` (directory or
container) are changed by separate calls of a handler; on OCI docker is awaited, may fail or refuse, and
other calls come in between.

**Devices, ControlPlane, Providers, Backups, Offline.** One action per exported operation a route
reaches. Where the code reads a store at load and writes its copy (`arrays`, `copies`, `copy`) the
copies are state, in `Apps` as well; where it reads and writes a payload, both are steps. `lost`,
`past`, `overlapped`, `overwrote` record that one process wrote over another's change, which the
properties then exclude by name.

**Isolation.** The code up to a spawn is synchronous, so `Execute` is the whole decision of the local
runtime: report, fresh report, cgroup node, launcher. `cache` keeps what the probes said, each by its own
rule: `unshare` is asked again for a run that is to be isolated, a cgroup that could not be joined and a
scope that failed stay so until the restart, and so does a refusal of user namespaces, since no report
after it asks again. `HostChanges` comes in at any time, `Begin` is the wrapper against the host as it is
then, and `Close` gives the result.

Wrong variants of some definitions stand right before them, marked "Variant" or "mutant". They are the
plausible bugs each property is tested against: with the variant in place of the definition TLC must
find the property violated (`PROJECT.json`, "mutants").

## 3. Runs

Parts that share no state are checked together: the initial state of `MCFleet`, `MCHistory`, `MCWorkers`
and `MCStores` chooses the part (or the setting) that moves, and the others stay as they begin. That is
one run for several questions of the same kind; the state space is the sum of the parts, not their
product, and every property is checked of the part it is about.

| Run | Instance | Shows |
|---|---|---|
| StoreAny | an orderly store (2 processes, 2 updates each, 1 kill, 2 attempts an update, fairness) or a hostile one (2 processes, updates and writes, migration, stalls) | orderly: an update is lost only by theft of a lock, calls return, orphans with a pid go, refinement of `TransactionalStore`; hostile: exclusion until a lock is stolen, a refused call leaves nothing in the file |
| WorkerAny | one of four settings: 2 cycles on containers with 1 kill; 2 cycles on the local runtime; 2 cycles with their own ids whose leases lapse; 1 cycle and an operator on every route | the two stores agree, executions stay under their lease, a task has one active run, the queue keeps its rules, late answers settle nothing |
| WorkerLive | the first setting with 1 cycle, fairness, 1 kill | taken jobs return, executed runs settle unless the process is killed, runs keep their budget, the system changes jobs only as `JobQueue` allows |
| ExecutionTwo | 2 processes, one serves the Creator; 2 tokens of which the store keeps 1, 2 tasks of which one needs an approval, 1 computer, 3 commands | no token is overused, a revocation is final, pressed switches stay, nothing begins after a confirmed stop, decisions are final |
| ReleaseAny | 2 overlapping requests, 2 releases, 2 deployments, 5 calls, 1 ruling, 2 kinds of switch, the supervisor | the server moves the pointer only to intact slots, ACTIVE is measured, ended deployments stay ended |
| AccessAny | 2 processes, a clock of 3 ticks, lockout after 2 failures, 1 kill; pairs of exercises (`Exercises`) | closed sessions and a revoked root let nobody in, an initialized system has a secret, codes are used once and guesses bounded (`LoginsBounded`) |
| FleetAny | sandboxes (2 ids, both runtimes, 2 callers, 5 calls, 1 fault), devices (2), control plane, providers or science (1 experiment at a time under 2 ids, 5 calls), 2 processes each | nothing left behind, one holder, asked once, plans hold, bound is enabled, what is established is earned but for what a request patched |
| HistoryAny | event log with retention of 2 and audit (2 processes, 3 events, 1 kill), an incident (2 callers, 6 calls, 1 failure, 2 plans, 2 patches), backups of 2 stores, 2 installations offline, apps (2 modules, 6 calls), or commands (2 at a time, every configuration and host, 1 change of the host, 1 restart) | chains verify, events are audited, learning is founded, nothing counts as verified that was not, nothing merged is forgotten, an installation asks once for each registration, the retention rule keeps the newest, results claim what was so |
| StoreTheft | 3 processes, 1 kill | **violated**: `NoLostUpdate` |
| WorkerGone | 1 cycle, 1 kill, fairness | **violated**: `RunningReturns` |
| SandboxReset | as the sandboxes of FleetAny | **violated**: `SandboxHasPlace` |
| BackupCovers | stores "workshop" and "workshop-executions" | **violated**: `BackupCovers` |

**Bounds.** Three processes are needed for the takeover race (a dead owner, a waiter that is fast and
one that is slow), two suffice for every other overlap modelled: each property is about one call that
overtakes another. Two updates a process let a retried operation meet a later one. Two attempts
(`Retries`, `MaxAttempts`) give a first, a last and a boundary between them. Two cycles and two jobs let
one cycle take what the other lost. Job and run ids are bounded by the sets `Job` and `Run`: when they
are used up, `Enqueue` and `CreateRun` return existing ones only. `MaxOps`, `MaxCrashes`, `MaxStarts`,
`MaxCalls`, `MaxCommands`, `MaxRulings`, `MaxEvents`, `MaxLogins`, `MaxTime`, `MaxWrites`,
`MaxSnapshots`, `MaxFaults`, `MaxNew`, `MaxDevice`, `MaxSize`, `MaxFailures`, `MaxPlans`, `MaxChanges`,
`MaxRestarts`, `MaxRecords`, `Commands`, `TravelRuns`, the numbers of calls of one part each
(`DeviceCalls`, `PlaneCalls`, `TrialCalls`, `ProviderCalls`, `DiagnosisCalls`, `TravelCalls`,
`InstallCalls`) and the bounds on records bound what comes from outside; no other guard is a bound, and
the theorems hold for every value of them. The limits of the code itself (`KeepTokens`, `KeepEvents`,
`KeepRecords`, `KeepSessions`, `KeepPerStore`, `Threshold`, ...) are constants with values small enough
that each is reached: a token is dropped from the list, both chains are cut, a session is pushed out, a
login is locked. The numbers of calls are large enough for the longest way a property speaks of (an
experiment whose baseline and control were accepted, which the store may hold at the start, is
established by three calls and patched by the two that are left; a plan is verified by four: a test, the
plan, its execution, its verification). The two patches of `HistoryAny` are everything a root cause asks
for with references to a failure and a plan, and a task of its own with evidence taken away and the
table left. The variants confirm the bounds, since each finds its violation within them. Symmetry is
used only in runs without liveness. `CHECK_DEADLOCK FALSE` stands where every process may have made its
calls; the worker never runs out of things to do.

**Fairness.** `DurableStore`: a process that runs keeps running (`WF` on its steps), but need not call
anything; system calls return and every wait has a deadline, so the code justifies no less. Kills are
never fair. `AgentWorker`: an awaited call settles, the event loop comes back to every cycle, time
passes, and somebody keeps posting worker cycles, which is an assumption about operation, since the code
has no poller. `SF` is needed where another cycle can hold the thread again and again, and on `Claim`
because a cycle whose reconciliation fails leaves without claiming: not every one does. No other part
promises that something happens by itself, so none has fairness.

### What the violated runs show

- **StoreTheft.** Judging a lock (347-362) and removing it (364) are separate calls. Two waiters judge
  the same orphan; the first removes it and locks, the second removes that new lock. Both pass the
  revision check, and the first acknowledged update is overwritten. `LossNeedsTheft` says that nothing
  else loses an update.
- **WorkerGone.** A run killed at its last attempt: `expireStaleRuns` calls `deadLetterRun`
  (runs.ts:346), which the table refuses for RUNNING, and the result is dropped.
- **SandboxReset.** `OciRuntime.reset` removes the container and then calls `create`, which finds the
  record of the same id and throws (oci-runtime.ts:118, 197): the sandbox keeps its records and has no
  container.
- **BackupCovers.** `pruneBackups` counts the copies of "workshop-executions" among those of "workshop"
  (store.ts:563) and removes those whose file names come first, whichever store they are of.

### What the properties exclude by an explicit condition

The models contain more behaviour of this kind. No passing property can deny it; where no run states it,
a line of the model and this list do.

*Store.* A process killed between openSync (344) and writeSync (375) leaves an empty lock file, which
nobody judges: every later write times out, and if the store has no file yet, `read` and `writeInitial`
call each other at every timeout (the exception in `CallsReturn`). A write that waits for the lock
carries a revision computed before it and can take the revision back (399); a migration overwrites a
concurrent update (224).

*Worker.* On containers a failed run is inactive while its recovery plan is awaited (runs.ts:113,
worker.ts:206-217), so a task dispatched then gets a second run, and another cycle may cancel the job of
a run under treatment: `OneRunPerTask` and `QueuedRunHasJob` are checked on the local runtime. A kill
between the two writes of `failJob` leaves a job FAILED for good; a kill in diagnosis leaves a run
there; `deferJob` does not give back the attempt the lease counted (queue.ts:161, 263); two cycles under
one worker id pass each other's owner check (late answers are checked with ids of their own); the start
action of the runs route does not look at the budget.

*Execution.* With two governing processes `SwitchesHold` and `DecisionsFinal` fail. A SYSTEM switch
cannot be released over the API: the guard refuses the call that would (api/guard.ts:267,
api/api-gate.ts:15, 86). A task with `requiresApproval` can never execute from the worker: the control
plane grants `APR-<counter>`, the gate of the approval centre asks for `APR-<8 hex>` (worker.ts:159). A
computer stays EXECUTING when the token is refused after the claim (execution-broker.ts:593), and one
that works may be claimed again for the same task, so that the first completion frees it while the
second command runs (computer-use.ts:59, 79). An expired token is still consumed: expiry is looked at in
the check only (authority.ts:385).

*Control plane.* A persist that throws leaves the change in memory (control-plane.ts:211). A grant
queues a COMPLETED task again (552), an assignment passes over a pending approval (437), one task nobody
may take keeps the guardian from the tasks behind it (604), `createTask` does not look whether the
objective it names belongs to its mission (392).

*Incidents.* `beginRecovery` and `verifyRecovery` write back the payload they read before an await
(reliability.ts:170, 183), so a failure, a plan or a verdict recorded meanwhile is gone and an incident
may refer to nothing: `RecoveriesProved` says, without exception, only that no verdict appears that no
run of tests gave. A request may name any failure, plan or evidence (107, 148). A second hypothesis can
never be experimented on (error-intelligence.ts:233), evidence may be named by the caller without
existing (303), `learn` without a regression test writes the knowledge and then throws (461),
`recoveryRequiresApproval` is enforced nowhere (490), the transition route passes over all of it. The
entry's regression test need not be the one that passed (`docs/KNOWLEDGE.md`:55-57).

*Releases.* Pruning removes the slot a rollback would need (`docs/OPERATIONS.md`:430). The switch is not
asked again after the awaited health check (deployment.ts:403); a kill there leaves HEALTH_CHECKING for
ever; verification takes FAILED back to STAGED or ACTIVE (478); any old deployment can be rolled back;
the kill switch asked for at a rollback is named by another id, and the lockdown is not asked
(`docs/SECURITY.md`:197). A half-prepared slot makes the listing throw. Two deployments can be ACTIVE
until one is verified. The supervisor gives up without a predecessor (scripts/release-supervisor.sh:19).

*Access.* A kill between the mark "initialized" and the secret file locks the Creator out;
`ensureBootstrapSecret`, which `docs/BOOTSTRAP.md`:12 speaks of, is called by nobody (bootstrap.ts:23),
and no route reaches `rotateRoot`, `revokeRoot` and `rotateCreatorSecret`. Two bootstraps at a time take
a revocation back (153). Overlapping logins of two processes lose failures and accept a code twice
(creator-auth.ts:170); `resolveSession` writes a session back that was closed meanwhile
(session.ts:79-83).

*Records.* The append is not locked against other processes, so their events are lost from the log,
without a gap. Retention makes `verifyEventChain` report parents it removed itself. A checkpoint
reconstructed from an outdated read breaks the chain (log.ts:137-141, audit.ts:142); `resolveInbox`
writes what it read.

*Sandboxes.* Create or clone over an id that is registered replaces the local record before
`registerSandbox` throws (sandbox/fabric.ts:68). A restore on the local runtime copies nothing back
(`docs/SANDBOX.md`:48-49). A paused container has no way back.

*Registers.* A RELEASED device is never allocated again, and observers can be allocated
(`docs/DEVICES.md`:34-35); enrollment with the secret alone does not pass the guard
(app/api/devices/route.ts:34-35). A request that patches `evidenceIds` of an experiment leaves it
ESTABLISHED without evidence (science.ts:194), although `docs/EXPERIMENTS.md`:29 asks for it. An accepted
run overwrites CONTRADICTED, and a rejected baseline counts. Registering a module under the id of an
installed one makes it installable again (apps.ts:51), and the second installation fails on the sandbox that
is there: `InstallsOnce` counts sandboxes asked for against registrations. The state action of the providers
route takes REVOKED back (`docs/PROVIDERS.md`:44). Processes overwrite each other's apps, and a kill during
an installation leaves APPROVED for ever.

*Backups and offline mode.* Twenty copies of a damaged store clear the intact ones away; a restored
store is overwritten by the next persist of a part that cached it; several stores are in no list of
`all-stores.ts`. Nothing ever sets CONFLICT or SYNCED, and an executed package can be started again.

## 4. Proofs

All proofs are checked by `tlapm` for arbitrary constants that satisfy the named assumptions.

`MCStores_proofs`, any store. `TypeCorrect` is type correctness. `Exclusion` rests on `OwnersInside`: as
long as nothing was stolen, whoever is in the critical section is the one the lock file names, and a
file names one. `MutualExclusion` alone is not inductive, since it does not say whose lock is there.
`OrderlyNoTheft` assumes `Orderly` (nobody killed, no stall): then no lock is ever judged abandoned.
`SnapshotsSafe` and `LossFreedom` assume `UpdatesOnly` and nothing about kills and stalls. Their
inductive invariant `SnapshotsTrustworthy` says that a draft whose base is the revision on disk was made
from the content on disk (`Snapshots`), that a pending operation is not in the file and a committed one
is (`Progress`), and what the file looks like (`Shape`); `NoLostUpdate` is not inductive without the
first, for nothing else tells that a rename keeps what the file held. `StoreImplements` uses that
invariant to map each step: `Rename` is `CreateDocument` or `Apply`, `ReleaseCommitted` is `Answer` or a
stutter, all others stutter.

`MCStores_proofs`, the hostile store of the run `StoreAny`, which is updated and written over, may start
in an old version and whose lock holders stall: snapshots are stale there and updates are lost.
`HostileExclusion` is the exclusion of that store. `RefusedIsNowhere` needs an invariant about every
draft, since any draft of a living process may become the file: what the file holds is over and was not
refused (`Landed`), a draft holds only what has landed and the operation it was made for
(`DraftsLanded`), and the call of a refused operation is over (`RefusedOver`), so that the one draft it
was in is never written.

`AgentWorker_proofs`, the queue. `JobsSound` is the invariant: it strengthens `OneJobPerRun` to jobs
between two writes (`OfItsRun`), because the second write may put them back into the queue, and adds that
unused ids are blank. `OneUnfinishedJob`, `OwnersKept`, `DeadLettersSpent` are its parts, `FinishedStay`
an action property. `WorkerUsesQueue` shows, for any number of cycles, jobs and kills, with or without
an operator, that every step of the whole system is a step of `JobQueueSpec` or leaves the queue alone.
It needs two invariants: at most one cycle or dispatch holds the thread (`Turn`), and a cycle past its
claim names a job, a dispatch past its creation a run (`Named`). By it `WorkerQueueSound` transfers the
theorems of the queue to the system. `BudgetHolds` (without an operator) proves `attempt <= MaxAttempts`
from a stronger invariant: a run on its way to a start (`OnItsWay`: created, queued, leased or being
requeued) has an attempt left, and what a cycle found leased is still leased when it starts it.

`AgentWorker_proofs`, the cycles. None of `ExecutesUnderLease`, `SuccessAgrees`, `OneRunPerTask`,
`QueuedRunHasJob` is inductive: each speaks of one label of a cycle, or of a free thread, and says
nothing of how a cycle gets there. `LeaseInv` says of every label what its job and its run are in
(`Stand`: from "start" to "failJob" the job is held by the cycle, at the attempt of its ticket, under a
live lease) and that two cycles neither work on one job nor treat one run (`Apart`); the latter is what
keeps one cycle's steps from disturbing another's `Stand`, although all share one worker id, and it holds
because a job is only claimed when it is queued, `JobsSound` allows one unfinished job per run, and
leases under a living heartbeat do not lapse. A second write that is still open finds its run FAILED
(`Requeued`). `SuccInv` adds where success is about to be told, `TransInv` where a failure is about to be
settled. `LocalInv` is for the local runtime, where only an execution lets others in: whatever job is
held, run is RUNNING or FAILED, or job is between two writes has a cycle at exactly that place, and every
run that still stands has a job (`Covered`) or a cycle about to end it (`Closing`); then a dispatch that
finds the job's run unfinished finds the run active too, so no second run of a task appears
(`LiveAlone`). `LateInv`, for cycles with ids of their own and everything else allowed: a job held in a
cycle's name is at the attempt of its ticket. `WorksUnderLease`, `FailedPasses`, `LocalRuns` and
`LateAnswersAreLeft` are the theorems; their hypotheses (`~Manual`, `~Stalls`, no kill, `OwnersApart`)
are those without which section 3 says what happens instead.

`MCWorkers_proofs` states the same of the run `WorkerAny`: `L` and `S` instantiate `AgentWorker_proofs`
with the constants of the settings "local" and "stalls", and `SettingInv` says that the invariant of the
chosen setting holds. `StoresAlwaysAgree`, `LeasesAlwaysCover`, `TasksAlwaysHaveOneRun` and
`LateAnswersSettle` follow.

`Execution_proofs`. *Tokens*: `NoOveruse` is not inductive, for a revocation writes back the uses it
read, so the counter may fall behind the executions begun. The invariant of `TokensHonest` says that
this happens only to tokens in the list of revoked ids, which `consumeCapabilityToken` asks inside its
mutator, and that a draft never names a token that was not issued. `NeverOverused` and `RevocationFinal`
follow; `ExecutionUsesTokens` shows that every step of broker, gate and commands is a step of `TokenSpec`
or leaves the tokens alone, and `ExecutionsCounted` and `ExecutionsEndWithRevocation` carry both results
over. *Governance*: `SwitchesStay`, `DecisionsStay` and `StopsHold` assume `Sole`, that one process
serves the Creator's commands (with two they fail, see section 3). `GovernanceInv` adds what makes them
inductive: the payload a command has read and not yet written is the store's (`Current`), so its write
cannot take a switch or a decision back.

`Access_proofs`. The invariant has one part per property and one for what they share: `OneAtATime` (a
kind of handler that is not `blurred` is in the hands of one process), `SessionsInv` and
`RevokedInv` (what a handler will write back of sessions and root agrees with the store), `SecretInv`
(the mark "initialized" is written only where a secret is or will be), `GuessInv` and `CodeInv` (the
failures and used codes a login has read still hold when it decides). `Prepared`, `Bounded` and
`StaysClosed` follow, each with the exception its property names.

`MCFleet_proofs`. `AllInv` is the conjunction of the invariants of five parts that move side by side.
`SandboxInv` says of every sandbox outside `blurred`, and of every stage of the call on it, what record,
box and place are there (`Clear`, `Tidy`), which
`NothingLeftBehind` says only of the end. `FleetInv`: unless a write was `lost`, the array a process
changes is the store's, and a device with a holder is ALLOCATED, so only its release frees it.
`ControlInv` speaks of every copy of the plane in memory as well as of the file, since either is written
over the other. `LabInv` speaks of everything a process has read, since a call writes a whole payload
back and the store may return to an earlier state: each payload is earned up to what has been patched so
far, and that only grows. `RemoteInv`: unless calls overlapped, what a call is
about to write follows from what the store says.

`MCHistory_proofs`. `HistoryInv` is the conjunction of `GuardingInv` (what is remembered of the host was
so when it was asked, and what a command was started for follows from it), `InstallInv` (copies of the
register with the number of the file say what the file says, and a module that is VALIDATED there has
been registered more often than asked for), `TravelInv` (for each merged record a first record of its
entity exists, in whatever order packages arrive) and `DiagnosisInv` (the payload a waiting caller will
write back is as `Sound` as the store's: what it calls verified was proved, and it holds no plan that is
still to be made, whose number a patch may already name; and the cause a caller is testing stays
grounded). `PatchAssumption`, that a patch gives fields of an incident values of their types, is all
they assume of `Patch`.

`MCHistory_proofs`, records. `RecordsInv` states of each log that its numbers have no gap, that its ids
ascend and that it continues where its checkpoint ends (`Fits`, `ChainFits`) - of the stored logs and of
each one a process has read and will write back. The parameter `cutBefore` tells a store that an earlier
version cut without a checkpoint, which `Init` allows, from a new one. What lies ahead of a process ends
each event of `observe` with its audit record before the next append begins (`Closes`, `Pends`), and an
endpoint that was refused has none to write: that is `EventsAudited` (`Traced`) at the end of a caller's
list. `LogsVerify` follows without any induction over the chain, because a log that fits verifies entry
by entry.

`Releases_proofs`. The three properties relate a step to what was read before an await. `ReleaseInv`
says what stays true meanwhile (`Awaited`): the record a waiting deployment will write exists and names
its release, and the slot it checked is intact unless a slot in use was pruned or damaged. `EndedStays`
and `ActiveAlwaysMeasured` also need that only deployments, rollbacks and verifications write records
(`RecordsWritten`), and that a verification calls nothing ACTIVE but what it measured (`VerifiedState`).

**Model-checked only**: liveness (`CallsReturn`, `SignedOrphansGo`, `RunningSettles`, `HeldJobsReturn`;
fairness and ENABLED are out of this prover's reach); and `PolicyKeepsNewest` of `Backups`, whose list of
files is built by a fold over the copies, so that already its finiteness is an induction over data, which
the library's theorems cannot give with the installed provers. Modules with proofs contain no RECURSIVE
operator. **Proved only**: `TypeCorrect`, `Exclusion`, `JobsTyped`, `OrderlyNoTheft`, `SnapshotsSafe`,
`FinishedStay`, `DecisionsStandInFleet`, the parts of `JobsSound`, the four theorems of
`AgentWorker_proofs` about the cycles under their own hypotheses, and the inductive invariants.

## 5. Abstractions, and what is not modelled

- Time is the nondeterministic lapse of leases, tokens and sessions; only `Access` has a clock, since
  its windows are compared with each other. Without `Stalls` a heartbeat is always in time.
- Priorities, texts, hashes and messages do not influence the transitions. A digest is equality of
  contents, a hash the record it was computed over.
- A store call of any part but `DurableStore` is one atomic step. What several processes do to one file
  is the subject of `DurableStore`; two worker processes on one root are not modelled together
  (`docs/OPERATIONS.md` names multi-node operation as a limit), and both can lease the same job
  (queue.ts:155).
- The idempotency key of a job is that of its run, as `dispatchTask` makes it by default; a key given by
  the caller outlives the run and is left out.
- Failing store calls inside a cycle, other than refused transitions, are left out; in `ControlPlane`,
  where the code catches nothing, a persist may throw.
- `RouteStart` takes its up to three writes in one step.
- The incident and the recovery plan of a failed run are a choice between "begun" and "not begun" in
  `AgentWorker`; `Incidents` models them, for one incident.
- Each part keeps its own copy of what others promise (an executed command, a sandbox made, a test run):
  the answer is a choice.
- Where the code assigns a request's patch unvalidated (`Science`, `Incidents`, `Apps`) the patch has
  values of the declared types, and an id is not that of another record.
- Argument policies, sandbox limits, network rules, codecs and cryptography are what they accept.
- In `Isolation` every sandbox has limits, as `createSandbox` makes it; their sizes are left out, and so
  are an invalid `BOB_NS_ISOLATION` (every call throws) and probes that err (an answer that comes after
  the 5 seconds of a probe counts as a refusal and is remembered). What `BOB_CGROUP_DIR` names does not
  become a plain directory, or cease to be one, while the server runs. The computer-use path runs its
  driver on the host (execution-broker.ts:499-556) and records the isolation of the handle
  (execution-broker.ts:637), though the artifact's field is documented as the level the run took place in
  (artifacts.ts:131): `ClaimsHold` speaks of commands of the local runtime only.

Not modelled: **fault injection** (test equipment, which provokes what the models contain); **runtime
registry** (a list that only grows); **agent fabric** (records of one process; a handoff may be resolved
again, agent-fabric.ts:165, which nothing else looks at); **workshop, gallery, simulation and tools**
(lists with one advancing field and a registry read from the environment; the records the workshop
writes are in `Records`); **observability views and service levels** (derived, read-only); **user
interface** and **scripts** other than the supervisor and the wrapper (no state of the system).
Null-payload repair and the journal of the store, free checkpoints of runs and rate limits are left out
of modelled parts.

## 6. What is left

1. The queue on the store: two worker processes that claim through `read` and `update`.
2. `Incidents` in place of the choice in `AgentWorker.Recover`, and `Sandboxes` in place of the answers
   in `Incidents` and `Apps`.
3. Proofs: the theorems of `JobQueue` for a queue on the store, once item 1 is modelled. Of what the runs
   check only the liveness properties and `PolicyKeepsNewest` are not proved.
