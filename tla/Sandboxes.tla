----------------------------- MODULE Sandboxes -----------------------------
(***************************************************************************)
(* The sandbox fabric (sandbox/fabric.ts) with the record the control      *)
(* plane keeps of each sandbox (control-plane.ts), on the local workspace  *)
(* runtime (runtime-local.ts) or on the OCI runtime (oci-runtime.ts).      *)
(*                                                                         *)
(* One server process.  A local runtime works without waiting, so a call   *)
(* on it is done before the next begins; the OCI runtime awaits a docker   *)
(* command, and other calls come in between.  What the fabric does after   *)
(* the runtime has answered follows at once; only the end of the process   *)
(* can come between (Crash).                                               *)
(*                                                                         *)
(* place is what the operating system holds: the workspace directory, or   *)
(* the container.  A file is the number of the write that made it, 0 when  *)
(* it is not there.  A snapshot is a number, in the order of their making. *)
(***************************************************************************)
EXTENDS Naturals, Sequences, FiniteSets, SequencesExt, TLC

CONSTANTS
    Box,               \* sandbox ids
    File,
    Caller,            \* calls under way at a time
    Mode,              \* the runtimes: a subset of {"local", "oci"}
    KeepSnapshots,     \* snapshots the stores keep (500)
    MaxCalls, MaxWrites, MaxSnapshots, MaxFaults      \* bounds

ASSUME SandboxAssumption ==
    /\ Mode \subseteq {"local", "oci"} /\ KeepSnapshots \in Nat \ {0}
    /\ {MaxCalls, MaxWrites, MaxSnapshots, MaxFaults} \subseteq Nat

VARIABLES
    mode,       \* the active runtime
    record,     \* of the control plane: the lifecycle of a sandbox, "none" without a record
    box,        \* of the runtime's store: its entries for a sandbox
    place,      \* the workspace or the container
    taken,      \* every snapshot made, with the files it holds
    kept,       \* snapshots in the runtime's store
    listed,     \* snapshots in the fabric's store
    op,         \* the call of each caller
    made,       \* calls, writes and faults so far
    blurred     \* history: sandboxes with calls that overlapped, failed in docker or were cut off

vars == <<mode, record, box, place, taken, kept, listed, op, made, blurred>>

State == {"READY", "RUNNING", "PAUSED", "SNAPSHOTTED", "RESTORED", "FAILED"}
Empty == [f \in File |-> 0]
NoPlace == [run |-> "none", files |-> Empty]
Idle == [at |-> "idle", kind |-> "none", box |-> "none", source |-> "none", image |-> 0, state |-> "none"]
Snapshot == 1..Len(taken)

TypeOK ==
    /\ mode \in Mode
    /\ record \in [Box -> State \cup {"none", "CREATED"}]
    /\ box \in [Box -> Seq([state : State, image : 0..MaxSnapshots])]
    /\ place \in [Box -> [run : {"none", "created", "running", "paused"}, files : [File -> 0..MaxWrites]]]
    /\ taken \in Seq([box : Box, files : [File -> 0..MaxWrites]])
    /\ kept \subseteq Snapshot /\ listed \subseteq Snapshot

Init ==
    /\ mode \in Mode
    /\ record = [b \in Box |-> "none"] /\ box = [b \in Box |-> <<>>] /\ place = [b \in Box |-> NoPlace]
    /\ taken = <<>> /\ kept = {} /\ listed = {}
    /\ op = [c \in Caller |-> Idle] /\ made = [calls |-> 0, writes |-> 0, faults |-> 0]
    /\ blurred = {}

Known(b) == box[b] # <<>>
Exists(b) == place[b].run # "none"
At(c, at) == op[c].at = at

\* The newest n.
Newest(set, n) == {i \in set : Cardinality({j \in set : j > i}) < n}

\* find() and update() of a runtime see the first entry of a sandbox only.
WithState(b, state) == IF Known(b) THEN [box EXCEPT ![b][1].state = state] ELSE box

\* The fabric's answer follows the runtime's before anything else runs.
Quiet(c) == \A d \in Caller \ {c} : op[d].at \notin {"register", "record", "list", "unregister"}

----------------------------------------------------------------------------
(* Calls on the fabric.                                                    *)

\* The runtime's first step in OCI mode; the local runtime has only one.
FirstStep(kind) == IF mode = "local" THEN "local"
                   ELSE CASE kind \in {"create", "clone"} -> "create" [] kind = "reset" -> "remove" [] kind = "destroy" -> "forget" [] OTHER -> kind

\* createSandbox and cloneSandbox take any id; the others ask requireSandbox
\* first, cloneSandbox for its source.  restoreSandbox wants a snapshot the
\* fabric lists for the sandbox.
Call(c, kind, b, source, snapshot) ==
    /\ op[c] = Idle /\ Quiet(c) /\ made.calls < MaxCalls
    /\ mode = "local" => \A d \in Caller : op[d] = Idle
    /\ kind \notin {"create", "clone"} => record[b] # "none"
    /\ IF kind = "clone" THEN source # b /\ record[source] # "none" ELSE source = b
    /\ IF kind = "restore" THEN snapshot \in listed /\ taken[snapshot].box = b ELSE snapshot = 0
    /\ kind = "snapshot" => Len(taken) < MaxSnapshots
    /\ op' = [op EXCEPT ![c] = [Idle EXCEPT !.at = FirstStep(kind), !.kind = kind, !.box = b, !.source = source, !.image = snapshot]]
    /\ made' = [made EXCEPT !.calls = @ + 1]
    /\ blurred' = IF \E d \in Caller : op[d] # Idle /\ op[d].box = b THEN blurred \cup {b} ELSE blurred
    /\ UNCHANGED <<mode, record, box, place, taken, kept, listed>>

\* How the fabric goes on after the runtime.
After(kind) == CASE kind \in {"create", "clone"} -> "register" [] kind = "snapshot" -> "list" [] kind = "destroy" -> "unregister" [] OTHER -> "record"
Answer(c, state) == op' = [op EXCEPT ![c].at = After(op[c].kind), ![c].state = state]
Throw(c) == op' = [op EXCEPT ![c] = Idle] /\ UNCHANGED <<record, listed>>

\* registerSandbox refuses an id it knows, when the runtime has acted already.
Register(c) ==
    /\ At(c, "register")
    /\ record' = IF record[op[c].box] = "none" THEN [record EXCEPT ![op[c].box] = "CREATED"] ELSE record
    /\ op' = [op EXCEPT ![c] = Idle]
    /\ UNCHANGED <<mode, box, place, taken, kept, listed, made, blurred>>

\* updateSandboxStatus, which throws without a record.
Record(c) ==
    /\ At(c, "record")
    /\ record' = IF record[op[c].box] = "none" THEN record ELSE [record EXCEPT ![op[c].box] = op[c].state]
    /\ op' = [op EXCEPT ![c] = Idle]
    /\ UNCHANGED <<mode, box, place, taken, kept, listed, made, blurred>>

Listing(id) == Newest(listed \cup {id}, KeepSnapshots)

\* snapshotSandbox lists the snapshot, then has the record updated.
List(c) ==
    /\ At(c, "list")
    /\ listed' = Listing(op[c].image)
    /\ op' = [op EXCEPT ![c].at = "record", ![c].state = "SNAPSHOTTED"]
    /\ UNCHANGED <<mode, record, box, place, taken, kept, made, blurred>>

Unregister(c) ==
    /\ At(c, "unregister")
    /\ record' = [record EXCEPT ![op[c].box] = "none"]
    /\ op' = [op EXCEPT ![c] = Idle]
    /\ UNCHANGED <<mode, box, place, taken, kept, listed, made, blurred>>

----------------------------------------------------------------------------
(* The local workspace runtime.                                            *)

Entry(state, image) == [state |-> state, image |-> image]
Workspace(b) == [place[b] EXCEPT !.run = "created"]    \* mkdir: files that are there stay
Manifest(b) == [box |-> b, files |-> place[b].files]
Overlay(below, above) == [f \in File |-> IF above[f] = 0 THEN below[f] ELSE above[f]]

Matches(files, snapshot) == \A f \in File : taken[snapshot].files[f] # 0 => files[f] = taken[snapshot].files[f]

\* restore compares the files of the manifest with the workspace; it copies
\* nothing back.
LocalOk(c) ==
    LET b == op[c].box IN
    CASE op[c].kind = "create" -> TRUE
      [] op[c].kind = "clone" -> Known(op[c].source)
      [] op[c].kind = "destroy" -> TRUE
      [] op[c].kind = "restore" -> Known(b) /\ op[c].image \in kept /\ Matches(place[b].files, op[c].image)
      [] OTHER -> Known(b)

LocalState == [create |-> "READY", clone |-> "READY", start |-> "RUNNING", pause |-> "PAUSED",
               reset |-> "READY", snapshot |-> "SNAPSHOTTED", restore |-> "RESTORED", destroy |-> "none"]

LocalPlace(kind, b, source) ==
    CASE kind \in {"create", "start"} -> Workspace(b)
      [] kind = "clone" -> [Workspace(b) EXCEPT !.files = Overlay(@, place[source].files)]
      [] kind = "reset" -> [place[b] EXCEPT !.files = Empty]
      [] kind = "destroy" -> NoPlace
      [] OTHER -> place[b]

Local(c) ==
    LET b == op[c].box  kind == op[c].kind  id == Len(taken) + 1 IN
    /\ At(c, "local") /\ Quiet(c)
    /\ IF ~LocalOk(c)
       THEN Throw(c) /\ UNCHANGED <<box, place, taken, kept>>
       ELSE /\ box' = [box EXCEPT ![b] = IF kind = "destroy" THEN <<>> ELSE <<Entry(LocalState[kind], 0)>>]
            /\ place' = IF kind = "destroy" /\ ~Known(b) THEN place ELSE [place EXCEPT ![b] = LocalPlace(kind, b, op[c].source)]
            /\ IF kind = "snapshot"
               THEN /\ taken' = Append(taken, Manifest(b)) /\ kept' = Newest(kept \cup {id}, KeepSnapshots)
                    /\ op' = [op EXCEPT ![c].at = "list", ![c].image = id]
               ELSE Answer(c, LocalState[kind]) /\ UNCHANGED <<taken, kept>>
            /\ UNCHANGED <<record, listed>>
    /\ UNCHANGED <<mode, made, blurred>>

----------------------------------------------------------------------------
(* The OCI runtime: a docker command, and what follows its answer.         *)

ImageFiles(image) == IF image = 0 THEN Empty ELSE taken[image].files
Goto(c, at) == op' = [op EXCEPT ![c].at = at]

\* create() finds no entry of that id, then awaits `docker create`.
CreateAsk(c) ==
    /\ At(c, "create") /\ Quiet(c)
    /\ IF Known(op[c].box) \/ (op[c].kind = "clone" /\ ~Known(op[c].source))
       THEN Throw(c)
       ELSE /\ op' = [op EXCEPT ![c].at = "docker create", ![c].image = IF op[c].kind = "clone" THEN box[op[c].source][1].image ELSE @]
            /\ UNCHANGED <<record, listed>>
    /\ UNCHANGED <<mode, box, place, taken, kept, made, blurred>>

\* A name is taken once.
DockerCreate(c) ==
    /\ At(c, "docker create") /\ Quiet(c)
    /\ IF Exists(op[c].box)
       THEN Throw(c) /\ UNCHANGED place
       ELSE /\ place' = [place EXCEPT ![op[c].box] = [run |-> "created", files |-> ImageFiles(op[c].image)]]
            /\ Goto(c, "created") /\ UNCHANGED <<record, listed>>
    /\ UNCHANGED <<mode, box, taken, kept, made, blurred>>

\* Of a restore, update() then sets the state of the first entry.
Created(c) ==
    LET b == op[c].box  entries == Append(box[b], Entry("READY", op[c].image)) IN
    /\ At(c, "created") /\ Quiet(c)
    /\ box' = [box EXCEPT ![b] = IF op[c].kind = "restore" THEN [entries EXCEPT ![1].state = "RESTORED"] ELSE entries]
    /\ Answer(c, IF op[c].kind = "restore" THEN "RESTORED" ELSE "READY")
    /\ UNCHANGED <<mode, record, place, taken, kept, listed, made, blurred>>

\* start and pause; docker starts no paused container, and nothing unpauses.
Runs(kind, run) == IF kind = "start" THEN run \in {"created", "running"} ELSE run = "running"
DockerRun(c) ==
    LET b == op[c].box IN
    /\ op[c].at \in {"start", "pause"} /\ Quiet(c)
    /\ IF Known(b) /\ Runs(op[c].kind, place[b].run)
       THEN /\ place' = [place EXCEPT ![b].run = IF op[c].kind = "start" THEN "running" ELSE "paused"]
            /\ Goto(c, "ran") /\ UNCHANGED <<record, listed>>
       ELSE Throw(c) /\ UNCHANGED place
    /\ UNCHANGED <<mode, box, taken, kept, made, blurred>>

Ran(c) ==
    LET state == IF op[c].kind = "start" THEN "RUNNING" ELSE "PAUSED" IN
    /\ At(c, "ran") /\ Quiet(c)
    /\ box' = WithState(op[c].box, state) /\ Answer(c, state)
    /\ UNCHANGED <<mode, record, place, taken, kept, listed, made, blurred>>

\* reset, and a restore that finds an entry: `docker rm -f`, whose failure is
\* ignored.
DockerRemove(c) ==
    /\ At(c, "remove") /\ Quiet(c)
    /\ IF Known(op[c].box)
       THEN place' = [place EXCEPT ![op[c].box] = NoPlace] /\ Goto(c, "removed") /\ UNCHANGED <<record, listed>>
       ELSE Throw(c) /\ UNCHANGED place
    /\ UNCHANGED <<mode, box, taken, kept, made, blurred>>

\* A restore forgets the entry, a reset does not.
Removed(c) ==
    /\ At(c, "removed") /\ Quiet(c)
    /\ box' = IF op[c].kind = "restore" THEN [box EXCEPT ![op[c].box] = <<>>] ELSE box
    /\ Goto(c, "create")
    /\ UNCHANGED <<mode, record, place, taken, kept, listed, made, blurred>>

\* `docker image inspect`: the image is there and its digest is the snapshot's.
Restore(c) ==
    /\ At(c, "restore") /\ Quiet(c)
    /\ Goto(c, IF Known(op[c].box) THEN "remove" ELSE "create")
    /\ UNCHANGED <<mode, record, box, place, taken, kept, listed, made, blurred>>

\* `docker commit` and `docker image inspect`.
DockerCommit(c) ==
    LET b == op[c].box IN
    /\ At(c, "snapshot") /\ Quiet(c) /\ Len(taken) < MaxSnapshots
    /\ IF Known(b) /\ Exists(b)
       THEN /\ taken' = Append(taken, Manifest(b))
            /\ op' = [op EXCEPT ![c].at = "committed", ![c].image = Len(taken) + 1]
            /\ UNCHANGED <<record, listed>>
       ELSE Throw(c) /\ UNCHANGED taken
    /\ UNCHANGED <<mode, box, place, kept, made, blurred>>

Committed(c) ==
    /\ At(c, "committed") /\ Quiet(c)
    /\ kept' = kept \cup {op[c].image} /\ box' = WithState(op[c].box, "SNAPSHOTTED")
    /\ Goto(c, "list")
    /\ UNCHANGED <<mode, record, place, taken, listed, made, blurred>>

ForgetOnly(c) ==    \* mutant: the container is not removed
    /\ At(c, "forget") /\ Quiet(c)
    /\ box' = [box EXCEPT ![op[c].box] = <<>>] /\ Answer(c, "none")
    /\ UNCHANGED <<mode, record, place, taken, kept, listed, made, blurred>>

\* destroy forgets the entry before it removes the container.
Forget(c) ==
    /\ At(c, "forget") /\ Quiet(c)
    /\ box' = [box EXCEPT ![op[c].box] = <<>>]
    /\ IF Known(op[c].box) THEN Goto(c, "docker destroy") ELSE Answer(c, "none")
    /\ UNCHANGED <<mode, record, place, taken, kept, listed, made, blurred>>

DockerDestroy(c) ==
    /\ At(c, "docker destroy") /\ Quiet(c)
    /\ place' = [place EXCEPT ![op[c].box] = NoPlace] /\ Answer(c, "none")
    /\ UNCHANGED <<mode, record, box, taken, kept, listed, made, blurred>>

\* reconcile reads the container's state; then it writes it down.
StateOf(run) == CASE run = "running" -> "RUNNING" [] run = "created" -> "READY" [] run = "paused" -> "PAUSED" [] OTHER -> "FAILED"
Inspect(c, b) ==
    /\ mode = "oci" /\ op[c] = Idle /\ Quiet(c) /\ Known(b) /\ made.calls < MaxCalls
    /\ op' = [op EXCEPT ![c] = [Idle EXCEPT !.at = "inspected", !.kind = "reconcile", !.box = b, !.state = StateOf(place[b].run)]]
    /\ made' = [made EXCEPT !.calls = @ + 1]
    /\ UNCHANGED <<mode, record, box, place, taken, kept, listed, blurred>>

Inspected(c) ==
    /\ At(c, "inspected") /\ Quiet(c)
    /\ box' = WithState(op[c].box, op[c].state) /\ op' = [op EXCEPT ![c] = Idle]
    /\ UNCHANGED <<mode, record, place, taken, kept, listed, made, blurred>>

----------------------------------------------------------------------------
(* Execution, and what can go wrong.                                       *)

\* execute on the local runtime, which asks no state: the command writes a
\* file.  A container is read-only: what a command leaves there is in no image.
Execute(b, f) ==
    /\ \A d \in Caller : Quiet(d)
    /\ mode = "local" /\ made.writes < MaxWrites /\ Known(b) /\ Exists(b)
    /\ place' = [place EXCEPT ![b].files[f] = made.writes + 1]
    /\ made' = [made EXCEPT !.writes = @ + 1]
    /\ UNCHANGED <<mode, record, box, taken, kept, listed, op, blurred>>

\* Docker refuses a command, or is not there.
DockerFails(c) ==
    /\ op[c].at \in {"docker create", "start", "pause", "restore", "snapshot"} /\ mode = "oci" /\ Quiet(c)
    /\ made.faults < MaxFaults /\ made' = [made EXCEPT !.faults = @ + 1]
    /\ blurred' = blurred \cup {op[c].box}
    /\ Throw(c)
    /\ UNCHANGED <<mode, box, place, taken, kept>>

\* The exit code of `docker rm` is not looked at.
RemoveFails(c) ==
    /\ At(c, "docker destroy") \/ (At(c, "remove") /\ Known(op[c].box))
    /\ Quiet(c) /\ made.faults < MaxFaults /\ made' = [made EXCEPT !.faults = @ + 1]
    /\ blurred' = blurred \cup {op[c].box}
    /\ IF At(c, "remove") THEN Goto(c, "removed") ELSE Answer(c, "none")
    /\ UNCHANGED <<mode, record, box, place, taken, kept, listed>>

\* The process ends; what is in the stores and in docker stays.
Crash ==
    /\ \E c \in Caller : op[c] # Idle
    /\ made.faults < MaxFaults /\ made' = [made EXCEPT !.faults = @ + 1]
    /\ blurred' = blurred \cup {op[c].box : c \in {d \in Caller : op[d] # Idle}}
    /\ op' = [c \in Caller |-> Idle]
    /\ UNCHANGED <<mode, record, box, place, taken, kept, listed>>

Next ==
    \/ \E c \in Caller :
          \/ Register(c) \/ Record(c) \/ List(c) \/ Unregister(c) \/ Local(c)
          \/ CreateAsk(c) \/ DockerCreate(c) \/ Created(c) \/ DockerRun(c) \/ Ran(c) \/ DockerRemove(c) \/ Removed(c)
          \/ Restore(c) \/ DockerCommit(c) \/ Committed(c) \/ Forget(c) \/ DockerDestroy(c) \/ Inspected(c) \/ DockerFails(c) \/ RemoveFails(c)
          \/ \E b, source \in Box, kind \in {"create", "clone", "start", "pause", "reset", "snapshot", "restore", "destroy"},
                snapshot \in {0} \cup Snapshot : Call(c, kind, b, source, snapshot)
          \/ \E b \in Box : Inspect(c, b)
    \/ (\E b \in Box, f \in File : Execute(b, f)) \/ Crash

Spec == Init /\ [][Next]_vars

Symmetry == Permutations(Caller) \cup Permutations(File) \cup Permutations(Box)

----------------------------------------------------------------------------
(* Properties.                                                             *)

AtRest(b) == b \notin blurred /\ \A c \in Caller : op[c] = Idle \/ op[c].box # b

\* A sandbox that was destroyed, or that could not be made, leaves nothing
\* behind: no entry in the runtime's store, no workspace, no container.  A
\* call that overlaps another on the sandbox, that docker fails or that a
\* crash cuts off can leave both.
NothingLeftBehind ==
    \A b \in Box : AtRest(b) /\ record[b] = "none" => ~Known(b) /\ ~Exists(b)

\* "Reset = Neustart des Containers" (oci-runtime.ts:195): a sandbox with a
\* record still has its workspace or container, unless calls on it overlapped,
\* docker failed or a process ended.
SandboxHasPlace ==
    \A b \in Box : AtRest(b) /\ record[b] # "none" => Exists(b)
==============================================================================
