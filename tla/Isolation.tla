------------------------------ MODULE Isolation ------------------------------
(***************************************************************************)
(* The kernel isolation of a command: what is asked of the host and kept   *)
(* (ns-isolation.ts, sandbox-launcher.ts), the choice of the local runtime *)
(* to run a command isolated, bare or not at all (runtime-local.ts), and   *)
(* the wrapper that starts it (scripts/ns-exec.sh).                        *)
(*                                                                         *)
(* One server process.  A call is synchronous up to the spawn of the       *)
(* child; the host may change whenever nothing of a call runs, so what a   *)
(* cached probe says need not hold any more when the wrapper starts.       *)
(*                                                                         *)
(* What BOB_CGROUP_DIR names is, on the host: absent; a plain directory;   *)
(* a cgroup no process of ours may join; or one it may.  A plain directory *)
(* stays one.  The sizes of the limits are left out: every sandbox has     *)
(* them.                                                                   *)
(***************************************************************************)
EXTENDS Naturals, FiniteSets, TLC

CONSTANTS
    Caller,
    MaxRuns, MaxChanges, MaxRestarts     \* bounds

VARIABLES
    setup,      \* BOB_NS_ISOLATION, is BOB_CGROUP_DIR set, BOB_SANDBOX_LAUNCHER
    host,       \* what the host offers now
    cache,      \* what the process keeps of its probes, and the report
    op,         \* of each caller: its command
    nodes,      \* cgroup nodes made for commands and not removed
    lacked,     \* history: the host could not isolate at some time of this process
    results,    \* history: what the results said and what was
    tally       \* runs, changes and restarts so far

vars == <<setup, host, cache, op, nodes, lacked, results, tally>>

Setup == [isolation : {"on", "off", "auto"}, cgroup : BOOLEAN, launcher : {"none", "systemd-scope", "invalid"}]

\* The scope throws when all of it works but setpriv is missing.
Host == [rootfs : BOOLEAN, userns : BOOLEAN, cgroup : {"absent", "plain", "barred", "open"}, scope : {"fails", "throws", "works"}]

\* What the setup does not name is not looked at.
Matters(h) == (h.cgroup # "absent" => setup.cgroup) /\ (h.scope # "fails" => setup.launcher = "systemd-scope")
CanIsolate(h) == h.rootfs /\ h.userns

Nothing == [unshare |-> "unknown", cgroup |-> "unknown", scope |-> "unknown", level |-> "none"]
Idle == [at |-> "idle"]
Yes(truth) == IF truth THEN "yes" ELSE "no"

Init ==
    /\ setup \in Setup /\ host \in {h \in Host : Matters(h)}
    /\ cache = Nothing /\ op = [c \in Caller |-> Idle]
    /\ nodes = 0 /\ lacked = ~CanIsolate(host) /\ results = {}
    /\ tally = [runs |-> 0, changes |-> 0, restarts |-> 0]

----------------------------------------------------------------------------
(* The report.  Its level is "NAMESPACES", "off", or "missing" with a      *)
(* reason: what it says besides repeats the caches.                        *)

\* cgroupAvailable: the attempt to join is remembered, whatever comes of it;
\* a path that is no cgroup is looked at anew each time.
Joinable == CASE host.cgroup = "open" -> "yes" [] host.cgroup = "barred" -> "no" [] OTHER -> "unknown"

\* systemdScopeAvailable: remembered, unless the probe throws.
ScopeWorks == CASE setup.launcher # "systemd-scope" -> "unknown" [] host.scope = "throws" -> "unknown" [] OTHER -> Yes(host.scope = "works")

Known(kept, asked) == IF kept = "unknown" THEN asked ELSE kept
Probed(c) == [c EXCEPT !.cgroup = Known(@, Joinable), !.scope = Known(@, ScopeWorks)]

\* launcherReport throws with the probe of the scope.
Throws(c) == setup.launcher = "systemd-scope" /\ Probed(c).scope = "unknown"

MissingPrerequisite == setup.isolation # "off" /\ ~host.rootfs
Reusable(c) == c.level \in {"NAMESPACES", "off"} /\ ~MissingPrerequisite

\* isolationReport, when its caches are c; a report anew asks everything that
\* is not remembered, and unshare only when the rootfs is there.
Anew(c) ==
    LET p == Probed(c)
        asked == Known(p.unshare, Yes(host.userns)) IN
    IF Throws(c) THEN p ELSE
    CASE setup.isolation = "off" -> [p EXCEPT !.level = "off"]
      [] MissingPrerequisite -> [p EXCEPT !.level = "missing"]
      [] OTHER -> [p EXCEPT !.unshare = asked, !.level = IF asked = "yes" THEN "NAMESPACES" ELSE "missing"]
IsolationReport(c) == IF Reusable(c) THEN c ELSE Anew(c)
Refreshed(c) == Anew([c EXCEPT !.unshare = "unknown"])

\* A route, the metrics or a handle asks for the report.
Report ==
    /\ cache' = IsolationReport(cache) /\ cache' # cache
    /\ UNCHANGED <<setup, host, op, nodes, lacked, results, tally>>

----------------------------------------------------------------------------
(* A command.                                                              *)

\* runIsolated with the caches c, up to the spawn.  With BOB_CGROUP_DIR it
\* makes a node before it asks for the launcher, and what then throws leaves
\* the node where it is.
MakesNode(c) == c.level = "NAMESPACES" /\ setup.cgroup /\ c.cgroup = "yes" /\ host.cgroup # "absent"
Planned(c) ==
    /\ c.level = "NAMESPACES" /\ (setup.cgroup => MakesNode(c))
    /\ setup.launcher = "none" \/ (setup.launcher = "systemd-scope" /\ c.scope = "yes")

Spawned(way) == [at |-> "spawned", way |-> way, cgroup |-> way = "isolated" /\ setup.cgroup,
                 scope |-> way = "isolated" /\ setup.launcher = "systemd-scope", ran |-> FALSE, limited |-> FALSE]

\* execute of the local runtime, with what it calls, up to the spawn or the
\* error.  It asks for the report first; an active isolation is asked again,
\* afresh, and a bare command is one no isolation was found for.
Execute(c) ==
    LET seen == IsolationReport(cache)
        throws == ~Reusable(cache) /\ Throws(cache)
        active == ~throws /\ seen.level = "NAMESPACES"
        fresh == Refreshed(seen)
        bare == ~throws /\ ~active /\ setup.isolation # "on" IN
    /\ op[c] = Idle /\ tally.runs < MaxRuns
    /\ cache' = IF active THEN fresh ELSE seen
    /\ nodes' = IF active /\ ~Throws(seen) /\ MakesNode(fresh) THEN nodes + 1 ELSE nodes
    /\ op' = [op EXCEPT ![c] = CASE active /\ ~Throws(seen) /\ Planned(fresh) -> Spawned("isolated")
                                 [] bare -> Spawned("bare")
                                 [] OTHER -> Idle]
    /\ tally' = [tally EXCEPT !.runs = @ + 1]
    /\ UNCHANGED <<setup, host, lacked, results>>

WrapsAnyway(o) == o.way = "isolated" => CanIsolate(host) /\ (o.scope => host.scope = "works")    \* mutant: the join may fail

\* The scope, unshare and ns-exec.sh: each step that fails ends the command
\* before it has begun, the attempt to join the node included.
Wraps(o) ==
    o.way = "isolated" =>
       /\ CanIsolate(host) /\ (o.scope => host.scope = "works")
       /\ o.cgroup => host.cgroup \in {"open", "plain"}

\* The child begins, and the command with it or not; a node that was announced
\* may be gone by then (BOB_NS_SELF_CGROUP).
Begin(c) ==
    /\ op[c].at = "spawned"
    /\ \E ran \in {Wraps(op[c])} \cup (IF op[c].scope THEN {FALSE} ELSE {}) :
          op' = [op EXCEPT ![c].at = "running", ![c].ran = ran,
                           ![c].limited = IF op[c].cgroup THEN host.cgroup = "open" ELSE op[c].scope]
    /\ UNCHANGED <<setup, host, cache, nodes, lacked, results, tally>>

\* It ends, of itself or by the timer's SIGKILL to its process group.  The
\* node is removed when nothing runs in it any more.  The result says
\* NAMESPACES when the command was wrapped, and ENFORCED when there was a node
\* or a scope.
Close(c) ==
    /\ op[c].at = "running"
    /\ results' = results \cup {[says |-> op[c].way, enforced |-> op[c].cgroup \/ op[c].scope,
                                 ran |-> op[c].ran, limited |-> op[c].limited, lacked |-> lacked]}
    /\ nodes' \in IF op[c].cgroup THEN {nodes, nodes - 1} ELSE {nodes}
    /\ op' = [op EXCEPT ![c] = Idle]
    /\ UNCHANGED <<setup, host, cache, lacked, tally>>

----------------------------------------------------------------------------
\* The rootfs is built or removed, the kernel allows user namespaces or forbids
\* them, a cgroup is delegated or withdrawn, sudo or setpriv come and go.
HostChanges ==
    /\ tally.changes < MaxChanges /\ tally' = [tally EXCEPT !.changes = @ + 1]
    /\ \E h \in Host :
          /\ h # host /\ Matters(h) /\ (h.cgroup = "plain" <=> host.cgroup = "plain")
          /\ host' = h /\ lacked' = (lacked \/ ~CanIsolate(h))
    /\ UNCHANGED <<setup, cache, op, nodes, results>>

\* The process ends, with the answers of its commands; the caches begin anew.
Restart ==
    /\ tally.restarts < MaxRestarts /\ tally' = [tally EXCEPT !.restarts = @ + 1]
    /\ cache' = Nothing /\ op' = [c \in Caller |-> Idle] /\ lacked' = ~CanIsolate(host)
    /\ UNCHANGED <<setup, host, nodes, results>>

Next ==
    \/ \E c \in Caller : Execute(c) \/ Begin(c) \/ Close(c)
    \/ Report \/ HostChanges \/ Restart

Spec == Init /\ [][Next]_vars

Symmetry == Permutations(Caller)

----------------------------------------------------------------------------
(* Properties.                                                             *)

\* What the result of a command says is what it ran in, whatever has become of
\* the host since it was asked: a limit that is ENFORCED was kept, a limit of
\* BOB_CGROUP_DIR binds every wrapped command (ns-isolation.ts:391-398, 487-491,
\* ns-exec.sh:45-50), no command is bare under BOB_NS_ISOLATION=on, and under
\* auto only in a process that once found the host unable (runtime-local.ts:
\* 310-315).
ClaimsHold ==
    \A r \in results : r.ran =>
       /\ r.enforced => r.limited
       /\ r.says = "isolated" /\ setup.cgroup => r.enforced
       /\ r.says = "bare" => setup.isolation = "off" \/ (setup.isolation = "auto" /\ r.lacked)
=============================================================================
