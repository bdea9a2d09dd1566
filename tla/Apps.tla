-------------------------------- MODULE Apps --------------------------------
(***************************************************************************)
(* Managed apps and their executable modules (apps.ts), the file they are  *)
(* kept in (app-persistence.ts) and the route (app/api/apps/route.ts).     *)
(*                                                                         *)
(* A process reads the file once, when the module is loaded, and writes    *)
(* its whole copy after every change, whatever the file says by then.      *)
(* installExecutableModule awaits createSandbox (module Sandboxes): calls  *)
(* of the same process go on in between, and the process may end.          *)
(*                                                                         *)
(* One app stands for all.  startExecutableModule and                      *)
(* pauseExecutableModule are called by no route and left out; the task and *)
(* the agent of an installation only decide whether createSandbox throws.  *)
(***************************************************************************)
EXTENDS Naturals, FiniteSets, TLC

CONSTANTS
    Process,
    Module,
    Approval,
    MaxCalls        \* bound: calls

VARIABLES
    file,       \* apps.json: the copy that was written last, and how often one was
    copy,       \* of each process its copy, and the number of the file it goes back to
    awaits,     \* of each process the installations that await createSandbox; held: the copy has the module's object still
    sandboxes,  \* the sandboxes SB-APP-<module> that exist
    granted,    \* the approvals that are granted (module Execution)
    registered, \* history: of each module id how often a module was registered under it
    asked,      \* history: of each module id how often a sandbox was asked for
    overwrote,  \* history: a process wrote over what another had written
    calls

vars == <<file, copy, awaits, sandboxes, granted, registered, asked, overwrote, calls>>

AppState == {"PLANNING", "TESTING", "AWAITING_CONFIRMATION", "INSTALLING", "ACTIVE", "FAILED"}
Blank == [app |-> "NONE", modules |-> [m \in Module |-> "NONE"]]    \* NONE: not there

Init ==
    /\ file = [state |-> Blank, number |-> 0]
    /\ copy = [p \in Process |-> file]
    /\ awaits = [p \in Process |-> {}] /\ sandboxes = {} /\ granted = {}
    /\ registered = [m \in Module |-> 0] /\ asked = registered /\ overwrote = FALSE /\ calls = 0

Call == calls < MaxCalls /\ calls' = calls + 1

\* persist() writes state; the copy of p is then state changed further to rest.
PersistThen(p, state, rest) ==
    /\ file' = [state |-> state, number |-> file.number + 1]
    /\ copy' = [copy EXCEPT ![p] = [state |-> rest, number |-> file.number + 1]]
    /\ overwrote' = (overwrote \/ copy[p].number # file.number)
Persist(p, state) == PersistThen(p, state, state)

----------------------------------------------------------------------------
CreateApp(p) ==
    LET c == copy[p].state IN
    /\ Call /\ c.app = "NONE"
    /\ Persist(p, [c EXCEPT !.app = "PLANNING"])
    /\ UNCHANGED <<awaits, sandboxes, granted, registered, asked>>

\* setAppState: any state, at any time.
SetAppState(p, state) ==
    LET c == copy[p].state IN
    /\ Call /\ c.app # "NONE"
    /\ Persist(p, [c EXCEPT !.app = state])
    /\ UNCHANGED <<awaits, sandboxes, granted, registered, asked>>

\* registerExecutableModule persists before it changes the app.  An id the
\* caller names may be that of a module that is there: the new one replaces it,
\* and what an installation changes is from then on the object of the old one.
Register(c, m) == [c EXCEPT !.modules[m] = "VALIDATED"]

RegisterModule(p, m) ==
    LET c == Register(copy[p].state, m) IN
    /\ Call /\ copy[p].state.app # "NONE"
    /\ PersistThen(p, c, [c EXCEPT !.app = "AWAITING_CONFIRMATION"])
    /\ awaits' = [awaits EXCEPT ![p] = {IF i.module = m THEN [i EXCEPT !.held = FALSE] ELSE i : i \in @}]
    /\ registered' = [registered EXCEPT ![m] = @ + 1]
    /\ UNCHANGED <<sandboxes, granted, asked>>

\* An approval is granted; a grant names no module.
Grant(a) ==
    /\ Call /\ granted' = granted \cup {a}
    /\ UNCHANGED <<file, copy, awaits, sandboxes, registered, asked, overwrote>>

\* installExecutableModule, up to the await.
Installable(c, m, a) == c.modules[m] = "VALIDATED" /\ c.app = "AWAITING_CONFIRMATION" /\ a \in granted
PreparedLate(c, m) == c    \* mutant: the states change when the sandbox is there
Prepared(c, m) == [c EXCEPT !.app = "INSTALLING", !.modules[m] = "INSTALLING"]

Install(p, m, a) ==
    /\ Call /\ Installable(copy[p].state, m, a)
    /\ Persist(p, Prepared(copy[p].state, m))
    /\ asked' = [asked EXCEPT ![m] = @ + 1]
    /\ awaits' = [awaits EXCEPT ![p] = @ \cup {[module |-> m, number |-> asked'[m], held |-> TRUE, made |-> FALSE]}]
    /\ UNCHANGED <<sandboxes, granted, registered>>

\* createSandbox makes it, unless there is one or it fails; then the rest of
\* the call, or its catch.
Made(p, i) ==
    /\ ~i.made /\ i.module \notin sandboxes
    /\ sandboxes' = sandboxes \cup {i.module}
    /\ awaits' = [awaits EXCEPT ![p] = (@ \ {i}) \cup {[i EXCEPT !.made = TRUE]}]
    /\ UNCHANGED <<file, copy, granted, registered, asked, overwrote, calls>>

Ends(p, i, state, app) ==
    LET c == [copy[p].state EXCEPT !.app = app] IN
    /\ Persist(p, IF i.held THEN [c EXCEPT !.modules[i.module] = state] ELSE c)
    /\ awaits' = [awaits EXCEPT ![p] = @ \ {i}]
    /\ UNCHANGED <<sandboxes, granted, registered, asked, calls>>
Installed(p, i) == i.made /\ Ends(p, i, "INSTALLED", "ACTIVE")
Failed(p, i) == ~i.made /\ Ends(p, i, "DISABLED", "FAILED")

\* A process ends, or is killed between the two writes of an installation, and
\* loads the file anew.
Restart(p) ==
    /\ copy[p] # file \/ awaits[p] # {}
    /\ copy' = [copy EXCEPT ![p] = file]
    /\ awaits' = [awaits EXCEPT ![p] = {}]
    /\ UNCHANGED <<file, sandboxes, granted, registered, asked, overwrote, calls>>
KilledInInstall(p, m, a) ==
    LET approved == [copy[p].state EXCEPT !.modules[m] = "APPROVED"] IN
    /\ Call /\ Installable(copy[p].state, m, a)
    /\ Persist(p, approved)
    /\ awaits' = [awaits EXCEPT ![p] = {}]
    /\ UNCHANGED <<sandboxes, granted, registered, asked>>

Next ==
    \/ \E a \in Approval : Grant(a)
    \/ \E p \in Process :
          \/ CreateApp(p) \/ Restart(p)
          \/ \E state \in AppState : SetAppState(p, state)
          \/ \E i \in awaits[p] : Made(p, i) \/ Installed(p, i) \/ Failed(p, i)
          \/ \E m \in Module :
                \/ RegisterModule(p, m)
                \/ \E a \in Approval : Install(p, m, a) \/ KilledInInstall(p, m, a)

Spec == Init /\ [][Next]_vars

Symmetry == Permutations(Process) \cup Permutations(Module)

----------------------------------------------------------------------------
(* Properties.                                                             *)

\* A sandbox is asked for once for a module: under an id never more often than
\* modules were registered under it (apps.ts:57-70), whichever installations and
\* registrations overlap and wherever the process ends, unless a process wrote
\* over another's change.
AskedOnce == overwrote \/ \A m \in Module : asked[m] <= registered[m]
=============================================================================
