------------------------------ MODULE Offline ------------------------------
(***************************************************************************)
(* Offline task packages, their executions and the exchange of sync        *)
(* records between installations (offline.ts, app/api/offline/route.ts).   *)
(*                                                                         *)
(* Every change is one update() of the installation's store.  Records go   *)
(* from one installation to another by the Creator's hand, in any order    *)
(* and any number of times; an installation may get its own back.          *)
(*                                                                         *)
(* The digest of an execution changes when it ends: the status stands for  *)
(* it.  Packages and the assets of a package do not change: one package    *)
(* stands for both.  Everything is of the installation's own origin.       *)
(***************************************************************************)
EXTENDS Naturals, Sequences, TLC

CONSTANTS
    Site,          \* installations
    MaxRuns,       \* bound: executions per installation
    MaxCalls        \* bound

VARIABLES
    offline,    \* of each installation the store "offline"
    exported,   \* the records that were ever exported
    merged,     \* history: of each installation the records it merged
    calls

vars == <<offline, exported, merged, calls>>

Empty == [package |-> "ABSENT", runs |-> <<>>, sync |-> <<>>, conflicts |-> <<>>]

Init ==
    /\ offline = [s \in Site |-> Empty] /\ exported = {}
    /\ merged = [s \in Site |-> {}] /\ calls = 0

Act == calls < MaxCalls /\ calls' = calls + 1

CreatePackage(s) ==
    /\ Act /\ offline[s].package = "ABSENT"
    /\ offline' = [offline EXCEPT ![s].package = "READY"]
    /\ UNCHANGED <<exported, merged>>

\* Any package that is not in CONFLICT, a state nothing gives it: an executed
\* one is started again.
StartExecution(s) ==
    /\ Act /\ offline[s].package # "ABSENT" /\ Len(offline[s].runs) < MaxRuns
    /\ offline' = [offline EXCEPT ![s].package = "EXECUTED", ![s].runs = Append(@, "RUNNING")]
    /\ UNCHANGED <<exported, merged>>

FinishExecution(s, i, status) ==
    /\ Act /\ i \in DOMAIN offline[s].runs /\ offline[s].runs[i] = "RUNNING"
    /\ offline' = [offline EXCEPT ![s].runs[i] = status]
    /\ UNCHANGED <<exported, merged>>

\* exportOfflineSync: a new record of everything, the package (0) first.
Records(s) ==
    IF offline[s].package = "ABSENT" THEN <<>>
    ELSE <<[entity |-> <<s, 0>>, digest |-> "PACKAGE"]>>
         \o [i \in DOMAIN offline[s].runs |-> [entity |-> <<s, i>>, digest |-> offline[s].runs[i]]]

Export(s) ==
    /\ Act
    /\ offline' = [offline EXCEPT ![s].sync = @ \o Records(s)]
    /\ exported' = exported \cup {Records(s)[i] : i \in DOMAIN Records(s)}
    /\ UNCHANGED merged

\* mergeOfflineSync: an incoming record is compared with the first one that is
\* there of the same entity.
Of(store, entity) == {i \in DOMAIN store.sync : store.sync[i].entity = entity}
TakenByEntity(store, r) ==    \* mutant: whatever is there of the entity counts as a duplicate
    IF Of(store, r.entity) = {} THEN [store EXCEPT !.sync = Append(@, r)] ELSE store
Taken(store, r) ==
    IF Of(store, r.entity) = {} THEN [store EXCEPT !.sync = Append(@, r)]
    ELSE LET same == store.sync[CHOOSE i \in Of(store, r.entity) : \A j \in Of(store, r.entity) : i <= j] IN
         IF same.digest = r.digest THEN store
         ELSE [store EXCEPT !.conflicts = Append(@, [entity |-> r.entity, local |-> same.digest, remote |-> r.digest])]

Merge(s, r) ==
    /\ Act
    /\ offline' = [offline EXCEPT ![s] = Taken(offline[s], r)]
    /\ merged' = [merged EXCEPT ![s] = @ \cup {r}]
    /\ UNCHANGED exported

Next ==
    \E s \in Site :
       \/ CreatePackage(s) \/ StartExecution(s) \/ Export(s)
       \/ \E i \in 1..MaxRuns, status \in {"SUCCEEDED", "FAILED"} : FinishExecution(s, i, status)
       \/ \E r \in exported : Merge(s, r)

Spec == Init /\ [][Next]_vars

Symmetry == Permutations(Site)

----------------------------------------------------------------------------
(* Properties.                                                             *)

\* Whatever an installation was ever given of an entity, in whatever order and
\* however often, it keeps: as a record, or in a conflict with the one that
\* was there ("Beide Zustände bleiben als Herkunftsnachweis erhalten",
\* docs/OFFLINE.md; offline.ts:185-192).
NothingForgotten ==
    \A s \in Site : \A r \in merged[s] :
       \/ \E i \in DOMAIN offline[s].sync : offline[s].sync[i] = r
       \/ \E i \in DOMAIN offline[s].conflicts :
             offline[s].conflicts[i].entity = r.entity /\ offline[s].conflicts[i].remote = r.digest
=============================================================================
