------------------------------ MODULE Backups ------------------------------
(***************************************************************************)
(* Backups of the durable stores (persistence/store.ts), the automation    *)
(* with its retention rule (backup-policy.ts) and the route                *)
(* (app/api/persistence/route.ts).                                         *)
(*                                                                         *)
(* A backup is a copy of the store's file, taken as it is; its digest is   *)
(* looked at when it is listed, cleared away or restored.  The names of    *)
(* the files are <store>-<stamp>.json, and the name of a store can begin   *)
(* with that of another: "workshop-executions" with "workshop".            *)
(*                                                                         *)
(* The instant of a write or copy is the number of the call.  Schema       *)
(* versions (module DurableStore), envelopes without a payload and the     *)
(* journal are left out.                                                   *)
(***************************************************************************)
EXTENDS Naturals, FiniteSets, SequencesExt

CONSTANTS
    Store,          \* the registry, in its order: a sequence of names
    Extends,        \* of each name those that begin with it and a dash
    MaxFiles,       \* copies a store keeps of itself (20)
    KeepPerStore,   \* verified copies the policy keeps (BOB_BACKUP_KEEP)
    MaxCalls        \* bound

Stores == {Store[i] : i \in DOMAIN Store}

VARIABLES
    contents,   \* of each store its file: whose content, when it was written, whether the digest fits
    backups,    \* the files under backups/: the name's store and stamp, and the content
    due,        \* the interval since the last scheduled run is over
    calls

vars == <<contents, backups, due, calls>>

Absent == [store |-> "none", written |-> 0, intact |-> FALSE]
Content(s, instant) == [store |-> s, written |-> instant, intact |-> TRUE]

Init ==
    /\ contents = [s \in Stores |-> Absent] /\ backups = {} /\ due = TRUE /\ calls = 0

Call == calls < MaxCalls /\ calls' = calls + 1
Now == calls + 1

----------------------------------------------------------------------------
\* A store is written (its owner reads and writes it, module DurableStore); a
\* damaged file is refused by the owner's read.
WriteStore(s) ==
    /\ Call /\ (contents[s] = Absent \/ contents[s].intact)
    /\ contents' = [contents EXCEPT ![s] = Content(s, Now)]
    /\ UNCHANGED <<backups, due>>

\* The disk spoils a file.
Damage(s) ==
    /\ Call /\ contents[s].intact
    /\ contents' = [contents EXCEPT ![s].intact = FALSE]
    /\ UNCHANGED <<backups, due>>

Interval == ~due /\ due' = TRUE /\ UNCHANGED <<contents, backups, calls>>

\* The files a store takes for its own when it clears away are all whose names
\* begin with its own; they go in the order of their names, in which the
\* digits of a stamp come before the letters of a longer name.
Own(s, all) == {b \in all : b.name = s \/ b.name \in Extends[s]}
Before(s, b, c) ==
    \/ b.name = s /\ c.name # s
    \/ (b.name = s) = (c.name = s) /\ b.stamp < c.stamp
Cleared(s, all) ==
    LET own == Own(s, all)
        excess(b) == Cardinality(own) - Cardinality({c \in own : Before(s, c, b)}) > MaxFiles IN
    {b \in all : ~(b \in own /\ excess(b))}

\* backup(), of a file that is created when there is none.
Saved(s) == IF contents[s] = Absent THEN Content(s, Now) ELSE contents[s]
BackedUp(s, all) == Cleared(s, all \cup {[name |-> s, stamp |-> Now, content |-> Saved(s)]})

\* backupAllStores(): in the order of the registry.
AllBackedUp == FoldLeft(LAMBDA all, s : BackedUp(s, all), backups, Store)

\* verifyStoreBackup: the content is that store's and its digest fits.
Verified(s, b) == b.content.intact /\ b.content.store = s

\* listStoreBackups takes the longest name for the owner; pruneBackups keeps
\* the newest of the verified ones and removes nothing it cannot verify.
Newer(b, c) == b.content.written > c.content.written \/ (b.content.written = c.content.written /\ b.stamp > c.stamp)
Healthy(s, all) == {b \in all : b.name = s /\ Verified(s, b)}
PrunedOldest(all) ==    \* mutant: the list is not turned round, the oldest are kept
    {b \in all : ~(b \in Healthy(b.name, all) /\ Cardinality({c \in Healthy(b.name, all) : Newer(b, c)}) >= KeepPerStore)}
Pruned(all) ==
    {b \in all : ~(b \in Healthy(b.name, all) /\ Cardinality({c \in Healthy(b.name, all) : Newer(c, b)}) >= KeepPerStore)}

\* POST backup.
Backup ==
    /\ Call
    /\ backups' = AllBackedUp
    /\ contents' = [s \in Stores |-> Saved(s)]
    /\ UNCHANGED due

\* POST backup.run: runScheduledBackup.
RunScheduled(force, prune) ==
    /\ Call /\ (due \/ force)
    /\ backups' = IF prune THEN Pruned(AllBackedUp) ELSE AllBackedUp
    /\ contents' = [s \in Stores |-> Saved(s)]
    /\ due' = FALSE

\* POST backup.prune.
Prune == Call /\ backups' = Pruned(backups) /\ UNCHANGED <<contents, due>>

\* POST restore, of any file under backups/ as any store.
Restore(s, b) ==
    /\ Call /\ Verified(s, b)
    /\ contents' = [contents EXCEPT ![s] = Content(b.content.store, Now)]
    /\ UNCHANGED <<backups, due>>

Next ==
    \/ Backup \/ Prune \/ Interval
    \/ \E force, prune \in BOOLEAN : RunScheduled(force, prune)
    \/ \E s \in Stores : WriteStore(s) \/ Damage(s) \/ (\E b \in backups : Restore(s, b))

Spec == Init /\ [][Next]_vars

----------------------------------------------------------------------------
(* Properties.                                                             *)

\* What the retention rule clears away is older than KeepPerStore verified
\* copies of the same store that stay, and the newest stays
\* (backup-policy.ts:18-22), however damaged, restored and equal copies mix.
PolicyKeepsNewest ==
    [][Prune => \A s \in Stores : \A b \in Healthy(s, backups) \ backups' :
          Cardinality({c \in Healthy(s, backups') : Newer(c, b)}) >= KeepPerStore]_vars

\* "`backup` legt digest-geprüfte Kopien aller Stores an"
\* (app/api/persistence/route.ts:62): afterwards every store that is intact
\* has a copy of what it holds.
BackupCovers ==
    [][Backup => \A s \in Stores :
          contents'[s].intact => \E b \in backups' : b.name = s /\ b.content = contents'[s]]_vars
=============================================================================
