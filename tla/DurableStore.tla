---------------------------- MODULE DurableStore ----------------------------
(***************************************************************************)
(* One store of lib/persistence/store.ts, shared by several processes.     *)
(*                                                                         *)
(* A store is one JSON file, replaced atomically by rename, and one lock   *)
(* file.  A caller either updates (read a snapshot, change a copy, write   *)
(* it back on condition that the file still has the snapshot's revision,   *)
(* retry on conflict) or writes (read, change, overwrite).  The payload is *)
(* the set of operations whose effect the file holds, so that a lost       *)
(* update is an operation missing from it.  Within one process every store *)
(* call is synchronous; each step below is one file-system call.           *)
(*                                                                         *)
(* A definition marked "Variant" is a deliberately wrong form of the one   *)
(* after it: with the variant in its place a property below is violated.   *)
(***************************************************************************)
EXTENDS Naturals, FiniteSets

CONSTANTS
    Proc,        \* operating-system processes (a restart is another member)
    MaxOps,      \* bound: store operations each process performs
    Retries,     \* STORE_CONFLICT_RETRIES
    Modes,       \* the calls made: subset of {"update", "write"}
    MaxCrashes,  \* bound: processes that may be killed
    Stalls,      \* may a live holder keep the lock beyond LOCK_STALE_MS?
    OldFormat,   \* does the file start in an older version (migration)?
    Nobody       \* owner of an absent lock file

ASSUME ProcAssumption    == IsFiniteSet(Proc) /\ Nobody \notin Proc
ASSUME BoundAssumption   == MaxOps \in Nat /\ Retries \in Nat \ {0} /\ MaxCrashes \in Nat
ASSUME ModesAssumption   == Modes \subseteq {"update", "write"}
ASSUME FlagsAssumption   == Stalls \in BOOLEAN /\ OldFormat \in BOOLEAN

Op == Proc \X (1..MaxOps)

VARIABLES
    disk,    \* the store file: its format, revision and content
    lock,    \* the lock file: who created it, whether the pid is in it yet
    pc,      \* where each process is
    opNo,    \* how many operations each process has begun
    mode,    \* the call each process is making
    kind,    \* the write it performs: the call's own, or a nested init/migrate
    base,    \* expectedRevision of a conditional write
    draft,   \* the payload to be written
    newRev,  \* the revision in the temporary file
    attempt, \* attempts of the current update
    acked,   \* operations that returned to their caller
    failed,  \* operations that threw StoreConflictError
    stolen   \* history: has a lock been removed while its owner lived?

callVars == <<opNo, mode, kind, base, draft, newRev, attempt>>
histVars == <<acked, failed>>
vars == <<disk, lock, pc, callVars, histVars, stolen>>

NoLock == [owner |-> Nobody, signed |-> FALSE]

\* Inside the try block of withWriteLock: the process believes it holds the lock.
Critical == {"sign", "check", "rename", "committed", "conflict"}
Labels == Critical \cup {"idle", "read", "revision", "prepare", "acquire", "takeover", "dead"}
Conditional == {"update", "init"}
Kinds == {"update", "write", "init", "migrate"}

TypeOK ==
    /\ disk \in [form : {"absent", "old", "current"}, rev : Nat, content : SUBSET Op]
    /\ lock \in [owner : Proc \cup {Nobody}, signed : BOOLEAN]
    /\ pc \in [Proc -> Labels]
    /\ opNo \in [Proc -> 0..MaxOps]
    /\ \A p \in Proc : pc[p] \notin {"idle", "dead"} => opNo[p] > 0
    /\ mode \in [Proc -> {"update", "write"}]
    /\ kind \in [Proc -> Kinds]
    /\ base \in [Proc -> Nat]
    /\ draft \in [Proc -> SUBSET Op]
    /\ newRev \in [Proc -> Nat]
    /\ attempt \in [Proc -> 0..Retries]
    /\ acked \in SUBSET Op
    /\ failed \in SUBSET Op
    /\ stolen \in BOOLEAN

Init ==
    /\ disk = IF OldFormat THEN [form |-> "old", rev |-> 1, content |-> {}]
                           ELSE [form |-> "absent", rev |-> 0, content |-> {}]
    /\ lock = NoLock
    /\ pc = [p \in Proc |-> "idle"]
    /\ opNo = [p \in Proc |-> 0]
    /\ mode = [p \in Proc |-> "update"]
    /\ kind = [p \in Proc |-> "update"]
    /\ base = [p \in Proc |-> 0]
    /\ draft = [p \in Proc |-> {}]
    /\ newRev = [p \in Proc |-> 0]
    /\ attempt = [p \in Proc |-> 0]
    /\ acked = {} /\ failed = {}
    /\ stolen = FALSE

Goto(p, label) == pc' = [pc EXCEPT ![p] = label]
Mine(p) == <<p, opNo[p]>>
Alive(q) == q \in Proc /\ pc[q] # "dead"

----------------------------------------------------------------------------
(* The caller's side: update(), or a read() whose result goes to write().  *)

Begin(p, m) ==
    /\ pc[p] = "idle" /\ opNo[p] < MaxOps
    /\ opNo' = [opNo EXCEPT ![p] = @ + 1]
    /\ mode' = [mode EXCEPT ![p] = m]
    /\ attempt' = [attempt EXCEPT ![p] = 1]
    /\ Goto(p, "read")
    /\ UNCHANGED <<disk, lock, kind, base, draft, newRev, histVars, stolen>>

\* The draft is what the mutator makes of the content just read.
Intend(p, k, content, rev) ==
    /\ kind' = [kind EXCEPT ![p] = k]
    /\ draft' = [draft EXCEPT ![p] = content]
    /\ base' = [base EXCEPT ![p] = rev]
    /\ Goto(p, "prepare")

\* Variant: content and revision come from two reads.
ReadApart(p) ==
    /\ pc[p] = "read"
    /\ \/ disk.form = "absent" /\ Intend(p, "init", {}, 0)
       \/ /\ disk.form = "current"
          /\ draft' = [draft EXCEPT ![p] = disk.content]
          /\ Goto(p, "revision")
          /\ UNCHANGED <<kind, base>>
    /\ UNCHANGED <<disk, lock, opNo, mode, newRev, attempt, histVars, stolen>>

\* readRaw, read and readForUpdate: content and revision come from one read.
\* A missing file is created first, a file of an older version migrated first.
Read(p) ==
    /\ pc[p] = "read"
    /\ \/ disk.form = "absent"  /\ Intend(p, "init", {}, 0)
       \/ disk.form = "old"     /\ Intend(p, "migrate", disk.content, 0)
       \/ disk.form = "current" /\ Intend(p, mode[p], disk.content \cup {Mine(p)}, disk.rev)
    /\ UNCHANGED <<disk, lock, opNo, mode, newRev, attempt, histVars, stolen>>

\* After a migration the envelope in hand has no revision: readForUpdate reads
\* it from the file a second time.
ReadRevision(p) ==
    /\ pc[p] = "revision"
    /\ Intend(p, "update", draft[p] \cup {Mine(p)}, disk.rev)
    /\ UNCHANGED <<disk, lock, opNo, mode, newRev, attempt, histVars, stolen>>

----------------------------------------------------------------------------
(* writeEnvelope and withWriteLock.                                        *)

\* The revision is fixed and the temporary file written before the lock.
Prepare(p) ==
    /\ pc[p] = "prepare"
    /\ newRev' = [newRev EXCEPT ![p] =
                     1 + IF kind[p] \in Conditional THEN base[p] ELSE disk.rev]
    /\ Goto(p, "acquire")
    /\ UNCHANGED <<disk, lock, opNo, mode, kind, base, draft, attempt, histVars, stolen>>

\* Variant: the lock file is opened without the exclusive flag.
AcquireShared(p) ==
    /\ pc[p] = "acquire"
    /\ lock' = [owner |-> p, signed |-> FALSE]
    /\ Goto(p, "sign")
    /\ UNCHANGED <<disk, callVars, histVars, stolen>>

\* openSync(lock, "wx") succeeds only when there is no lock file.
Acquire(p) ==
    /\ pc[p] = "acquire" /\ lock = NoLock
    /\ lock' = [owner |-> p, signed |-> FALSE]
    /\ Goto(p, "sign")
    /\ UNCHANGED <<disk, callVars, histVars, stolen>>

\* Variant: only the age of a lock counts.
AbandonedByAge(l) == l.owner # Nobody /\ l.signed /\ Stalls

\* A lock file is judged only once it can be parsed: its process is gone, or
\* it is older than LOCK_STALE_MS.
Abandoned(l) ==
    /\ l.owner # Nobody /\ l.signed
    /\ ~Alive(l.owner) \/ Stalls

Judge(p) ==
    /\ pc[p] = "acquire" /\ Abandoned(lock)
    /\ Goto(p, "takeover")
    /\ UNCHANGED <<disk, lock, callVars, histVars, stolen>>

\* rmSync(lock) removes whatever lock file is there by now.
TakeOver(p) ==
    /\ pc[p] = "takeover"
    /\ lock' = NoLock
    /\ stolen' = (stolen \/ Alive(lock.owner))
    /\ Goto(p, "acquire")
    /\ UNCHANGED <<disk, callVars, histVars>>

\* The pid goes through the file descriptor: when the file was taken over
\* meanwhile, it does not reach the lock file that stands there now.
Sign(p) ==
    /\ pc[p] = "sign"
    /\ lock' = IF lock.owner = p THEN [lock EXCEPT !.signed = TRUE] ELSE lock
    /\ Goto(p, "check")
    /\ UNCHANGED <<disk, callVars, histVars, stolen>>

\* Variant: the revision is not compared.
CheckNothing(p) ==
    /\ pc[p] = "check" /\ Goto(p, "rename")
    /\ UNCHANGED <<disk, lock, callVars, histVars, stolen>>

CheckRevision(p) ==
    /\ pc[p] = "check"
    /\ Goto(p, IF kind[p] \in Conditional /\ disk.rev # base[p] THEN "conflict" ELSE "rename")
    /\ UNCHANGED <<disk, lock, callVars, histVars, stolen>>

\* Variant: a failure after the rename is reported as a conflict.
RenameThenFail(p) ==
    /\ pc[p] = "rename"
    /\ disk' = [form |-> "current", rev |-> newRev[p], content |-> draft[p]]
    /\ Goto(p, "conflict")
    /\ UNCHANGED <<lock, callVars, histVars, stolen>>

Rename(p) ==
    /\ pc[p] = "rename"
    /\ disk' = [form |-> "current", rev |-> newRev[p], content |-> draft[p]]
    /\ Goto(p, "committed")
    /\ UNCHANGED <<lock, callVars, histVars, stolen>>

\* The finally block removes the lock file by name, whoever created it.
Unlock(p) ==
    /\ lock' = NoLock
    /\ stolen' = (stolen \/ (lock.owner # p /\ Alive(lock.owner)))

\* Variant: a retry that neither re-reads nor counts.
ConflictStale(p) == Goto(p, "prepare") /\ UNCHANGED <<callVars, histVars>>

\* What a StoreConflictError leads to: an initial write reads what the other
\* process wrote, an update retries while attempts are left, and every other
\* write fails.
Conflict(p) ==
    \/ /\ kind[p] = "init"
       /\ Goto(p, "read") /\ UNCHANGED <<callVars, histVars>>
    \/ /\ kind[p] = "update" /\ attempt[p] < Retries
       /\ attempt' = [attempt EXCEPT ![p] = @ + 1]
       /\ Goto(p, "read")
       /\ UNCHANGED <<opNo, mode, kind, base, draft, newRev, histVars>>
    \/ /\ kind[p] # "init" /\ ~(kind[p] = "update" /\ attempt[p] < Retries)
       /\ failed' = failed \cup {Mine(p)}
       /\ Goto(p, "idle") /\ UNCHANGED <<callVars, acked>>

ReleaseConflict(p) ==
    /\ pc[p] = "conflict"
    /\ Unlock(p) /\ Conflict(p)
    /\ UNCHANGED disk

\* LOCK_WAIT_MS passed on a lock that looks alive, or cannot be parsed.
TimeOut(p) ==
    /\ pc[p] = "acquire" /\ lock # NoLock /\ ~Abandoned(lock)
    /\ Conflict(p)
    /\ UNCHANGED <<disk, lock, stolen>>

\* An update or a write returns; a nested initial write or migration resumes
\* the call it serves (an update re-reads, a write changes what it was given).
Return(p) ==
    \/ /\ kind[p] \in {"update", "write"}
       /\ acked' = acked \cup {Mine(p)}
       /\ Goto(p, "idle") /\ UNCHANGED <<callVars, failed>>
    \/ /\ kind[p] \in {"init", "migrate"} /\ mode[p] = "update"
       /\ Goto(p, IF kind[p] = "init" THEN "read" ELSE "revision")
       /\ UNCHANGED <<callVars, histVars>>
    \/ /\ kind[p] \in {"init", "migrate"} /\ mode[p] = "write"
       /\ Intend(p, "write", draft[p] \cup {Mine(p)}, base[p])
       /\ UNCHANGED <<opNo, mode, newRev, attempt, histVars>>

ReleaseCommitted(p) ==
    /\ pc[p] = "committed"
    /\ Unlock(p) /\ Return(p)
    /\ UNCHANGED disk

\* SIGKILL: the lock file, if any, stays behind.
Crash(p) ==
    /\ Alive(p) /\ Cardinality({q \in Proc : pc[q] = "dead"}) < MaxCrashes
    /\ Goto(p, "dead")
    /\ UNCHANGED <<disk, lock, callVars, histVars, stolen>>

Step(p) ==
    \/ Read(p) \/ ReadRevision(p) \/ Prepare(p) \/ Acquire(p) \/ Judge(p)
    \/ TakeOver(p) \/ TimeOut(p) \/ Sign(p) \/ CheckRevision(p) \/ Rename(p)
    \/ ReleaseConflict(p) \/ ReleaseCommitted(p)

Next == \E p \in Proc : Step(p) \/ Crash(p) \/ \E m \in Modes : Begin(p, m)

Spec == Init /\ [][Next]_vars

\* A process that runs keeps running; it need not start a call, nor crash.
FairSpec == Spec /\ \A p \in Proc : WF_vars(Step(p))
----------------------------------------------------------------------------
(* Properties.                                                             *)

\* At most one process is inside the critical section of withWriteLock, as
\* long as no lock was removed under a live owner (store.ts:338-389).
MutualExclusion ==
    ~stolen => \A p, q \in Proc : pc[p] \in Critical /\ pc[q] \in Critical => p = q

\* A lock is removed only by its owner or after its owner's death.
NoLockStolen == ~stolen

\* An update that returned to its caller stays in the file: "verlorene
\* Aktualisierungen gibt es nicht mehr" (store.ts:448-449).
NoLostUpdate == acked \subseteq disk.content

\* Theft of a lock is the only way an update is ever lost, whatever crashes.
LossNeedsTheft == ~stolen => NoLostUpdate

\* An operation that threw StoreConflictError left no trace in the file, in
\* whatever draft of another process it might have travelled.
FailedLeavesNoTrace == failed \cap disk.content = {}

\* Every revision stands for exactly one applied update (and the creation):
\* a retry never applies its update twice, a conflict never uses a revision up.
RevisionCountsUpdates ==
    ~stolen /\ disk.form = "current" => disk.rev = Cardinality(disk.content) + 1

\* Of a store that is only updated the revision only grows, so that a later
\* comparison of revisions is right (store.ts:399, 413-423).
RevisionMonotone == [][disk'.rev > disk.rev]_disk

Orphaned == lock # NoLock /\ ~Alive(lock.owner)

\* A call in progress comes back, with a result or a StoreConflictError, unless
\* a process died between creating the lock file and writing its pid: then the
\* first read of a missing store tries for ever (store.ts:287-296, 338-389).
CallsReturn ==
    \A p \in Proc : pc[p] # "idle" ~>
        pc[p] \in {"idle", "dead"} \/ (Orphaned /\ ~lock.signed)

\* A lock whose dead owner can be read in it does not outlast a waiter.
SignedOrphansGo ==
    \A p \in Proc : pc[p] = "acquire" /\ Orphaned /\ lock.signed ~> ~Orphaned \/ pc[p] = "dead"

\* The store implements the promise of transactional updates.
Promise == INSTANCE TransactionalStore WITH
    Update <- Op, content <- disk.content, revision <- disk.rev, answered <- acked

Implements == Promise!AbsSpec
----------------------------------------------------------------------------
(* The inductive invariant behind LossNeedsTheft and Implements, for stores *)
(* that are only updated and need no migration.                             *)

Writing == {"prepare", "acquire", "takeover", "sign", "check", "rename"}

\* The operation has begun and its update is not in the file yet.
Pending(p) ==
    pc[p] \in Writing \cup {"read", "conflict"} \/ (pc[p] = "committed" /\ kind[p] = "init")

OwnersInside == \A p \in Proc : pc[p] \in Critical => lock.owner = p

Shape ==
    /\ disk.form \in {"absent", "current"}
    /\ disk.form = "absent" => disk.rev = 0 /\ disk.content = {}
    /\ disk.form = "current" => disk.rev > 0
    /\ \A p \in Proc : mode[p] = "update" /\ kind[p] \in Conditional /\ pc[p] # "revision"
    /\ \A p \in Proc, n \in 1..MaxOps : <<p, n>> \in disk.content => n <= opNo[p]

\* A revision stands for one content: a draft whose base is the current
\* revision was made from the current content.
Snapshots ==
    \A p \in Proc : pc[p] \in Writing =>
        /\ base[p] <= disk.rev
        /\ kind[p] = "init" => base[p] = 0 /\ draft[p] = {}
        /\ kind[p] = "update" => base[p] > 0
        /\ kind[p] = "update" /\ base[p] = disk.rev => draft[p] = disk.content \cup {Mine(p)}
        /\ pc[p] # "prepare" => newRev[p] = base[p] + 1
        /\ pc[p] = "rename" => base[p] = disk.rev

Progress ==
    \A p \in Proc :
        /\ Pending(p) => Mine(p) \notin disk.content
        /\ pc[p] = "committed" /\ kind[p] = "update" => Mine(p) \in disk.content

\* Without theft every revision is one content, and only a pending operation
\* is missing from it (store.ts:391-432, 457-488).
SnapshotsTrustworthy == ~stolen => OwnersInside /\ Shape /\ Snapshots /\ Progress /\ NoLostUpdate
=============================================================================
