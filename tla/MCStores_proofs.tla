--------------------------- MODULE MCStores_proofs ---------------------------
(***************************************************************************)
(* Theorems about DurableStore, for every set of processes and any number  *)
(* of operations and attempts; in the last section about the hostile store *)
(* of MCStores, which has variables of its own.                            *)
(***************************************************************************)
EXTENDS MCStores, FiniteSetTheorems, TLAPS

USE ProcAssumption, BoundAssumption, ModesAssumption, FlagsAssumption

\* The store, the lock and every process's call stay well-formed; attempts
\* never exceed STORE_CONFLICT_RETRIES (store.ts:473-488).
THEOREM TypeCorrect == Spec => []TypeOK
<1> USE DEF TypeOK, Labels, Critical, Conditional, Kinds
<1>1. Init => TypeOK
  <2> SUFFICES ASSUME Init PROVE TypeOK
    OBVIOUS
  <2>1. disk \in [form : {"absent", "old", "current"}, rev : Nat, content : SUBSET Op]
    BY DEF Init
  <2>2. 0 \in 0..MaxOps /\ 0 \in 0..Retries
    OBVIOUS
  <2>3. lock \in [owner : Proc \cup {Nobody}, signed : BOOLEAN]
    BY DEF Init, NoLock
  <2>4. acked \in SUBSET Op /\ failed \in SUBSET Op /\ stolen \in BOOLEAN
    BY DEF Init
  <2>5. QED BY <2>1, <2>2, <2>3, <2>4 DEF Init
<1>2. TypeOK /\ [Next]_vars => TypeOK'
  <2> SUFFICES ASSUME TypeOK, [Next]_vars PROVE TypeOK'
    OBVIOUS
  <2> USE DEF vars, callVars, histVars, Goto
  <2>0. \A p \in Proc : pc[p] \notin {"idle", "dead"} => Mine(p) \in Op
    BY DEF Op, Mine
  <2>1. ASSUME NEW p \in Proc, NEW m \in Modes, Begin(p, m) PROVE TypeOK'
    BY <2>1 DEF Begin
  <2>2. ASSUME NEW p \in Proc, Read(p) PROVE TypeOK'
    BY <2>0, <2>2 DEF Read, Intend
  <2>3. ASSUME NEW p \in Proc, ReadRevision(p) PROVE TypeOK'
    BY <2>0, <2>3 DEF ReadRevision, Intend
  <2>4. ASSUME NEW p \in Proc, Prepare(p) PROVE TypeOK'
    BY <2>4 DEF Prepare
  <2>5. ASSUME NEW p \in Proc, Acquire(p) PROVE TypeOK'
    BY <2>5 DEF Acquire
  <2>6. ASSUME NEW p \in Proc, Judge(p) PROVE TypeOK'
    BY <2>6 DEF Judge
  <2>7. ASSUME NEW p \in Proc, TakeOver(p) PROVE TypeOK'
    BY <2>7 DEF TakeOver, NoLock, Alive
  <2>8. ASSUME NEW p \in Proc, Sign(p) PROVE TypeOK'
    BY <2>8 DEF Sign
  <2>9. ASSUME NEW p \in Proc, CheckRevision(p) PROVE TypeOK'
    BY <2>9 DEF CheckRevision
  <2>10. ASSUME NEW p \in Proc, Rename(p) PROVE TypeOK'
    BY <2>10 DEF Rename
  <2>11. ASSUME NEW p \in Proc, pc[p] \in {"conflict", "acquire"}, Conflict(p), UNCHANGED disk,
                lock' \in [owner : Proc \cup {Nobody}, signed : BOOLEAN], stolen' \in BOOLEAN
         PROVE TypeOK'
    BY <2>0, <2>11 DEF Conflict
  <2>12. ASSUME NEW p \in Proc, ReleaseConflict(p) PROVE TypeOK'
    BY <2>11, <2>12 DEF ReleaseConflict, Unlock, NoLock, Alive
  <2>13. ASSUME NEW p \in Proc, TimeOut(p) PROVE TypeOK'
    BY <2>11, <2>13 DEF TimeOut
  <2>14. ASSUME NEW p \in Proc, ReleaseCommitted(p) PROVE TypeOK'
    <3>1. lock' \in [owner : Proc \cup {Nobody}, signed : BOOLEAN] /\ stolen' \in BOOLEAN
      BY <2>14 DEF ReleaseCommitted, Unlock, NoLock, Alive
    <3>2. QED BY <2>0, <2>14, <3>1 DEF ReleaseCommitted, Return, Intend
  <2>15. ASSUME NEW p \in Proc, Crash(p) PROVE TypeOK'
    BY <2>15 DEF Crash
  <2>16. CASE UNCHANGED vars
    BY <2>16
  <2>17. QED
    BY <2>1, <2>2, <2>3, <2>4, <2>5, <2>6, <2>7, <2>8, <2>9, <2>10, <2>12, <2>13,
       <2>14, <2>15, <2>16 DEF Next, Step
<1>3. QED
  BY <1>1, <1>2, PTL DEF Spec

----------------------------------------------------------------------------
(* Mutual exclusion.                                                       *)

\* While no lock has been removed under a live owner, whoever is inside the
\* critical section owns the lock file.
OwnInv == ~stolen => OwnersInside

LEMMA OwnersStep == TypeOK /\ OwnInv /\ [Next]_vars => OwnInv'
<1> SUFFICES ASSUME TypeOK, OwnInv, [Next]_vars, ~stolen' PROVE OwnersInside'
  BY DEF OwnInv
<1> USE DEF vars, callVars, histVars, Goto
<1> USE DEF TypeOK, Labels, Critical, OwnersInside, OwnInv
<1>1. ASSUME NEW p \in Proc, NEW m \in Modes, Begin(p, m) PROVE OwnersInside'
  BY <1>1 DEF Begin
<1>2. ASSUME NEW p \in Proc, Read(p) PROVE OwnersInside'
  BY <1>2 DEF Read, Intend
<1>3. ASSUME NEW p \in Proc, ReadRevision(p) PROVE OwnersInside'
  BY <1>3 DEF ReadRevision, Intend
<1>4. ASSUME NEW p \in Proc, Prepare(p) PROVE OwnersInside'
  BY <1>4 DEF Prepare
<1>5. ASSUME NEW p \in Proc, Acquire(p) PROVE OwnersInside'
  BY <1>5 DEF Acquire, NoLock
<1>6. ASSUME NEW p \in Proc, Judge(p) PROVE OwnersInside'
  BY <1>6 DEF Judge
<1>7. ASSUME NEW p \in Proc, TakeOver(p) PROVE OwnersInside'
  BY <1>7 DEF TakeOver, Alive
<1>8. ASSUME NEW p \in Proc, Sign(p) PROVE OwnersInside'
  BY <1>8 DEF Sign
<1>9. ASSUME NEW p \in Proc, CheckRevision(p) PROVE OwnersInside'
  BY <1>9 DEF CheckRevision
<1>10. ASSUME NEW p \in Proc, Rename(p) PROVE OwnersInside'
  BY <1>10 DEF Rename
<1>11. ASSUME NEW p \in Proc, ReleaseConflict(p) PROVE OwnersInside'
  <2>1. ~stolen /\ lock.owner = p
    BY <1>11 DEF ReleaseConflict, Unlock
  <2>2. \A q \in Proc \ {p} : pc'[q] = pc[q] /\ pc[q] \notin Critical
    BY <1>11, <2>1 DEF ReleaseConflict, Conflict
  <2>3. pc'[p] \notin Critical
    BY <1>11 DEF ReleaseConflict, Conflict
  <2>4. QED BY <2>2, <2>3
<1>12. ASSUME NEW p \in Proc, TimeOut(p) PROVE OwnersInside'
  BY <1>12 DEF TimeOut, Conflict
<1>13. ASSUME NEW p \in Proc, ReleaseCommitted(p) PROVE OwnersInside'
  <2>1. ~stolen /\ lock.owner = p
    BY <1>13 DEF ReleaseCommitted, Unlock
  <2>2. \A q \in Proc \ {p} : pc'[q] = pc[q] /\ pc[q] \notin Critical
    BY <1>13, <2>1 DEF ReleaseCommitted, Return, Intend
  <2>3. pc'[p] \notin Critical
    BY <1>13 DEF ReleaseCommitted, Return, Intend
  <2>4. QED BY <2>2, <2>3
<1>14. ASSUME NEW p \in Proc, Crash(p) PROVE OwnersInside'
  BY <1>14 DEF Crash
<1>15. CASE UNCHANGED vars
  BY <1>15
<1>16. QED
  BY <1>1, <1>2, <1>3, <1>4, <1>5, <1>6, <1>7, <1>8, <1>9, <1>10, <1>11, <1>12,
     <1>13, <1>14, <1>15 DEF Next, Step

\* Two processes are never inside withWriteLock's critical section together
\* unless a lock was removed under its live owner (store.ts:338-389).
THEOREM Exclusion == Spec => []MutualExclusion
<1>1. Init => OwnInv
  BY DEF Init, OwnInv, OwnersInside, Critical
<1>2. OwnInv => MutualExclusion
  BY DEF OwnInv, OwnersInside, MutualExclusion
<1>3. QED
  BY <1>1, <1>2, OwnersStep, TypeCorrect, PTL DEF Spec

----------------------------------------------------------------------------
(* When no lock is ever stolen.                                            *)

\* The premise: nobody is killed and nobody holds the lock for longer than
\* LOCK_STALE_MS.
Orderly == MaxCrashes = 0 /\ Stalls = FALSE

NobodyDead == \A p \in Proc : pc[p] # "dead"
NobodyTakes == \A p \in Proc : pc[p] # "takeover"

\* Without crashes and stalls no process ever takes a lock over, so that no
\* lock is removed under its owner (store.ts:358-368).
THEOREM OrderlyNoTheft == ASSUME Orderly PROVE Spec => []NoLockStolen
<1> DEFINE QInv == NobodyDead /\ NobodyTakes /\ ~stolen
<1>1. Init => QInv
  BY DEF Init, NobodyDead, NobodyTakes
<1>2. TypeOK /\ OwnInv /\ QInv /\ [Next]_vars => QInv'
  <2> SUFFICES ASSUME TypeOK, OwnInv, QInv, [Next]_vars PROVE QInv'
    OBVIOUS
  <2> USE DEF TypeOK, Labels, Critical, OwnInv, OwnersInside, NobodyDead, NobodyTakes,
          vars, callVars, histVars, Goto
  <2>1. ASSUME NEW p \in Proc, NEW m \in Modes, Begin(p, m) PROVE QInv'
    BY <2>1 DEF Begin
  <2>2. ASSUME NEW p \in Proc, Read(p) \/ ReadRevision(p) PROVE QInv'
    BY <2>2 DEF Read, ReadRevision, Intend
  <2>3. ASSUME NEW p \in Proc, Prepare(p) \/ Acquire(p) \/ Sign(p) \/ CheckRevision(p) \/ Rename(p)
        PROVE QInv'
    BY <2>3 DEF Prepare, Acquire, Sign, CheckRevision, Rename
  <2>4. ASSUME NEW p \in Proc, Judge(p) \/ TakeOver(p) PROVE FALSE
    BY <2>4 DEF Judge, TakeOver, Abandoned, Alive, Orderly
  <2>5. ASSUME NEW p \in Proc, TimeOut(p) PROVE QInv'
    BY <2>5 DEF TimeOut, Conflict
  <2>6. ASSUME NEW p \in Proc, ReleaseConflict(p) \/ ReleaseCommitted(p) PROVE QInv'
    <3>1. ~stolen'
      BY <2>6 DEF ReleaseConflict, ReleaseCommitted, Unlock
    <3>2. CASE ReleaseConflict(p)
      BY <3>1, <3>2 DEF ReleaseConflict, Conflict
    <3>3. CASE ReleaseCommitted(p)
      BY <3>1, <3>3 DEF ReleaseCommitted, Return, Intend
    <3>4. QED BY <2>6, <3>2, <3>3
  <2>7. ASSUME NEW p \in Proc, Crash(p) PROVE FALSE
    <3>1. {q \in Proc : pc[q] = "dead"} = {}
      OBVIOUS
    <3>2. Cardinality({q \in Proc : pc[q] = "dead"}) = 0
      BY <3>1, FS_EmptySet
    <3>3. QED BY <2>7, <3>2 DEF Crash, Orderly
  <2>8. CASE UNCHANGED vars
    BY <2>8
  <2>9. QED
    BY <2>1, <2>2, <2>3, <2>4, <2>5, <2>6, <2>7, <2>8 DEF Next, Step
<1>3. Init => OwnInv
  BY DEF Init, OwnInv, OwnersInside, Critical
<1>4. QED
  BY <1>1, <1>2, <1>3, OwnersStep, TypeCorrect, PTL DEF Spec, NoLockStolen

----------------------------------------------------------------------------
(* No lost update.                                                         *)

\* The premise: the store is only ever updated, and needs no migration.
UpdatesOnly == Modes = {"update"} /\ OldFormat = FALSE

LEMMA SnapshotsStep ==
    ASSUME UpdatesOnly, TypeOK, SnapshotsTrustworthy, OwnInv', [Next]_vars, ~stolen'
    PROVE  Shape' /\ Snapshots' /\ Progress' /\ NoLostUpdate'
<1> DEFINE Goal == Shape' /\ Snapshots' /\ Progress' /\ NoLostUpdate'
<1> USE DEF TypeOK, vars, callVars, histVars, Goto, Labels, Critical, Conditional, Kinds,
        UpdatesOnly, Writing, Pending, Mine
<1>0. ~stolen /\ OwnersInside /\ Shape /\ Snapshots /\ Progress /\ NoLostUpdate
  BY DEF SnapshotsTrustworthy, Next, Step, Begin, Read, ReadRevision, Prepare, Acquire, Judge, TakeOver, TimeOut, Sign,
     CheckRevision, Rename, ReleaseConflict, ReleaseCommitted, Unlock, Crash
<1>1. ASSUME NEW p \in Proc, NEW m \in Modes, Begin(p, m) PROVE Goal
  <2>1. Shape'
    BY <1>0, <1>1 DEF Begin, Shape
  <2>2. Snapshots'
    BY <1>0, <1>1 DEF Begin, Shape, Snapshots, Progress, OwnersInside
  <2>3. Progress'
    BY <1>0, <1>1 DEF Begin, Shape, Snapshots, Progress
  <2>4. NoLostUpdate'
    BY <1>0, <1>1 DEF Begin, Shape, Snapshots, Progress, NoLostUpdate
  <2>5. QED BY <2>1, <2>2, <2>3, <2>4
<1>2. ASSUME NEW p \in Proc, Read(p) PROVE Goal
  <2>1. Shape'
    BY <1>0, <1>2 DEF Read, Intend, Shape
  <2>2. Snapshots'
    BY <1>0, <1>2 DEF Read, Intend, Shape, Snapshots, Progress, OwnersInside
  <2>3. Progress'
    BY <1>0, <1>2 DEF Read, Intend, Shape, Snapshots, Progress
  <2>4. NoLostUpdate'
    BY <1>0, <1>2 DEF Read, Intend, Shape, Snapshots, Progress, NoLostUpdate
  <2>5. QED BY <2>1, <2>2, <2>3, <2>4
<1>3. ASSUME NEW p \in Proc, ReadRevision(p) PROVE Goal
  <2>1. Shape'
    BY <1>0, <1>3 DEF ReadRevision, Intend, Shape
  <2>2. Snapshots'
    BY <1>0, <1>3 DEF ReadRevision, Intend, Shape, Snapshots, Progress, OwnersInside
  <2>3. Progress'
    BY <1>0, <1>3 DEF ReadRevision, Intend, Shape, Snapshots, Progress
  <2>4. NoLostUpdate'
    BY <1>0, <1>3 DEF ReadRevision, Intend, Shape, Snapshots, Progress, NoLostUpdate
  <2>5. QED BY <2>1, <2>2, <2>3, <2>4
<1>4. ASSUME NEW p \in Proc, Prepare(p) PROVE Goal
  <2>1. Shape'
    BY <1>0, <1>4 DEF Prepare, Shape
  <2>2. Snapshots'
    BY <1>0, <1>4 DEF Prepare, Shape, Snapshots, Progress, OwnersInside
  <2>3. Progress'
    BY <1>0, <1>4 DEF Prepare, Shape, Snapshots, Progress
  <2>4. NoLostUpdate'
    BY <1>0, <1>4 DEF Prepare, Shape, Snapshots, Progress, NoLostUpdate
  <2>5. QED BY <2>1, <2>2, <2>3, <2>4
<1>5. ASSUME NEW p \in Proc, Acquire(p) PROVE Goal
  <2>1. Shape'
    BY <1>0, <1>5 DEF Acquire, Shape
  <2>2. Snapshots'
    BY <1>0, <1>5 DEF Acquire, Shape, Snapshots, Progress, OwnersInside
  <2>3. Progress'
    BY <1>0, <1>5 DEF Acquire, Shape, Snapshots, Progress
  <2>4. NoLostUpdate'
    BY <1>0, <1>5 DEF Acquire, Shape, Snapshots, Progress, NoLostUpdate
  <2>5. QED BY <2>1, <2>2, <2>3, <2>4
<1>6. ASSUME NEW p \in Proc, Judge(p) PROVE Goal
  <2>1. Shape'
    BY <1>0, <1>6 DEF Judge, Shape
  <2>2. Snapshots'
    BY <1>0, <1>6 DEF Judge, Shape, Snapshots, Progress, OwnersInside
  <2>3. Progress'
    BY <1>0, <1>6 DEF Judge, Shape, Snapshots, Progress
  <2>4. NoLostUpdate'
    BY <1>0, <1>6 DEF Judge, Shape, Snapshots, Progress, NoLostUpdate
  <2>5. QED BY <2>1, <2>2, <2>3, <2>4
<1>7. ASSUME NEW p \in Proc, TakeOver(p) PROVE Goal
  <2>1. Shape'
    BY <1>0, <1>7 DEF TakeOver, Shape
  <2>2. Snapshots'
    BY <1>0, <1>7 DEF TakeOver, Shape, Snapshots, Progress, OwnersInside
  <2>3. Progress'
    BY <1>0, <1>7 DEF TakeOver, Shape, Snapshots, Progress
  <2>4. NoLostUpdate'
    BY <1>0, <1>7 DEF TakeOver, Shape, Snapshots, Progress, NoLostUpdate
  <2>5. QED BY <2>1, <2>2, <2>3, <2>4
<1>8. ASSUME NEW p \in Proc, TimeOut(p) PROVE Goal
  <2>1. Shape'
    BY <1>0, <1>8 DEF TimeOut, Conflict, Shape
  <2>2. Snapshots'
    BY <1>0, <1>8 DEF TimeOut, Conflict, Shape, Snapshots, Progress, OwnersInside
  <2>3. Progress'
    BY <1>0, <1>8 DEF TimeOut, Conflict, Shape, Snapshots, Progress
  <2>4. NoLostUpdate'
    BY <1>0, <1>8 DEF TimeOut, Conflict, Shape, Snapshots, Progress, NoLostUpdate
  <2>5. QED BY <2>1, <2>2, <2>3, <2>4
<1>9. ASSUME NEW p \in Proc, Sign(p) PROVE Goal
  <2>1. Shape'
    BY <1>0, <1>9 DEF Sign, Shape
  <2>2. Snapshots'
    BY <1>0, <1>9 DEF Sign, Shape, Snapshots, Progress, OwnersInside
  <2>3. Progress'
    BY <1>0, <1>9 DEF Sign, Shape, Snapshots, Progress
  <2>4. NoLostUpdate'
    BY <1>0, <1>9 DEF Sign, Shape, Snapshots, Progress, NoLostUpdate
  <2>5. QED BY <2>1, <2>2, <2>3, <2>4
<1>10. ASSUME NEW p \in Proc, CheckRevision(p) PROVE Goal
  <2>1. Shape'
    BY <1>0, <1>10 DEF CheckRevision, Shape
  <2>2. Snapshots'
    BY <1>0, <1>10 DEF CheckRevision, Shape, Snapshots, Progress, OwnersInside
  <2>3. Progress'
    BY <1>0, <1>10 DEF CheckRevision, Shape, Snapshots, Progress
  <2>4. NoLostUpdate'
    BY <1>0, <1>10 DEF CheckRevision, Shape, Snapshots, Progress, NoLostUpdate
  <2>5. QED BY <2>1, <2>2, <2>3, <2>4
<1>11. ASSUME NEW p \in Proc, Rename(p) PROVE Goal
  <2>1. Shape'
    BY <1>0, <1>11 DEF Rename, Shape, Snapshots
  <2>2. Snapshots'
    BY <1>0, <1>11 DEF Rename, Shape, Snapshots, Progress, OwnersInside
  <2>3. Progress'
    BY <1>0, <1>11 DEF Rename, Shape, Snapshots, Progress
  <2>4. NoLostUpdate'
    BY <1>0, <1>11 DEF Rename, Shape, Snapshots, Progress, NoLostUpdate
  <2>5. QED BY <2>1, <2>2, <2>3, <2>4
<1>12. ASSUME NEW p \in Proc, ReleaseConflict(p) PROVE Goal
  <2>1. Shape'
    BY <1>0, <1>12 DEF ReleaseConflict, Conflict, Unlock, Shape
  <2>2. Snapshots'
    BY <1>0, <1>12 DEF ReleaseConflict, Conflict, Unlock, Shape, Snapshots, Progress, OwnersInside
  <2>3. Progress'
    BY <1>0, <1>12 DEF ReleaseConflict, Conflict, Unlock, Shape, Snapshots, Progress
  <2>4. NoLostUpdate'
    BY <1>0, <1>12 DEF ReleaseConflict, Conflict, Unlock, Shape, Snapshots, Progress, NoLostUpdate
  <2>5. QED BY <2>1, <2>2, <2>3, <2>4
<1>13. ASSUME NEW p \in Proc, ReleaseCommitted(p) PROVE Goal
  <2>1. Shape'
    BY <1>0, <1>13 DEF ReleaseCommitted, Return, Unlock, Shape
  <2>2. Snapshots'
    BY <1>0, <1>13 DEF ReleaseCommitted, Return, Unlock, Shape, Snapshots, Progress, OwnersInside
  <2>3. Progress'
    BY <1>0, <1>13 DEF ReleaseCommitted, Return, Unlock, Shape, Snapshots, Progress
  <2>4. NoLostUpdate'
    BY <1>0, <1>13 DEF ReleaseCommitted, Return, Unlock, Shape, Snapshots, Progress, NoLostUpdate
  <2>5. QED BY <2>1, <2>2, <2>3, <2>4
<1>14. ASSUME NEW p \in Proc, Crash(p) PROVE Goal
  <2>1. Shape'
    BY <1>0, <1>14 DEF Crash, Shape
  <2>2. Snapshots'
    BY <1>0, <1>14 DEF Crash, Shape, Snapshots, Progress, OwnersInside
  <2>3. Progress'
    BY <1>0, <1>14 DEF Crash, Shape, Snapshots, Progress
  <2>4. NoLostUpdate'
    BY <1>0, <1>14 DEF Crash, Shape, Snapshots, Progress, NoLostUpdate
  <2>5. QED BY <2>1, <2>2, <2>3, <2>4
<1>15. CASE UNCHANGED vars
  BY <1>0, <1>15 DEF Shape, Snapshots, Progress, NoLostUpdate
<1>16. QED
  BY <1>1, <1>2, <1>3, <1>4, <1>5, <1>6, <1>7, <1>8, <1>9, <1>10, <1>11, <1>12, <1>13, <1>14, <1>15 DEF Next, Step

\* In a store that is only updated, every revision stands for one content and
\* a draft's base revision is the content it was made from, until a lock is
\* stolen (store.ts:391-432, 457-488).
THEOREM SnapshotsSafe == ASSUME UpdatesOnly PROVE Spec => []SnapshotsTrustworthy
<1>1. Init => SnapshotsTrustworthy
  BY DEF Init, SnapshotsTrustworthy, UpdatesOnly, OwnersInside, Shape, Snapshots, Progress,
         NoLostUpdate, Critical, Conditional, Writing, Pending
<1>2. Init => OwnInv
  BY DEF Init, OwnInv, OwnersInside, Critical
<1>3. TypeOK /\ OwnInv /\ SnapshotsTrustworthy /\ [Next]_vars => SnapshotsTrustworthy'
  BY OwnersStep, SnapshotsStep DEF SnapshotsTrustworthy, OwnInv
<1>4. QED
  BY <1>1, <1>2, <1>3, OwnersStep, TypeCorrect, PTL DEF Spec

\* An acknowledged update is lost only if a lock was removed under its live
\* owner, whatever crashes and however the processes interleave.
THEOREM LossFreedom == ASSUME UpdatesOnly PROVE Spec => []LossNeedsTheft
<1>1. SnapshotsTrustworthy => LossNeedsTheft
  BY DEF SnapshotsTrustworthy, LossNeedsTheft
<1>2. QED
  BY <1>1, SnapshotsSafe, PTL

\* Without crashes and stalls the store implements the promise of
\* transactional updates: each update is applied once, to the content of the
\* update before it, and an answered update stays (store.ts:440-488).
THEOREM StoreImplements ==
    ASSUME UpdatesOnly, Orderly PROVE Spec => Implements
<1> DEFINE I == TypeOK /\ SnapshotsTrustworthy /\ ~stolen
<1>1. Init => Promise!AbsInit
  BY DEF Init, Promise!AbsInit, UpdatesOnly
<1>2. I /\ I' /\ [Next]_vars => [Promise!AbsNext]_(Promise!absVars)
  <2> SUFFICES ASSUME I, I', [Next]_vars PROVE [Promise!AbsNext]_(Promise!absVars)
    OBVIOUS
  <2> USE DEF vars, callVars, histVars, Goto, Promise!absVars, Promise!AbsNext
  <2>1. ASSUME NEW p \in Proc, Rename(p) PROVE [Promise!AbsNext]_(Promise!absVars)
    <3>1. kind[p] \in {"init", "update"} /\ base[p] = disk.rev /\ newRev[p] = disk.rev + 1
          /\ disk.rev \in Nat
      BY <2>1 DEF Rename, TypeOK, SnapshotsTrustworthy, Shape, Snapshots, Writing, Conditional
    <3>2. CASE kind[p] = "init"
      <4>1. disk.rev = 0 /\ disk.content = {} /\ draft[p] = {}
        BY <2>1, <3>1, <3>2 DEF Rename, TypeOK, SnapshotsTrustworthy, Shape, Snapshots, Writing
      <4>2. QED BY <2>1, <3>1, <4>1 DEF Rename, Promise!CreateDocument
    <3>3. CASE kind[p] = "update"
      <4>1. draft[p] = disk.content \cup {Mine(p)} /\ disk.rev > 0
        BY <2>1, <3>1, <3>3 DEF Rename, TypeOK, SnapshotsTrustworthy, Snapshots, Writing
      <4>2. Mine(p) \in Op /\ Mine(p) \notin disk.content
        BY <2>1 DEF Rename, TypeOK, SnapshotsTrustworthy, Progress, Pending, Writing, Mine, Op
      <4>3. Promise!Apply(Mine(p))
        BY <2>1, <3>1, <4>1, <4>2 DEF Rename, Promise!Apply
      <4>4. QED BY <4>2, <4>3
    <3>4. QED BY <3>1, <3>2, <3>3
  <2>2. ASSUME NEW p \in Proc, ReleaseCommitted(p) PROVE [Promise!AbsNext]_(Promise!absVars)
    <3>1. CASE acked' = acked \cup {Mine(p)} /\ kind[p] \in {"update", "write"}
      <4>1. Mine(p) \in Op /\ Mine(p) \in disk.content
        BY <2>2, <3>1 DEF ReleaseCommitted, TypeOK, SnapshotsTrustworthy, Shape, Progress, Mine, Op, Conditional
      <4>2. Promise!Answer(Mine(p))
        BY <2>2, <3>1, <4>1 DEF ReleaseCommitted, Promise!Answer
      <4>3. QED BY <4>1, <4>2
    <3>2. CASE UNCHANGED acked
      BY <2>2, <3>2 DEF ReleaseCommitted
    <3>3. QED BY <2>2, <3>1, <3>2 DEF ReleaseCommitted, Return
  <2>3. ASSUME NEW p \in Proc, NEW m \in Modes, Begin(p, m) PROVE UNCHANGED <<disk, acked>>
    BY <2>3 DEF Begin
  <2>4. ASSUME NEW p \in Proc, Read(p) \/ ReadRevision(p) \/ Prepare(p) \/ Acquire(p) \/ Judge(p)
                                \/ TakeOver(p) \/ Sign(p) \/ CheckRevision(p) \/ Crash(p)
        PROVE UNCHANGED <<disk, acked>>
    BY <2>4 DEF Read, ReadRevision, Intend, Prepare, Acquire, Judge, TakeOver, Sign, CheckRevision, Crash
  <2>5. ASSUME NEW p \in Proc, TimeOut(p) \/ ReleaseConflict(p) PROVE UNCHANGED <<disk, acked>>
    BY <2>5 DEF TimeOut, ReleaseConflict, Conflict
  <2>6. CASE UNCHANGED vars
    BY <2>6
  <2>7. QED
    BY <2>1, <2>2, <2>3, <2>4, <2>5, <2>6 DEF Next, Step
<1>3. QED
  BY <1>1, <1>2, TypeCorrect, SnapshotsSafe, OrderlyNoTheft, PTL
  DEF Spec, Implements, Promise!AbsSpec, NoLockStolen

----------------------------------------------------------------------------
(* The hostile store.                                                      *)

HostileTyped ==
    /\ file.content \in SUBSET Op
    /\ latch \in [owner : Proc \cup {Nobody}, signed : BOOLEAN]
    /\ at \in [Proc -> Hostile!Labels]
    /\ begun \in [Proc -> 0..MaxOps]
    /\ \A p \in Proc : at[p] \notin {"idle", "dead"} => begun[p] > 0
    /\ call \in [Proc -> {"update", "write"}]
    /\ write \in [Proc -> Hostile!Kinds]
    /\ next \in [Proc -> SUBSET Op]
    /\ refused \in SUBSET Op

\* Whoever is inside the critical section owns the lock file.
HostileOwners == ~taken => \A p \in Proc : at[p] \in Hostile!Critical => latch.owner = p

\* The operation is over, or about to be answered, and was not refused.
Landed(o) ==
    /\ o \notin refused /\ o[2] <= begun[o[1]]
    /\ o[2] = begun[o[1]] =>
          \/ at[o[1]] \in {"idle", "dead"}
          \/ at[o[1]] = "committed" /\ write[o[1]] \in {"update", "write"}

\* Where a draft may still reach the file, or be the ground of another one.
Carrying == {"revision", "prepare", "acquire", "takeover", "sign", "check", "rename", "committed"}

\* The draft was written for this operation and is not in the file.
Carries(p, o) ==
    /\ o = Hostile!Mine(p) /\ write[p] \in {"update", "write"}
    /\ at[p] \notin {"revision", "committed"}

\* What the file holds has landed, and so has what a draft holds, but for the
\* operation it was written for; who was refused does not go on.
FileLanded == \A o \in file.content : Landed(o)
DraftsLanded == \A p \in Proc : at[p] \in Carrying => \A o \in next[p] : Landed(o) \/ Carries(p, o)
RefusedOver ==
    \A o \in refused : o[2] <= begun[o[1]] /\ (o[2] = begun[o[1]] => at[o[1]] \in {"idle", "dead"})

HostileInv == HostileTyped /\ HostileOwners /\ FileLanded /\ DraftsLanded /\ RefusedOver

LEMMA HostileInit == Hostile!Init => HostileInv
<1> SUFFICES ASSUME Hostile!Init PROVE HostileInv
  OBVIOUS
<1>1. HostileTyped
  <2>1. file.content \in SUBSET Op
    BY DEF Hostile!Init
  <2>2. latch \in [owner : Proc \cup {Nobody}, signed : BOOLEAN] /\ 0 \in 0..MaxOps
    BY DEF Hostile!Init, Hostile!NoLock
  <2> QED BY <2>1, <2>2 DEF Hostile!Init, HostileTyped, Hostile!Labels, Hostile!Kinds
<1>2. HostileOwners /\ FileLanded /\ DraftsLanded /\ RefusedOver
  BY DEF Hostile!Init, HostileOwners, FileLanded, DraftsLanded, RefusedOver, Hostile!Critical, Carrying
<1> QED BY <1>1, <1>2 DEF HostileInv

\* Every step keeps the types.
LEMMA HostileTypes == ASSUME HostileTyped, Hostile!Next PROVE HostileTyped'
<1> USE DEF HostileTyped, Hostile!Labels, Hostile!Critical, Hostile!Conditional, Hostile!Kinds,
            Hostile!callVars, Hostile!histVars, Hostile!Goto
<1>0. \A p \in Proc : at[p] \notin {"idle", "dead"} => Hostile!Mine(p) \in Op
  BY DEF Op, Hostile!Mine
<1>1. ASSUME NEW p \in Proc, NEW m \in BothModes, Hostile!Begin(p, m) PROVE HostileTyped'
  BY <1>1 DEF Hostile!Begin, BothModes
<1>2. ASSUME NEW p \in Proc, Hostile!Read(p) \/ Hostile!ReadRevision(p) PROVE HostileTyped'
  BY <1>0, <1>2 DEF Hostile!Read, Hostile!ReadRevision, Hostile!Intend
<1>3. ASSUME NEW p \in Proc, Hostile!Prepare(p) \/ Hostile!Judge(p) \/ Hostile!CheckRevision(p) \/ Hostile!Crash(p)
      PROVE HostileTyped'
  BY <1>3 DEF Hostile!Prepare, Hostile!Judge, Hostile!CheckRevision, Hostile!Crash, Hostile!Alive
<1>4. ASSUME NEW p \in Proc, Hostile!Acquire(p) \/ Hostile!TakeOver(p) \/ Hostile!Sign(p) PROVE HostileTyped'
  <2>1. latch' \in [owner : Proc \cup {Nobody}, signed : BOOLEAN]
    <3>1. CASE Hostile!Acquire(p)
      BY <3>1 DEF Hostile!Acquire
    <3>2. CASE Hostile!TakeOver(p)
      BY <3>2 DEF Hostile!TakeOver, Hostile!NoLock
    <3>3. CASE Hostile!Sign(p)
      BY <3>3 DEF Hostile!Sign
    <3> QED BY <1>4, <3>1, <3>2, <3>3
  <2> QED BY <1>4, <2>1 DEF Hostile!Acquire, Hostile!TakeOver, Hostile!Sign
<1>5. ASSUME NEW p \in Proc, Hostile!Rename(p) PROVE HostileTyped'
  BY <1>5 DEF Hostile!Rename
<1>6. ASSUME NEW p \in Proc, at[p] \in {"conflict", "acquire"}, Hostile!Conflict(p), UNCHANGED file,
             latch' \in [owner : Proc \cup {Nobody}, signed : BOOLEAN]
      PROVE  HostileTyped'
  BY <1>0, <1>6 DEF Hostile!Conflict
<1>7. ASSUME NEW p \in Proc, Hostile!ReleaseConflict(p) \/ Hostile!TimeOut(p) PROVE HostileTyped'
  <2>1. latch' \in [owner : Proc \cup {Nobody}, signed : BOOLEAN]
    <3>1. CASE Hostile!ReleaseConflict(p)
      BY <3>1 DEF Hostile!ReleaseConflict, Hostile!Unlock, Hostile!NoLock
    <3>2. CASE Hostile!TimeOut(p)
      BY <3>2 DEF Hostile!TimeOut
    <3> QED BY <1>7, <3>1, <3>2
  <2> QED BY <1>6, <1>7, <2>1 DEF Hostile!ReleaseConflict, Hostile!TimeOut
<1>8. ASSUME NEW p \in Proc, Hostile!ReleaseCommitted(p) PROVE HostileTyped'
  <2>1. latch' \in [owner : Proc \cup {Nobody}, signed : BOOLEAN]
    BY <1>8 DEF Hostile!ReleaseCommitted, Hostile!Unlock, Hostile!NoLock
  <2> QED BY <1>0, <1>8, <2>1 DEF Hostile!ReleaseCommitted, Hostile!Return, Hostile!Intend
<1> QED BY <1>1, <1>2, <1>3, <1>4, <1>5, <1>7, <1>8 DEF Hostile!Next, Hostile!Step

\* A lock taken under its living owner is remembered; otherwise the owner of the
\* lock file stays who it is, or nobody is inside.
LEMMA HostileOwnersKept == ASSUME HostileTyped, HostileOwners, Hostile!Next PROVE HostileOwners'
<1> SUFFICES ASSUME ~taken' PROVE \A q \in Proc : at'[q] \in Hostile!Critical => latch'.owner = q
  BY DEF HostileOwners
<1> USE DEF HostileTyped, Hostile!Labels, Hostile!Critical, Hostile!callVars, Hostile!histVars, Hostile!Goto,
            HostileOwners
<1>1. ASSUME NEW p \in Proc, NEW m \in BothModes, Hostile!Begin(p, m) PROVE HostileOwners'
  BY <1>1 DEF Hostile!Begin
<1>2. ASSUME NEW p \in Proc, Hostile!Read(p) \/ Hostile!ReadRevision(p) PROVE HostileOwners'
  BY <1>2 DEF Hostile!Read, Hostile!ReadRevision, Hostile!Intend
<1>3. ASSUME NEW p \in Proc, Hostile!Prepare(p) \/ Hostile!Judge(p) \/ Hostile!CheckRevision(p) \/ Hostile!Crash(p)
                              \/ Hostile!Rename(p)
      PROVE HostileOwners'
  BY <1>3 DEF Hostile!Prepare, Hostile!Judge, Hostile!CheckRevision, Hostile!Crash, Hostile!Rename
<1>4. ASSUME NEW p \in Proc, Hostile!Acquire(p) \/ Hostile!Sign(p) PROVE HostileOwners'
  BY <1>4 DEF Hostile!Acquire, Hostile!Sign, Hostile!NoLock
<1>5. ASSUME NEW p \in Proc, Hostile!TakeOver(p) PROVE HostileOwners'
  BY <1>5 DEF Hostile!TakeOver, Hostile!Alive
<1>6. ASSUME NEW p \in Proc, Hostile!TimeOut(p) PROVE HostileOwners'
  BY <1>6 DEF Hostile!TimeOut, Hostile!Conflict
<1>7. ASSUME NEW p \in Proc, Hostile!ReleaseConflict(p) \/ Hostile!ReleaseCommitted(p) PROVE HostileOwners'
  <2>1. ~taken /\ latch.owner = p
    BY <1>7 DEF Hostile!ReleaseConflict, Hostile!ReleaseCommitted, Hostile!Unlock, Hostile!Alive
  <2>2. \A q \in Proc \ {p} : at'[q] = at[q] /\ at[q] \notin Hostile!Critical
    BY <1>7, <2>1 DEF Hostile!ReleaseConflict, Hostile!ReleaseCommitted, Hostile!Conflict, Hostile!Return, Hostile!Intend
  <2>3. at'[p] \notin Hostile!Critical
    BY <1>7 DEF Hostile!ReleaseConflict, Hostile!ReleaseCommitted, Hostile!Conflict, Hostile!Return, Hostile!Intend
  <2> QED BY <2>2, <2>3
<1> QED BY <1>1, <1>2, <1>3, <1>4, <1>5, <1>6, <1>7 DEF Hostile!Next, Hostile!Step

\* An operation that has landed stays so, unless its own process goes on with it.
LEMMA LandedStays ==
    ASSUME HostileTyped, HostileTyped', NEW p \in Proc, NEW o \in Op, Landed(o),
           \A q \in Proc : q # p => at'[q] = at[q] /\ write'[q] = write[q] /\ begun'[q] = begun[q],
           begun'[p] >= begun[p], refused' \in {refused, refused \cup {Hostile!Mine(p)}},
           o = Hostile!Mine(p) => o \notin refused',
           o = Hostile!Mine(p) /\ begun'[p] = begun[p] =>
               at'[p] \in {"idle", "dead"} \/ (at'[p] = "committed" /\ write'[p] \in {"update", "write"})
    PROVE  Landed(o)'
<1>1. o = <<o[1], o[2]>> /\ o[1] \in Proc /\ o[2] \in Nat
  BY DEF Op
<1>2. o \notin refused'
  BY DEF Landed
<1>3. CASE o[1] # p
  BY <1>1, <1>2, <1>3 DEF Landed
<1>4. CASE o[1] = p
  BY <1>1, <1>2, <1>4 DEF Landed, Hostile!Mine, HostileTyped
<1> QED BY <1>3, <1>4

Traceless == FileLanded /\ DraftsLanded /\ RefusedOver

\* A step of one process keeps all three, if what it puts into its draft has
\* landed but for its own operation, and what it puts into the file has landed.
LEMMA TracelessMoves ==
    ASSUME HostileTyped, HostileTyped', Traceless, NEW p \in Proc,
           \A q \in Proc : q # p => /\ at'[q] = at[q] /\ write'[q] = write[q]
                                    /\ begun'[q] = begun[q] /\ next'[q] = next[q],
           begun'[p] >= begun[p], refused' \in {refused, refused \cup {Hostile!Mine(p)}},
           Landed(Hostile!Mine(p)) /\ begun'[p] = begun[p] =>
               at'[p] \in {"idle", "dead"} \/ (at'[p] = "committed" /\ write'[p] \in {"update", "write"}),
           Landed(Hostile!Mine(p)) => UNCHANGED refused,
           begun'[p] = begun[p] => (at[p] \in {"idle", "dead"} => at'[p] \in {"idle", "dead"}),
           refused' # refused => at'[p] \in {"idle", "dead"},
           at'[p] \in Carrying => \A o \in next'[p] : Landed(o)' \/ Carries(p, o)',
           file'.content = file.content \/ (file'.content = next'[p] /\ at'[p] = "committed")
    PROVE  Traceless'
<1>1. \A o \in Op : Landed(o) => Landed(o)'
  <2> SUFFICES ASSUME NEW o \in Op, Landed(o) PROVE Landed(o)'
    OBVIOUS
  <2>1. o = Hostile!Mine(p) => o \notin refused'
    BY DEF Landed
  <2> QED BY <2>1, LandedStays
<1>2. DraftsLanded'
  <2> SUFFICES ASSUME NEW q \in Proc, q # p, at'[q] \in Carrying, NEW o \in next'[q]
               PROVE  Landed(o)' \/ Carries(q, o)'
    BY DEF DraftsLanded
  <2>1. Landed(o) \/ Carries(q, o)
    BY DEF Traceless, DraftsLanded
  <2>2. o \in Op
    BY DEF HostileTyped
  <2> QED BY <1>1, <2>1, <2>2 DEF Carries, Hostile!Mine
<1>3. FileLanded'
  <2>1. CASE file'.content = file.content
    BY <1>1, <2>1 DEF Traceless, FileLanded, HostileTyped
  <2>2. CASE file'.content = next'[p] /\ at'[p] = "committed"
    BY <2>2 DEF FileLanded, Carries, Carrying
  <2> QED BY <2>1, <2>2
<1>4. RefusedOver'
  <2> SUFFICES ASSUME NEW o \in refused'
               PROVE  o[2] <= begun'[o[1]] /\ (o[2] = begun'[o[1]] => at'[o[1]] \in {"idle", "dead"})
    BY DEF RefusedOver
  <2>1. o \in Op /\ o[1] \in Proc /\ o[2] \in Nat
    BY DEF HostileTyped, Op
  <2>2. CASE o \in refused
    <3>1. o[2] <= begun[o[1]] /\ (o[2] = begun[o[1]] => at[o[1]] \in {"idle", "dead"})
      BY <2>2 DEF Traceless, RefusedOver
    <3>2. CASE o[1] = p
      BY <2>1, <3>1, <3>2 DEF HostileTyped
    <3>3. CASE o[1] # p
      BY <2>1, <3>1, <3>3 DEF HostileTyped
    <3> QED BY <3>2, <3>3
  <2>3. CASE o \notin refused
    BY <2>3 DEF Hostile!Mine, HostileTyped
  <2> QED BY <2>2, <2>3
<1> QED BY <1>2, <1>3, <1>4 DEF Traceless

\* Every step of the hostile store is such a step.
LEMMA TracelessNext ==
    ASSUME HostileTyped, HostileTyped', Traceless, Hostile!Next
    PROVE  Traceless'
<1> USE DEF Hostile!callVars, Hostile!histVars, Hostile!Goto
<1>0. ASSUME NEW p \in Proc PROVE Landed(Hostile!Mine(p)) =>
             at[p] \in {"idle", "dead"} \/ (at[p] = "committed" /\ write[p] \in {"update", "write"})
  BY <1>0 DEF Landed, Hostile!Mine
<1>1. ASSUME NEW p \in Proc, NEW m \in BothModes, Hostile!Begin(p, m) PROVE Traceless'
  <2>1. /\ \A q \in Proc : q # p => /\ at'[q] = at[q] /\ write'[q] = write[q]
                                    /\ begun'[q] = begun[q] /\ next'[q] = next[q]
        /\ begun'[p] = begun[p] + 1 /\ begun[p] \in Nat /\ at'[p] = "read"
        /\ UNCHANGED <<refused, file>>
    BY <1>1 DEF Hostile!Begin, HostileTyped
  <2> QED BY <2>1, TracelessMoves DEF Carrying
<1>2. ASSUME NEW p \in Proc, Hostile!Crash(p) PROVE Traceless'
  <2>1. /\ \A q \in Proc : q # p => /\ at'[q] = at[q] /\ write'[q] = write[q]
                                    /\ begun'[q] = begun[q] /\ next'[q] = next[q]
        /\ begun'[p] = begun[p] /\ begun[p] \in Nat /\ at'[p] = "dead"
        /\ UNCHANGED <<refused, file>>
    BY <1>2 DEF Hostile!Crash, HostileTyped
  <2> QED BY <2>1, TracelessMoves DEF Carrying
<1>3. ASSUME NEW p \in Proc, NEW k \in {"init", "migrate", "update", "write"}, NEW content, NEW rev,
             at[p] \in {"read", "revision"} \/ (at[p] = "committed" /\ write[p] \in {"init", "migrate"}),
             Hostile!Intend(p, k, content, rev), UNCHANGED <<refused, file, begun>>,
             \A o \in content : Landed(o) \/ (o = Hostile!Mine(p) /\ k \in {"update", "write"})
      PROVE  Traceless'
  <2>1. /\ \A q \in Proc : q # p => /\ at'[q] = at[q] /\ write'[q] = write[q]
                                    /\ begun'[q] = begun[q] /\ next'[q] = next[q]
        /\ begun'[p] = begun[p] /\ begun[p] \in Nat /\ at'[p] = "prepare" /\ write'[p] = k /\ next'[p] = content
    BY <1>3 DEF Hostile!Intend, HostileTyped
  <2>2. ~Landed(Hostile!Mine(p)) /\ at[p] \notin {"idle", "dead"}
    BY <1>0, <1>3
  <2>3. \A o \in content : Landed(o)' \/ Carries(p, o)'
    <3> SUFFICES ASSUME NEW o \in content PROVE Landed(o)' \/ Carries(p, o)'
      OBVIOUS
    <3>1. CASE Landed(o)
      <4>1. o \in Op /\ o # Hostile!Mine(p)
        BY <2>1, <2>2, <3>1 DEF HostileTyped
      <4> QED BY <1>3, <2>1, <3>1, <4>1, LandedStays
    <3>2. CASE o = Hostile!Mine(p) /\ k \in {"update", "write"}
      BY <1>3, <2>1, <3>2 DEF Carries, Hostile!Mine
    <3> QED BY <1>3, <3>1, <3>2
  <2> QED BY <1>3, <2>1, <2>2, <2>3, TracelessMoves
<1>4. ASSUME NEW p \in Proc, Hostile!Read(p) PROVE Traceless'
  <2>1. \A o \in file.content : Landed(o)
    BY DEF Traceless, FileLanded
  <2>2. call[p] \in {"update", "write"}
    BY DEF HostileTyped
  <2> QED BY <1>3, <1>4, <2>1, <2>2 DEF Hostile!Read
<1>5. ASSUME NEW p \in Proc, Hostile!ReadRevision(p) PROVE Traceless'
  <2>1. \A o \in next[p] : Landed(o)
    BY <1>5 DEF Hostile!ReadRevision, Traceless, DraftsLanded, Carries, Carrying
  <2> QED BY <1>3, <1>5, <2>1 DEF Hostile!ReadRevision
<1>6. ASSUME NEW p \in Proc, UNCHANGED <<file, begun, write, next, refused>>,
             \A q \in Proc : q # p => at'[q] = at[q],
             at[p] \notin {"idle", "dead", "committed", "revision"},
             at'[p] \notin {"committed", "revision"}, at'[p] \in Carrying => at[p] \in Carrying
      PROVE  Traceless'
  <2>1. /\ \A q \in Proc : q # p => /\ at'[q] = at[q] /\ write'[q] = write[q]
                                    /\ begun'[q] = begun[q] /\ next'[q] = next[q]
        /\ begun'[p] = begun[p] /\ begun[p] \in Nat
    BY <1>6 DEF HostileTyped
  <2>2. ~Landed(Hostile!Mine(p))
    BY <1>0, <1>6
  <2>3. ASSUME at'[p] \in Carrying, NEW o \in next[p] PROVE Landed(o)' \/ Carries(p, o)'
    <3>1. Landed(o) \/ Carries(p, o)
      BY <1>6, <2>3 DEF Traceless, DraftsLanded
    <3>2. CASE Landed(o)
      <4>1. o \in Op /\ o # Hostile!Mine(p)
        BY <2>2, <2>3, <3>2 DEF HostileTyped
      <4> QED BY <1>6, <2>1, <3>2, <4>1, LandedStays
    <3>3. CASE Carries(p, o)
      BY <1>6, <2>1, <3>3 DEF Carries, Hostile!Mine
    <3> QED BY <3>1, <3>2, <3>3
  <2> QED BY <1>6, <2>1, <2>2, <2>3, TracelessMoves
<1>7. ASSUME NEW p \in Proc, Hostile!Prepare(p) \/ Hostile!Acquire(p) \/ Hostile!Judge(p) \/ Hostile!TakeOver(p)
                              \/ Hostile!Sign(p) \/ Hostile!CheckRevision(p)
      PROVE  Traceless'
  <2>1. /\ UNCHANGED <<file, begun, write, next, refused>> /\ \A q \in Proc : q # p => at'[q] = at[q]
        /\ at[p] \in {"prepare", "acquire", "takeover", "sign", "check"}
        /\ at'[p] \in {"acquire", "takeover", "sign", "check", "rename", "conflict"}
    BY <1>7 DEF Hostile!Prepare, Hostile!Acquire, Hostile!Judge, Hostile!TakeOver, Hostile!Sign,
       Hostile!CheckRevision, HostileTyped
  <2> QED BY <1>6, <2>1 DEF Carrying
<1>8. ASSUME NEW p \in Proc, Hostile!Rename(p) PROVE Traceless'
  <2>1. /\ \A q \in Proc : q # p => /\ at'[q] = at[q] /\ write'[q] = write[q]
                                    /\ begun'[q] = begun[q] /\ next'[q] = next[q]
        /\ begun'[p] = begun[p] /\ begun[p] \in Nat /\ at'[p] = "committed" /\ file'.content = next[p]
        /\ at[p] = "rename" /\ UNCHANGED <<begun, write, next, refused>>
    BY <1>8 DEF Hostile!Rename, HostileTyped
  <2>2. ~Landed(Hostile!Mine(p)) /\ Hostile!Mine(p) \notin refused
    BY <1>0, <2>1 DEF Traceless, RefusedOver, Hostile!Mine
  <2>3. ASSUME NEW o \in next[p] PROVE Landed(o)'
    <3>1. Landed(o) \/ Carries(p, o)
      BY <2>1 DEF Traceless, DraftsLanded, Carrying
    <3>2. CASE Landed(o)
      <4>1. o \in Op /\ o # Hostile!Mine(p)
        BY <2>2, <3>2 DEF HostileTyped
      <4> QED BY <2>1, <3>2, <4>1, LandedStays
    <3>3. CASE Carries(p, o)
      BY <2>1, <2>2, <3>3 DEF Carries, Hostile!Mine, Landed
    <3> QED BY <3>1, <3>2, <3>3
  <2> QED BY <2>1, <2>2, <2>3, TracelessMoves
<1>9. ASSUME NEW p \in Proc, at[p] \in {"conflict", "acquire"}, Hostile!Conflict(p), UNCHANGED file PROVE Traceless'
  <2>1. CASE at' = [at EXCEPT ![p] = "read"] /\ UNCHANGED <<begun, write, next, refused>>
    <3>1. at'[p] = "read" /\ \A q \in Proc : q # p => at'[q] = at[q]
      BY <2>1 DEF HostileTyped
    <3> QED BY <1>6, <1>9, <2>1, <3>1 DEF Carrying
  <2>2. CASE /\ at' = [at EXCEPT ![p] = "idle"] /\ UNCHANGED <<begun, write, next>>
             /\ refused' = refused \cup {Hostile!Mine(p)}
    <3>1. /\ \A q \in Proc : q # p => /\ at'[q] = at[q] /\ write'[q] = write[q]
                                      /\ begun'[q] = begun[q] /\ next'[q] = next[q]
          /\ begun'[p] = begun[p] /\ begun[p] \in Nat /\ at'[p] = "idle"
      BY <2>2 DEF HostileTyped
    <3>2. ~Landed(Hostile!Mine(p))
      BY <1>0, <1>9
    <3> QED BY <1>9, <2>2, <3>1, <3>2, TracelessMoves DEF Carrying
  <2> QED BY <1>9, <2>1, <2>2 DEF Hostile!Conflict
<1>10. ASSUME NEW p \in Proc, Hostile!ReleaseConflict(p) \/ Hostile!TimeOut(p) PROVE Traceless'
  BY <1>9, <1>10 DEF Hostile!ReleaseConflict, Hostile!TimeOut
<1>11. ASSUME NEW p \in Proc, Hostile!ReleaseCommitted(p) PROVE Traceless'
  <2>1. at[p] = "committed" /\ UNCHANGED file /\ Hostile!Return(p)
    BY <1>11 DEF Hostile!ReleaseCommitted
  <2>2. \A o \in next[p] : Landed(o)
    BY <2>1 DEF Traceless, DraftsLanded, Carries, Carrying
  <2>3. ASSUME NEW label \in {"idle", "read", "revision"}, at' = [at EXCEPT ![p] = label],
               UNCHANGED <<begun, write, next, refused>>, label = "idle" \/ write[p] \in {"init", "migrate"}
        PROVE  Traceless'
    <3>1. /\ \A q \in Proc : q # p => /\ at'[q] = at[q] /\ write'[q] = write[q]
                                      /\ begun'[q] = begun[q] /\ next'[q] = next[q]
          /\ begun'[p] = begun[p] /\ begun[p] \in Nat /\ at'[p] = label
      BY <2>3 DEF HostileTyped
    <3>2. Landed(Hostile!Mine(p)) => label = "idle"
      BY <1>0, <2>1, <2>3
    <3>3. ASSUME label \in Carrying, NEW o \in next[p] PROVE Landed(o)'
      <4>1. o \in Op /\ Landed(o) /\ label # "idle"
        BY <2>2, <3>3 DEF HostileTyped, Carrying
      <4> QED BY <2>3, <3>1, <3>2, <4>1, LandedStays
    <3> QED BY <2>1, <2>3, <3>1, <3>2, <3>3, TracelessMoves
  <2>4. ASSUME write[p] \in {"init", "migrate"}, Hostile!Intend(p, "write", next[p] \cup {Hostile!Mine(p)}, seen[p]),
               UNCHANGED <<begun, refused>>
        PROVE  Traceless'
    BY <1>3, <2>1, <2>2, <2>4
  <2> QED BY <2>1, <2>3, <2>4 DEF Hostile!Return
<1> QED BY <1>1, <1>2, <1>4, <1>5, <1>7, <1>8, <1>10, <1>11 DEF Hostile!Next, Hostile!Step

LEMMA HostileAlways == AnySpec => []HostileInv
<1>1. AnyInit => HostileInv
  BY HostileInit DEF AnyInit
<1>2. HostileInv /\ [AnyNext]_anyVars => HostileInv'
  <2> SUFFICES ASSUME HostileInv, [AnyNext]_anyVars PROVE HostileInv'
    OBVIOUS
  <2>1. CASE Hostile!Next
    BY <2>1, HostileTypes, HostileOwnersKept, TracelessNext DEF HostileInv, Traceless
  <2>2. CASE UNCHANGED hostileVars
    BY <2>2 DEF hostileVars, HostileInv, HostileTyped, HostileOwners, FileLanded, DraftsLanded, RefusedOver,
       Landed, Carries, Hostile!Mine
  <2> QED BY <2>1, <2>2 DEF AnyNext, anyVars
<1> QED BY <1>1, <1>2, PTL DEF AnySpec

\* Until a lock is stolen at most one process is in the critical section of the
\* hostile store, however its calls migrate, overwrite and stall
\* (store.ts:338-389).
THEOREM HostileExclusion == AnySpec => []Exclusive
<1>1. HostileInv => Exclusive
  BY DEF HostileInv, HostileOwners, Exclusive, Hostile!MutualExclusion
<1> QED BY <1>1, HostileAlways, PTL

\* What was refused with a StoreConflictError is not in the file, in whatever
\* draft it was and whoever writes over whom, even when locks are stolen
\* (store.ts:457-488).
THEOREM RefusedIsNowhere == AnySpec => []RefusedLeavesNoTrace
<1>1. HostileInv => RefusedLeavesNoTrace
  BY DEF HostileInv, FileLanded, Landed, RefusedLeavesNoTrace, Hostile!FailedLeavesNoTrace
<1> QED BY <1>1, HostileAlways, PTL
=============================================================================
