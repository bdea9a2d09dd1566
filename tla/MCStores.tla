------------------------------ MODULE MCStores ------------------------------
(* Two stores that share nothing, checked in one run: the initial state      *)
(* chooses the one that is used.  The first is the module with the constants *)
(* of the configuration: it is only updated, and nobody stalls.  The hostile *)
(* one is updated and written over, starts in an old version, and its lock   *)
(* holders stall past LOCK_STALE_MS.                                         *)
EXTENDS MCDurableStore

VARIABLES
    used,
    file, latch, at, begun, call, write, seen, next, number, tries, done, refused, taken

Hostile == INSTANCE DurableStore WITH
    Modes <- BothModes, MaxCrashes <- 0, Stalls <- TRUE, OldFormat <- TRUE,
    disk <- file, lock <- latch, pc <- at, opNo <- begun, mode <- call, kind <- write, base <- seen,
    draft <- next, newRev <- number, attempt <- tries, acked <- done, failed <- refused, stolen <- taken

hostileVars == <<file, latch, at, begun, call, write, seen, next, number, tries, done, refused, taken>>
anyVars == <<used, vars, hostileVars>>

AnyInit == used \in {"orderly", "hostile"} /\ Init /\ Hostile!Init

AnyNext ==
    /\ \/ used = "orderly" /\ Next /\ UNCHANGED hostileVars
       \/ used = "hostile" /\ Hostile!Next /\ UNCHANGED vars
    /\ UNCHANGED used

\* A process that runs keeps running; only the orderly store is asked for liveness.
AnySpec ==
    /\ AnyInit /\ [][AnyNext]_anyVars
    /\ \A p \in Proc : WF_anyVars(Step(p) /\ UNCHANGED <<used, hostileVars>>)

----------------------------------------------------------------------------
(* What the hostile store still promises.                                    *)

\* MutualExclusion of the hostile store: nobody else is in the critical
\* section until a lock has been stolen (store.ts:338-389).
Exclusive == Hostile!MutualExclusion

\* FailedLeavesNoTrace of the hostile store: what was refused is not in the
\* file, though others write over each other (store.ts:457-488).
RefusedLeavesNoTrace == Hostile!FailedLeavesNoTrace
==============================================================================
