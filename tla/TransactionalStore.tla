------------------------- MODULE TransactionalStore -------------------------
(***************************************************************************)
(* What DurableStore.update promises its callers (the comments above       *)
(* update and readForUpdate in lib/persistence/store.ts): every update is  *)
(* applied exactly once, to the content left by the update before it, a    *)
(* revision is never used twice, and a caller that has its answer finds    *)
(* its update in the store for ever after.                                 *)
(***************************************************************************)
EXTENDS Naturals

CONSTANT Update          \* the updates callers may ask for

VARIABLES content,       \* the updates the document holds
          revision,      \* 0 while the document does not exist
          answered       \* the updates whose callers were told of success

absVars == <<content, revision, answered>>

AbsInit == content = {} /\ revision = 0 /\ answered = {}

CreateDocument ==
    /\ revision = 0 /\ revision' = 1
    /\ UNCHANGED <<content, answered>>

Apply(u) ==
    /\ revision > 0 /\ u \notin content
    /\ content' = content \cup {u}
    /\ revision' = revision + 1
    /\ UNCHANGED answered

Answer(u) ==
    /\ u \in content
    /\ answered' = answered \cup {u}
    /\ UNCHANGED <<content, revision>>

AbsNext == CreateDocument \/ \E u \in Update : Apply(u) \/ Answer(u)

AbsSpec == AbsInit /\ [][AbsNext]_absVars
=============================================================================
