--------------------------- MODULE Releases_proofs ---------------------------
(***************************************************************************)
(* Theorems about Releases, for any requests, builds, releases,            *)
(* deployments and numbers of calls, whatever the supervisor does at the   *)
(* same time.                                                              *)
(***************************************************************************)
EXTENDS Releases, TLAPS

USE ReleaseAssumption

\* The tables are functions of their ids.
Tables ==
    /\ dep = [d \in Deployment |-> [state |-> dep[d].state, release |-> dep[d].release, from |-> dep[d].from]]
    /\ op = [c \in Caller |-> op[c]]
    /\ slot = [r \in Release |-> slot[r]]
    /\ sup = [k \in DOMAIN sup |-> sup[k]] /\ "at" \in DOMAIN sup

\* While the health checks of a deployment are awaited, its record names the
\* release the call is about, and the slot is as it was checked, unless a slot
\* in use was pruned or damaged.
Awaited ==
    \A c \in Caller : op[c] # Free =>
        /\ op[c].at \in {"deploying", "restoring"}
        /\ op[c].at = "deploying" =>
              /\ op[c].release \in Release /\ op[c].dep \in Deployment
              /\ dep[op[c].dep].release = op[c].release /\ dep[op[c].dep].state # "absent"
              /\ Intact(op[c].release) \/ raced

ReleaseInv == Tables /\ Awaited

LEMMA ReleaseInvInit == Init => ReleaseInv
BY DEF Init, ReleaseInv, Tables, Awaited, NoDeployment, Idle

----------------------------------------------------------------------------
(* What the steps write.                                                   *)

\* Writing the state of a record changes neither its release nor other records.
LEMMA StateWritten ==
    ASSUME Tables, NEW d, NEW s, dep' = [dep EXCEPT ![d].state = s]
    PROVE  /\ dep' = [e \in Deployment |-> [state |-> dep'[e].state, release |-> dep'[e].release, from |-> dep'[e].from]]
           /\ \A e \in Deployment : /\ dep'[e].release = dep[e].release
                                    /\ dep'[e].state = IF e = d THEN s ELSE dep[e].state
<1>1. ASSUME NEW e \in Deployment
      PROVE  /\ dep'[e] = [state |-> IF e = d THEN s ELSE dep[e].state, release |-> dep[e].release, from |-> dep[e].from]
  <2>1. dep'[e] = IF e = d THEN [dep[e] EXCEPT !.state = s] ELSE dep[e]
    BY DEF Tables
  <2>2. dep[e] = [state |-> dep[e].state, release |-> dep[e].release, from |-> dep[e].from]
    BY DEF Tables
  <2>3. CASE e = d
    <3>1. [dep[e] EXCEPT !.state = s] = [state |-> s, release |-> dep[e].release, from |-> dep[e].from]
      BY <2>2
    <3> QED BY <2>1, <2>3, <3>1
  <2>4. CASE e # d
    BY <2>1, <2>2, <2>4
  <2> QED BY <2>3, <2>4
<1>2. dep' = [e \in Deployment |-> dep'[e]]
  BY DEF Tables
<1> QED BY <1>1, <1>2

\* A verification leaves an ended record alone, and calls one ACTIVE only if it
\* is what the pointer names and the process was started from.
LEMMA VerifiedState ==
    ASSUME NEW d
    PROVE  /\ dep[d].state \in Ended => Verified(d) = dep[d].state
           /\ dep[d].state # "absent" => Verified(d) # "absent"
           /\ Verified(d) = "ACTIVE" /\ dep[d].state # "ACTIVE" =>
                 current = dep[d].release /\ server.from = dep[d].release /\ Present(dep[d].release)
BY DEF Verified, Ended, Serves, Readable, Present

\* A step that leaves the slots alone and takes nobody in keeps what is awaited.
LEMMA AwaitedStays ==
    ASSUME Tables, Awaited, UNCHANGED <<slot, raced>>, \A c \in Caller : op'[c] \in {op[c], Free},
           \A d \in Deployment : /\ dep'[d].release = dep[d].release
                                 /\ dep[d].state # "absent" => dep'[d].state # "absent"
    PROVE  Awaited'
BY DEF Awaited, Intact, Free

LEMMA ReleaseInvNext == ASSUME ReleaseInv, Next \/ UNCHANGED vars PROVE ReleaseInv'
<1>0. Tables /\ Awaited
  BY DEF ReleaseInv
<1>1. CASE Ci \/ Govern \/ StartByHand \/ SupStart \/ SupPoint \/ SupStop \/ SupServe \/ SupUnhealthy \/ SupKilled
           \/ UNCHANGED vars
  <2>1. UNCHANGED <<slot, dep, op, raced>>
    BY <1>1 DEF Ci, Govern, StartByHand, SupStart, SupPoint, SupStop, SupServe, SupUnhealthy, SupKilled, SupGoes, vars
  <2>2. sup' = [k \in DOMAIN sup' |-> sup'[k]] /\ "at" \in DOMAIN sup'
    BY <1>0, <1>1 DEF Tables, Ci, Govern, StartByHand, SupStart, SupPoint, SupStop, SupServe, SupUnhealthy, SupKilled,
       SupGoes, vars, Idle
  <2>3. Tables'
    BY <1>0, <2>1, <2>2 DEF Tables
  <2>4. Awaited'
    BY <1>0, <2>1, AwaitedStays
  <2> QED BY <2>3, <2>4 DEF ReleaseInv
<1>2. CASE Crash \/ Drained
  BY <1>0, <1>2 DEF Crash, Drained, Exit, ReleaseInv, Tables, Awaited
<1>3. CASE Prepare
  <2>1. PICK r \in Release, b \in Build :
           \/ slot' = [slot EXCEPT ![r] = [state |-> "ready", build |-> b]] /\ UNCHANGED op
           \/ slot' = [slot EXCEPT ![r] = [state |-> "partial", build |-> b]] /\ op' = [c \in Caller |-> Free]
    BY <1>3 DEF Prepare
  <2>2. UNCHANGED <<dep, sup, raced>>
    BY <1>3 DEF Prepare
  <2>3. Tables'
    BY <1>0, <2>1, <2>2 DEF Tables
  <2>4. Awaited'
    BY <1>0, <2>1, <2>2 DEF Tables, Awaited, Intact
  <2> QED BY <2>3, <2>4 DEF ReleaseInv
<1>4. CASE Prune \/ Damage
  <2>1. UNCHANGED <<dep, op, sup>>
    BY <1>4 DEF Prune, Damage
  <2>2. Tables'
    BY <1>0, <1>4, <2>1 DEF Tables, Prune, Damage
  <2>3. raced => raced'
    BY <1>4 DEF Prune, Damage
  <2>4. ASSUME NEW r \in Release, Intact(r), r \in Used PROVE Intact(r)' \/ raced'
    BY <1>0, <1>4, <2>4 DEF Prune, Damage, Intact, Tables
  <2>5. \A c \in Caller : op[c] # Free => op[c].release \in Used
    BY DEF Used, InFlight
  <2>6. Awaited'
    BY <1>0, <2>1, <2>3, <2>4, <2>5 DEF Awaited
  <2> QED BY <2>2, <2>6 DEF ReleaseInv
<1>5. ASSUME NEW d, NEW s, dep' = [dep EXCEPT ![d].state = s], s # "absent" \/ s = dep[d].state,
             UNCHANGED <<slot, raced>>, op' = op \/ \E c \in Caller : op' = [op EXCEPT ![c] = Free],
             sup' = sup \/ sup' = Idle
      PROVE  ReleaseInv'
  <2>1. Tables'
    <3>1. Tables
      BY <1>0
    <3>2. dep' = [e \in Deployment |-> [state |-> dep'[e].state, release |-> dep'[e].release, from |-> dep'[e].from]]
      BY <3>1, <1>5, StateWritten
    <3>3. op' = [c \in Caller |-> op'[c]]
      BY <3>1, <1>5 DEF Tables
    <3>4. slot' = [r \in Release |-> slot'[r]]
      BY <3>1, <1>5 DEF Tables
    <3>5. sup' = [k \in DOMAIN sup' |-> sup'[k]] /\ "at" \in DOMAIN sup'
      BY <3>1, <1>5 DEF Tables, Idle
    <3> QED BY <3>2, <3>3, <3>4, <3>5 DEF Tables
  <2>2. \A c \in Caller : op'[c] \in {op[c], Free}
    BY <1>0, <1>5 DEF Tables
  <2>3. Awaited'
    BY <1>0, <1>5, <2>2, StateWritten, AwaitedStays
  <2> QED BY <2>1, <2>3 DEF ReleaseInv
<1>6. ASSUME UNCHANGED <<slot, dep, raced>>, op' = op \/ \E c \in Caller : op' = [op EXCEPT ![c] = Free],
             sup' = sup \/ sup' = Idle
      PROVE  ReleaseInv'
  <2>1. Tables'
    BY <1>0, <1>6 DEF Tables, Idle
  <2>2. \A c \in Caller : op'[c] \in {op[c], Free}
    BY <1>0, <1>6 DEF Tables
  <2>3. Awaited'
    BY <1>0, <1>6, <2>2, AwaitedStays
  <2> QED BY <2>1, <2>3 DEF ReleaseInv
<1>7. CASE Verify
  BY <1>5, <1>7, VerifiedState DEF Verify
<1>8. CASE SupConfirm
  BY <1>5, <1>6, <1>8, VerifiedState DEF SupConfirm, SupGoes
<1>9. ASSUME NEW c \in Caller, Deployed(c) \/ RolledBack(c) PROVE ReleaseInv'
  <2>1. UNCHANGED <<slot, raced, sup>> /\ op' = [op EXCEPT ![c] = Free]
    BY <1>9 DEF Deployed, RolledBack
  <2>2. dep' = dep \/ \E s \in {"FAILED", "ACTIVE", "STAGED", "ROLLED_BACK"} : dep' = [dep EXCEPT ![op[c].dep].state = s]
    BY <1>9 DEF Deployed, RolledBack
  <2> QED BY <1>5, <1>6, <2>1, <2>2
<1>10. ASSUME NEW c \in Caller, Deploy(c) PROVE ReleaseInv'
  <2>1. PICK d \in Deployment, r \in Release, s \in {"HEALTH_CHECKING", "REJECTED"} :
           /\ dep[d].state = "absent"
           /\ dep' = [dep EXCEPT ![d] = [state |-> s, release |-> r, from |-> current]]
           /\ \/ UNCHANGED op
              \/ Intact(r) /\ op' = [op EXCEPT ![c] = [at |-> "deploying", dep |-> d, release |-> r]]
    BY <1>10 DEF Deploy, Begun, PlanAllows
  <2>2. UNCHANGED <<slot, sup, raced>>
    BY <1>10 DEF Deploy
  <2>3. Tables'
    BY <1>0, <2>1, <2>2 DEF Tables
  <2>4. Awaited'
    BY <1>0, <2>1, <2>2 DEF Tables, Awaited, Intact, Free
  <2> QED BY <2>3, <2>4 DEF ReleaseInv
<1>11. ASSUME NEW c \in Caller, Rollback(c) PROVE ReleaseInv'
  <2>1. PICK d \in Deployment : op' = [op EXCEPT ![c] = [at |-> "restoring", dep |-> d, release |-> dep[d].from]]
    BY <1>11 DEF Rollback
  <2>2. UNCHANGED <<slot, dep, sup, raced>>
    BY <1>11 DEF Rollback
  <2> QED BY <1>0, <2>1, <2>2 DEF ReleaseInv, Tables, Awaited, Intact, Free
<1> QED BY <1>1, <1>2, <1>3, <1>4, <1>7, <1>8, <1>9, <1>10, <1>11 DEF Next, Process, Supervise

LEMMA ReleaseAlways == Spec => []ReleaseInv
<1>1. ReleaseInv /\ [Next]_vars => ReleaseInv'
  BY ReleaseInvNext
<1> QED BY ReleaseInvInit, <1>1, PTL DEF Spec

----------------------------------------------------------------------------
(* Who moves the pointer, and who writes the records.                      *)

\* The records are written by deployments, verifications and rollbacks only.
LEMMA RecordsWritten ==
    ASSUME Tables, Next \/ UNCHANGED vars, NEW d \in Deployment, dep'[d].state # dep[d].state
    PROVE  \/ dep[d].state = "absent" /\ dep'[d].state \in {"HEALTH_CHECKING", "REJECTED"}
           \/ dep'[d].state = Verified(d) /\ UNCHANGED <<current, server>>
           \/ \E c \in Caller : op[c].dep = d /\ (Deployed(c) \/ RolledBack(c))
<1>1. CASE Verify
  <2>1. PICK e \in Deployment : dep' = [dep EXCEPT ![e].state = Verified(e)]
    BY <1>1 DEF Verify
  <2>2. UNCHANGED <<current, server>>
    BY <1>1 DEF Verify
  <2> QED BY <2>1, <2>2, StateWritten
<1>2. CASE SupConfirm
  <2>1. PICK e : dep' = [dep EXCEPT ![e].state = Verified(e)]
    BY <1>2 DEF SupConfirm
  <2>2. UNCHANGED <<current, server>>
    BY <1>2 DEF SupConfirm
  <2> QED BY <2>1, <2>2, StateWritten
<1>3. ASSUME NEW c \in Caller, Deploy(c) PROVE dep[d].state = "absent" /\ dep'[d].state \in {"HEALTH_CHECKING", "REJECTED"}
  BY <1>3 DEF Deploy, Begun, Tables
<1>4. ASSUME NEW c \in Caller, Deployed(c) \/ RolledBack(c) PROVE op[c].dep = d
  <2>1. dep' = dep \/ \E s \in {"FAILED", "ACTIVE", "STAGED", "ROLLED_BACK"} : dep' = [dep EXCEPT ![op[c].dep].state = s]
    BY <1>4 DEF Deployed, RolledBack
  <2> QED BY <2>1, StateWritten
<1>5. Verify \/ SupConfirm \/ \E c \in Caller : Deploy(c) \/ Deployed(c) \/ RolledBack(c)
  BY DEF Next, Ci, Govern, Prepare, Prune, Damage, Process, Crash, StartByHand, Drained, Supervise, SupStart, SupPoint,
     SupStop, SupServe, SupUnhealthy, SupKilled, SupGoes, Rollback, vars
<1> QED BY <1>1, <1>2, <1>3, <1>4, <1>5

\* The server points only at a slot whose digest matches its manifest, although
\* the health checks are awaited between the check and the move, unless a slot in
\* use was pruned or damaged (deployment.ts:38, release.ts).
THEOREM PointsAtIntact == Spec => MovesToIntact
<1> DEFINE A == current' # current /\ sup' = sup => Intact(current') \/ raced
<1>1. ReleaseInv /\ [Next]_vars => [A]_vars
  <2> SUFFICES ASSUME ReleaseInv, [Next]_vars, current' # current, sup' = sup PROVE Intact(current') \/ raced
    OBVIOUS
  <2>1. ASSUME NEW c \in Caller, Deployed(c) PROVE Intact(current') \/ raced
    <3>1. current' = op[c].release /\ op[c].at = "deploying"
      BY <2>1 DEF Deployed
    <3> QED BY <3>1 DEF ReleaseInv, Awaited, Free
  <2>2. ASSUME NEW c \in Caller, Rollback(c) PROVE Intact(current')
    BY <2>2 DEF Rollback, CanRollback
  <2>3. ~SupPoint
    <3> SUFFICES ASSUME SupPoint PROVE FALSE
      OBVIOUS
    <3>1. sup.at = "point" /\ sup'.at \in {"start", "stop"}
      BY DEF SupPoint, SupGoes, ReleaseInv, Tables
    <3> QED BY <3>1
  <2>4. SupPoint \/ \E c \in Caller : Deployed(c) \/ Rollback(c)
    BY DEF Next, Ci, Govern, Prepare, Prune, Damage, Verify, Process, Crash, StartByHand, Drained, Supervise, SupStart,
       SupStop, SupServe, SupConfirm, SupUnhealthy, SupKilled, SupGoes, Deploy, RolledBack, vars
  <2> QED BY <2>1, <2>2, <2>3, <2>4
<1> HIDE DEF A
<1>2. Spec => [][A]_vars
  BY <1>1, ReleaseAlways, PTL DEF Spec
<1> QED BY <1>2 DEF MovesToIntact, A

\* A record becomes ACTIVE only while the pointer names its release and the
\* process was started from that slot, whoever moved pointer and process while
\* its health checks were awaited (deployment.ts:40,318).
THEOREM ActiveAlwaysMeasured == Spec => ActiveIsMeasured
<1> DEFINE A == \A d \in Deployment : dep'[d].state = "ACTIVE" /\ dep[d].state # "ACTIVE" =>
                   /\ current' = dep[d].release /\ server'.from = dep[d].release /\ Present(dep[d].release)
<1>1. ReleaseInv /\ [Next]_vars => [A]_vars
  <2> SUFFICES ASSUME ReleaseInv, [Next]_vars, NEW d \in Deployment, dep'[d].state = "ACTIVE", dep[d].state # "ACTIVE"
               PROVE  current' = dep[d].release /\ server'.from = dep[d].release /\ Present(dep[d].release)
    OBVIOUS
  <2>1. CASE dep'[d].state = Verified(d) /\ UNCHANGED <<current, server>>
    BY <2>1, VerifiedState
  <2>2. ASSUME NEW c \in Caller, op[c].dep = d, Deployed(c)
        PROVE  current' = dep[d].release /\ server'.from = dep[d].release /\ Present(dep[d].release)
    <3>1. op[c].at = "deploying" /\ UNCHANGED server
      BY <2>2 DEF Deployed
    <3>2. dep[d].release = op[c].release
      BY <2>2, <3>1 DEF ReleaseInv, Awaited, Free
    <3>3. Present(op[c].release) /\ current' = op[c].release /\ Serves(op[c].release)
      BY <2>2, StateWritten DEF ReleaseInv, Deployed
    <3> QED BY <3>1, <3>2, <3>3 DEF Serves
  <2>3. ASSUME NEW c \in Caller, RolledBack(c) PROVE FALSE
    BY <2>3, StateWritten DEF ReleaseInv, RolledBack
  <2> QED BY <2>1, <2>2, <2>3, RecordsWritten DEF ReleaseInv
<1> HIDE DEF A
<1>2. Spec => [][A]_vars
  BY <1>1, ReleaseAlways, PTL DEF Spec
<1> QED BY <1>2 DEF ActiveIsMeasured, A

\* A rejected or rolled back deployment stays so: only a call that was already
\* awaiting its health checks writes over it (deployment.ts).
THEOREM EndedStays == Spec => EndedForGood
<1> DEFINE A == \A d \in Deployment : dep[d].state \in Ended /\ dep'[d].state # dep[d].state =>
                   \E c \in Caller : op[c] # Free /\ op[c].dep = d
<1>1. ReleaseInv /\ [Next]_vars => [A]_vars
  <2> SUFFICES ASSUME ReleaseInv, [Next]_vars, NEW d \in Deployment, dep[d].state \in Ended, dep'[d].state # dep[d].state
               PROVE  \E c \in Caller : op[c] # Free /\ op[c].dep = d
    OBVIOUS
  <2>1. PICK c \in Caller : op[c].dep = d /\ (Deployed(c) \/ RolledBack(c))
    BY RecordsWritten, VerifiedState DEF ReleaseInv, Ended
  <2>2. op[c] # Free
    BY <2>1 DEF Deployed, RolledBack, Free
  <2> QED BY <2>1, <2>2
<1> HIDE DEF A
<1>2. Spec => [][A]_vars
  BY <1>1, ReleaseAlways, PTL DEF Spec
<1> QED BY <1>2 DEF EndedForGood, A
=============================================================================
