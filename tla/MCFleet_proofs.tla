---------------------------- MODULE MCFleet_proofs ----------------------------
(***************************************************************************)
(* The sandboxes, the devices, the control plane, science and the          *)
(* providers: an inductive invariant of each, for any callers, sandboxes   *)
(* and bounds, and what follows from them when they move beside each       *)
(* other.                                                                  *)
(***************************************************************************)
EXTENDS MCFleet, FiniteSetTheorems, TLAPS

----------------------------------------------------------------------------
(* Sandboxes.  Between the calls on a sandbox what exists is known to the     *)
(* runtime, and what the runtime knows has a record.  A call leaves that for  *)
(* a while, and its stage says where it is; calls that overlap on a sandbox,  *)
(* or are cut off, blur it.                                                   *)

Fields == {"at", "kind", "box", "source", "image", "state"}
Making == {"create", "docker create", "created"}
Stages == [none |-> {"idle"}, reconcile |-> {"inspected"},
           create |-> Making \cup {"local", "register"}, clone |-> Making \cup {"local", "register"},
           start |-> {"local", "start", "ran", "record"}, pause |-> {"local", "pause", "ran", "record"},
           reset |-> Making \cup {"local", "remove", "removed", "record"},
           restore |-> Making \cup {"local", "restore", "remove", "removed", "record"},
           snapshot |-> {"local", "snapshot", "committed", "list", "record"},
           destroy |-> {"local", "forget", "docker destroy", "unregister"}]

SandboxTyped ==
    /\ DOMAIN record = Box /\ DOMAIN box = Box /\ DOMAIN place = Box /\ DOMAIN op = Caller
    /\ \A b \in Box : DOMAIN place[b] = {"run", "files"}
    /\ \A c \in Caller :
          /\ DOMAIN op[c] = Fields /\ op[c].kind \in DOMAIN Stages /\ op[c].at \in Stages[op[c].kind]
          /\ op[c].kind # "none" => op[c].box \in Box
          /\ op[c].kind = "none" <=> op[c] = Idle

\* A call that changes a sandbox.
Works(c) == op[c].kind \notin {"none", "reconcile"}

\* The two halves of what holds at rest, and what an entry looks like.
Found(b) == Exists(b) => Known(b)
Written(b) == record[b] = "none" => ~Known(b)
Row(b) == box[b] = <<>> \/ box[b] = <<box[b][1]>>

Tidy(c) ==
    LET b == op[c].box  at == op[c].at IN
    /\ at \in {"docker create", "created", "docker destroy", "unregister"} => ~Known(b)
    /\ at \in {"docker create", "removed", "unregister"} => ~Exists(b)
    /\ at = "register" => Known(b)
    /\ at \notin {"created", "docker destroy"} => Found(b)
    /\ at # "register" => Written(b)
    /\ at = "record" => op[c].state # "none"
    /\ op[c].kind \notin {"create", "clone"} => record[b] # "none"

Clear(b) ==
    /\ Row(b)
    /\ (\A c \in Caller : Works(c) => op[c].box # b) => Found(b) /\ Written(b)
    /\ \A c \in Caller : Works(c) /\ op[c].box = b =>
          Tidy(c) /\ \A d \in Caller : Works(d) /\ op[d].box = b => d = c

SandboxInv == SandboxTyped /\ \A b \in Box \ blurred : Clear(b)

LEMMA SandboxStarts == Init => SandboxInv
<1> SUFFICES ASSUME Init PROVE SandboxInv
  OBVIOUS
<1>1. SandboxTyped
  BY DEF Init, SandboxTyped, Idle, NoPlace, Fields, Stages
<1>2. \A b \in Box : Clear(b)
  BY DEF Init, Clear, Row, Works, Found, Written, Known, Exists, NoPlace, Idle
<1> QED BY <1>1, <1>2 DEF SandboxInv

\* Which calls come to a stage.
LEMMA Kinds ==
    ASSUME SandboxTyped, NEW c \in Caller
    PROVE  /\ op[c].at \notin {"idle", "inspected"} => Works(c) /\ op[c].box \in Box /\ op[c] # Idle
           /\ op[c].at = "register" => op[c].kind \in {"create", "clone"}
           /\ op[c].at = "record" => op[c].kind \notin {"create", "clone", "destroy"}
           /\ op[c].at \in {"list", "committed", "snapshot"} => op[c].kind = "snapshot"
           /\ op[c].at \in {"unregister", "forget", "docker destroy"} => op[c].kind = "destroy"
           /\ op[c].at \in {"start", "pause", "ran"} => op[c].kind \in {"start", "pause"}
           /\ op[c].at \in {"remove", "removed"} => op[c].kind \in {"reset", "restore"}
           /\ op[c].at = "restore" => op[c].kind = "restore"
           /\ op[c].at \in Making => op[c].kind \in {"create", "clone", "reset", "restore"}
           /\ op[c].at = "local" => op[c].kind \notin {"none", "reconcile"}
           /\ op[c].at = "inspected" => op[c].kind = "reconcile"
<1>1. /\ op[c].kind \in DOMAIN Stages /\ op[c].at \in Stages[op[c].kind]
      /\ op[c].kind # "none" => op[c].box \in Box
      /\ op[c].kind = "none" <=> op[c] = Idle
  BY DEF SandboxTyped
<1>2. op[c].kind \in {"none", "reconcile", "create", "clone", "start", "pause", "reset", "restore", "snapshot", "destroy"}
  BY <1>1 DEF Stages
<1>3. CASE op[c].kind = "none"
  <2>1. Stages["none"] = {"idle"}
    BY DEF Stages, Making
  <2>2. op[c].at \in Stages["none"]
    BY <1>1, <1>3
  <2> QED BY <1>1, <1>3, <2>1, <2>2 DEF Works, Making, Idle
<1>4. CASE op[c].kind = "reconcile"
  <2>1. Stages["reconcile"] = {"inspected"}
    BY DEF Stages, Making
  <2>2. op[c].at \in Stages["reconcile"]
    BY <1>1, <1>4
  <2> QED BY <1>1, <1>4, <2>1, <2>2 DEF Works, Making, Idle
<1>5. CASE op[c].kind = "create"
  <2>1. Stages["create"] = {"create", "docker create", "created", "local", "register"}
    BY DEF Stages, Making
  <2>2. op[c].at \in Stages["create"]
    BY <1>1, <1>5
  <2> QED BY <1>1, <1>5, <2>1, <2>2 DEF Works, Making, Idle
<1>6. CASE op[c].kind = "clone"
  <2>1. Stages["clone"] = {"create", "docker create", "created", "local", "register"}
    BY DEF Stages, Making
  <2>2. op[c].at \in Stages["clone"]
    BY <1>1, <1>6
  <2> QED BY <1>1, <1>6, <2>1, <2>2 DEF Works, Making, Idle
<1>7. CASE op[c].kind = "start"
  <2>1. Stages["start"] = {"local", "start", "ran", "record"}
    BY DEF Stages, Making
  <2>2. op[c].at \in Stages["start"]
    BY <1>1, <1>7
  <2> QED BY <1>1, <1>7, <2>1, <2>2 DEF Works, Making, Idle
<1>8. CASE op[c].kind = "pause"
  <2>1. Stages["pause"] = {"local", "pause", "ran", "record"}
    BY DEF Stages, Making
  <2>2. op[c].at \in Stages["pause"]
    BY <1>1, <1>8
  <2> QED BY <1>1, <1>8, <2>1, <2>2 DEF Works, Making, Idle
<1>9. CASE op[c].kind = "reset"
  <2>1. Stages["reset"] = {"create", "docker create", "created", "local", "remove", "removed", "record"}
    BY DEF Stages, Making
  <2>2. op[c].at \in Stages["reset"]
    BY <1>1, <1>9
  <2> QED BY <1>1, <1>9, <2>1, <2>2 DEF Works, Making, Idle
<1>10. CASE op[c].kind = "restore"
  <2>1. Stages["restore"] = {"create", "docker create", "created", "local", "restore", "remove", "removed", "record"}
    BY DEF Stages, Making
  <2>2. op[c].at \in Stages["restore"]
    BY <1>1, <1>10
  <2> QED BY <1>1, <1>10, <2>1, <2>2 DEF Works, Making, Idle
<1>11. CASE op[c].kind = "snapshot"
  <2>1. Stages["snapshot"] = {"local", "snapshot", "committed", "list", "record"}
    BY DEF Stages, Making
  <2>2. op[c].at \in Stages["snapshot"]
    BY <1>1, <1>11
  <2> QED BY <1>1, <1>11, <2>1, <2>2 DEF Works, Making, Idle
<1>12. CASE op[c].kind = "destroy"
  <2>1. Stages["destroy"] = {"local", "forget", "docker destroy", "unregister"}
    BY DEF Stages, Making
  <2>2. op[c].at \in Stages["destroy"]
    BY <1>1, <1>12
  <2> QED BY <1>1, <1>12, <2>1, <2>2 DEF Works, Making, Idle
<1> QED BY <1>2, <1>3, <1>4, <1>5, <1>6, <1>7, <1>8, <1>9, <1>10, <1>11, <1>12

\* A call that begins on a sandbox nobody works on, or goes on.
LEMMA GoesOn ==
    ASSUME SandboxTyped, NEW c \in Caller, NEW at, op' = [op EXCEPT ![c].at = at]
    PROVE  /\ DOMAIN op' = Caller /\ DOMAIN op'[c] = Fields /\ \A d \in Caller \ {c} : op'[d] = op[d]
           /\ op'[c].at = at /\ op'[c].kind = op[c].kind /\ op'[c].box = op[c].box /\ op'[c].state = op[c].state
BY DEF SandboxTyped, Fields

LEMMA Answers ==
    ASSUME SandboxTyped, NEW c \in Caller, NEW state, Answer(c, state)
    PROVE  /\ DOMAIN op' = Caller /\ DOMAIN op'[c] = Fields /\ \A d \in Caller \ {c} : op'[d] = op[d]
           /\ op'[c].at = After(op[c].kind) /\ op'[c].kind = op[c].kind /\ op'[c].box = op[c].box /\ op'[c].state = state
BY DEF SandboxTyped, Fields, Answer

LEMMA Returns ==
    ASSUME SandboxTyped, NEW c \in Caller, op' = [op EXCEPT ![c] = Idle]
    PROVE  DOMAIN op' = Caller /\ op'[c] = Idle /\ \A d \in Caller \ {c} : op'[d] = op[d]
BY DEF SandboxTyped

\* A step of a call touches its own sandbox.  It keeps the invariant when it
\* leaves that one as its next stage asks, or at rest.
LEMMA OwnStep ==
    ASSUME SandboxInv, NEW c \in Caller, NEW b \in Box, op[c].box = b, Works(c),
           DOMAIN record' = Box, DOMAIN box' = Box, DOMAIN place' = Box, DOMAIN op' = Caller,
           \A d \in Box : DOMAIN place'[d] = {"run", "files"},
           \A d \in Box \ {b} : record'[d] = record[d] /\ box'[d] = box[d] /\ place'[d] = place[d],
           \A d \in Caller \ {c} : op'[d] = op[d],
           blurred \subseteq blurred',
           op'[c] = Idle \/ (DOMAIN op'[c] = Fields /\ op'[c].kind = op[c].kind /\ op'[c].box = b /\ op'[c].at \in Stages[op[c].kind]),
           b \notin blurred' => Row(b)' /\ IF op'[c] = Idle THEN Found(b)' /\ Written(b)' ELSE Tidy(c)'
    PROVE  SandboxInv'
<1>1. SandboxTyped /\ Idle.kind = "none" /\ Idle.at = "idle" /\ DOMAIN Idle = Fields /\ Stages["none"] = {"idle"} /\ "none" \in DOMAIN Stages
  BY DEF SandboxInv, Idle, Fields, Stages
<1>2. op'[c] = Idle \/ Works(c)'
  BY DEF Works
<1>3. SandboxTyped'
  <2>1. ASSUME NEW d \in Caller
        PROVE  /\ DOMAIN op'[d] = Fields /\ op'[d].kind \in DOMAIN Stages /\ op'[d].at \in Stages[op'[d].kind]
               /\ op'[d].kind # "none" => op'[d].box \in Box
               /\ op'[d].kind = "none" <=> op'[d] = Idle
    <3>1. CASE d = c
      <4>1. CASE op'[c] = Idle
        BY <1>1, <3>1, <4>1
      <4>2. CASE op'[c] # Idle
        BY <1>1, <1>2, <3>1, <4>2 DEF SandboxTyped, Works
      <4> QED BY <4>1, <4>2
    <3>2. CASE d # c
      BY <1>1, <3>2 DEF SandboxTyped
    <3> QED BY <3>1, <3>2
  <2> QED BY <2>1 DEF SandboxTyped
<1>4. ASSUME NEW e \in Box \ blurred', e # b PROVE Clear(e)'
  <2>1. Clear(e) /\ record'[e] = record[e] /\ box'[e] = box[e] /\ place'[e] = place[e]
    BY <1>4 DEF SandboxInv
  <2>2. \A d \in Caller : (Works(d)' /\ op'[d].box = e) <=> (Works(d) /\ op[d].box = e)
    <3>1. ASSUME NEW d \in Caller, d # c PROVE (Works(d)' /\ op'[d].box = e) <=> (Works(d) /\ op[d].box = e)
      BY <3>1 DEF Works
    <3>2. ~(Works(c)' /\ op'[c].box = e)
      BY <1>1, <1>4 DEF Works
    <3> QED BY <1>4, <3>1, <3>2
  <2>3. (Row(e) => Row(e)') /\ (Found(e) => Found(e)') /\ (Written(e) => Written(e)')
    BY <2>1 DEF Row, Found, Written, Known, Exists
  <2>4. ASSUME NEW d \in Caller, Works(d)', op'[d].box = e PROVE Tidy(d)' /\ \A q \in Caller : Works(q)' /\ op'[q].box = e => q = d
    <3>1. Works(d) /\ op[d].box = e /\ d # c
      BY <1>4, <2>2, <2>4
    <3>2. op'[d] = op[d] /\ Tidy(d)
      BY <2>1, <3>1 DEF Clear
    <3>3. Tidy(d)'
      BY <2>1, <3>1, <3>2 DEF Tidy, Found, Written, Known, Exists
    <3> QED BY <2>1, <2>2, <3>1, <3>3 DEF Clear
  <2> QED BY <2>1, <2>2, <2>3, <2>4 DEF Clear
<1>5. ASSUME b \notin blurred' PROVE Clear(b)'
  <2>1. Clear(b)
    BY <1>5 DEF SandboxInv
  <2>2. \A d \in Caller \ {c} : ~(Works(d)' /\ op'[d].box = b)
    BY <2>1 DEF Clear, Works
  <2>3. Row(b)'
    BY <1>5
  <2>4. CASE op'[c] = Idle
    <3>1. ~Works(c)' /\ Found(b)' /\ Written(b)'
      BY <1>1, <1>5, <2>4 DEF Works
    <3> QED BY <2>2, <2>3, <3>1 DEF Clear
  <2>5. CASE op'[c] # Idle
    <3>1. Works(c)' /\ op'[c].box = b /\ Tidy(c)'
      BY <1>2, <1>5, <2>5
    <3> QED BY <2>2, <2>3, <3>1 DEF Clear
  <2> QED BY <2>4, <2>5
<1> QED BY <1>3, <1>4, <1>5 DEF SandboxInv

\* What the invariant says to a call of its own sandbox.
LEMMA Own ==
    ASSUME SandboxInv, NEW c \in Caller, NEW b \in Box, op[c].box = b, Works(c), b \notin blurred
    PROVE  Row(b) /\ Tidy(c)
BY DEF SandboxInv, Clear

LEMMA RegisterKeeps ==
    ASSUME SandboxInv, NEW c \in Caller, NEW b \in Box, op[c].box = b, Register(c)
    PROVE  SandboxInv'
<1>1. /\ op[c].at = "register" /\ op' = [op EXCEPT ![c] = Idle] /\ box' = box /\ place' = place /\ blurred' = blurred
      /\ record' = IF record[b] = "none" THEN [record EXCEPT ![b] = "CREATED"] ELSE record
  BY DEF Register, At
<1>2. SandboxTyped
  BY DEF SandboxInv
<1>3. Works(c)
  BY <1>1, <1>2, Kinds
<1>4. DOMAIN op' = Caller /\ op'[c] = Idle /\ \A d \in Caller \ {c} : op'[d] = op[d]
  BY <1>1, <1>2, Returns
<1>5. DOMAIN record' = Box /\ record'[b] # "none" /\ \A d \in Box \ {b} : record'[d] = record[d]
  BY <1>1, <1>2 DEF SandboxTyped
<1>6. ASSUME b \notin blurred PROVE Row(b)' /\ Found(b)' /\ Written(b)'
  BY <1>1, <1>3, <1>5, <1>6, Own DEF Tidy, Row, Found, Written, Known, Exists
<1> QED BY <1>1, <1>2, <1>3, <1>4, <1>5, <1>6, OwnStep DEF SandboxTyped

LEMMA RecordKeeps ==
    ASSUME SandboxInv, NEW c \in Caller, NEW b \in Box, op[c].box = b, Record(c)
    PROVE  SandboxInv'
<1>1. /\ op[c].at = "record" /\ op' = [op EXCEPT ![c] = Idle] /\ box' = box /\ place' = place /\ blurred' = blurred
      /\ record' = IF record[b] = "none" THEN record ELSE [record EXCEPT ![b] = op[c].state]
  BY DEF Record, At
<1>2. SandboxTyped
  BY DEF SandboxInv
<1>3. Works(c)
  BY <1>1, <1>2, Kinds
<1>4. DOMAIN op' = Caller /\ op'[c] = Idle /\ \A d \in Caller \ {c} : op'[d] = op[d]
  BY <1>1, <1>2, Returns
<1>5. DOMAIN record' = Box /\ record'[b] = (IF record[b] = "none" THEN "none" ELSE op[c].state) /\ \A d \in Box \ {b} : record'[d] = record[d]
  BY <1>1, <1>2 DEF SandboxTyped
<1>6. ASSUME b \notin blurred PROVE Row(b)' /\ Found(b)' /\ Written(b)'
  BY <1>1, <1>3, <1>5, <1>6, Own DEF Tidy, Row, Found, Written, Known, Exists
<1> QED BY <1>1, <1>2, <1>3, <1>4, <1>5, <1>6, OwnStep DEF SandboxTyped

LEMMA UnregisterKeeps ==
    ASSUME SandboxInv, NEW c \in Caller, NEW b \in Box, op[c].box = b, Unregister(c)
    PROVE  SandboxInv'
<1>1. /\ op[c].at = "unregister" /\ op' = [op EXCEPT ![c] = Idle] /\ box' = box /\ place' = place /\ blurred' = blurred
      /\ record' = [record EXCEPT ![b] = "none"]
  BY DEF Unregister, At
<1>2. SandboxTyped
  BY DEF SandboxInv
<1>3. Works(c)
  BY <1>1, <1>2, Kinds
<1>4. DOMAIN op' = Caller /\ op'[c] = Idle /\ \A d \in Caller \ {c} : op'[d] = op[d]
  BY <1>1, <1>2, Returns
<1>5. DOMAIN record' = Box /\ \A d \in Box \ {b} : record'[d] = record[d]
  BY <1>1, <1>2 DEF SandboxTyped
<1>6. ASSUME b \notin blurred PROVE Row(b)' /\ Found(b)' /\ Written(b)'
  BY <1>1, <1>3, <1>5, <1>6, Own DEF Tidy, Row, Found, Written, Known, Exists
<1> QED BY <1>1, <1>2, <1>3, <1>4, <1>5, <1>6, OwnStep DEF SandboxTyped

LEMMA ListKeeps ==
    ASSUME SandboxInv, NEW c \in Caller, NEW b \in Box, op[c].box = b, List(c)
    PROVE  SandboxInv'
<1>1. /\ op[c].at = "list" /\ op' = [op EXCEPT ![c].at = "record", ![c].state = "SNAPSHOTTED"]
      /\ record' = record /\ box' = box /\ place' = place /\ blurred' = blurred
  BY DEF List, At
<1>2. SandboxTyped
  BY DEF SandboxInv
<1>3. Works(c) /\ op[c].kind = "snapshot"
  BY <1>1, <1>2, Kinds
<1>4. /\ DOMAIN op' = Caller /\ DOMAIN op'[c] = Fields /\ \A d \in Caller \ {c} : op'[d] = op[d]
      /\ op'[c].at = "record" /\ op'[c].kind = "snapshot" /\ op'[c].box = b /\ op'[c].state = "SNAPSHOTTED"
  BY <1>1, <1>2, <1>3 DEF SandboxTyped, Fields
<1>5. ASSUME b \notin blurred PROVE Row(b)' /\ Tidy(c)'
  <2>1. Row(b) /\ Tidy(c)
    BY <1>3, <1>5, Own
  <2>2. Row(b)'
    BY <1>1, <2>1 DEF Row
  <2>3. Tidy(c)'
    BY <1>1, <1>3, <1>4, <2>1 DEF Tidy, Found, Written, Known, Exists
  <2> QED BY <2>2, <2>3
<1>6. "record" \in Stages["snapshot"] /\ op'[c] # Idle
  BY <1>4 DEF Stages, Idle
<1> QED BY <1>1, <1>2, <1>3, <1>4, <1>5, <1>6, OwnStep DEF SandboxTyped

LEMMA Resting == Idle.at = "idle" /\ Idle.kind = "none" /\ Idle.state = "none" /\ DOMAIN Idle = Fields
BY DEF Idle, Fields

\* The stages a call goes on to are of its kind.
LEMMA Steps ==
    ASSUME NEW kind, NEW at
    PROVE  /\ kind \in {"create", "clone"} /\ at \in {"docker create", "created", "register"} => at \in Stages[kind]
           /\ kind \in {"start", "pause"} /\ at \in {"ran", "record"} => at \in Stages[kind]
           /\ kind \in {"reset", "restore"} /\ at \in {"create", "docker create", "created", "removed", "record"} => at \in Stages[kind]
           /\ kind = "restore" /\ at = "remove" => at \in Stages[kind]
           /\ kind = "snapshot" /\ at \in {"committed", "list", "record"} => at \in Stages[kind]
           /\ kind = "destroy" /\ at \in {"docker destroy", "unregister"} => at \in Stages[kind]
           /\ kind \in {"create", "clone"} => After(kind) = "register"
           /\ kind \in {"start", "pause", "reset", "restore"} => After(kind) = "record"
           /\ kind = "destroy" => After(kind) = "unregister"
<1>1. /\ Stages["create"] = Making \cup {"local", "register"} /\ Stages["clone"] = Making \cup {"local", "register"}
      /\ Stages["start"] = {"local", "start", "ran", "record"} /\ Stages["pause"] = {"local", "pause", "ran", "record"}
      /\ Stages["reset"] = Making \cup {"local", "remove", "removed", "record"}
      /\ Stages["restore"] = Making \cup {"local", "restore", "remove", "removed", "record"}
      /\ Stages["snapshot"] = {"local", "snapshot", "committed", "list", "record"}
      /\ Stages["destroy"] = {"local", "forget", "docker destroy", "unregister"}
  BY DEF Stages
<1>2. kind \in {"create", "clone"} /\ at \in {"docker create", "created", "register"} => at \in Stages[kind]
  BY <1>1 DEF Making
<1>3. kind \in {"start", "pause"} /\ at \in {"ran", "record"} => at \in Stages[kind]
  BY <1>1 DEF Making
<1>4. kind \in {"reset", "restore"} /\ at \in {"create", "docker create", "created", "removed", "record"} => at \in Stages[kind]
  BY <1>1 DEF Making
<1>5. kind = "restore" /\ at = "remove" => at \in Stages[kind]
  BY <1>1 DEF Making
<1>6. kind = "snapshot" /\ at \in {"committed", "list", "record"} => at \in Stages[kind]
  BY <1>1
<1>7. kind = "destroy" /\ at \in {"docker destroy", "unregister"} => at \in Stages[kind]
  BY <1>1
<1>8. kind \in {"create", "clone"} => After(kind) = "register"
  BY DEF After
<1>9. kind \in {"start", "pause", "reset", "restore"} => After(kind) = "record"
  BY DEF After
<1>10. kind = "destroy" => After(kind) = "unregister"
  BY DEF After
<1> QED BY <1>2, <1>3, <1>4, <1>5, <1>6, <1>7, <1>8, <1>9, <1>10

\* A state written to the first entry of a sandbox.
LEMMA Marks ==
    ASSUME SandboxTyped, NEW b \in Box, NEW state, box' = WithState(b, state)
    PROVE  /\ DOMAIN box' = Box /\ \A d \in Box \ {b} : box'[d] = box[d]
           /\ Row(b) => Row(b)' /\ (Known(b)' <=> Known(b))
<1>1. CASE ~Known(b)
  BY <1>1 DEF SandboxTyped, WithState, Row, Known
<1>2. CASE Known(b)
  <2>1. box' = [box EXCEPT ![b][1].state = state]
    BY <1>2 DEF WithState
  <2>2. DOMAIN box' = Box /\ box'[b] = [box[b] EXCEPT ![1].state = state] /\ \A d \in Box \ {b} : box'[d] = box[d]
    BY <2>1 DEF SandboxTyped
  <2>3. ASSUME Row(b) PROVE box'[b] = <<[box[b][1] EXCEPT !.state = state]>>
    BY <1>2, <2>2, <2>3 DEF Row, Known
  <2> QED BY <1>2, <2>2, <2>3 DEF Row, Known
<1> QED BY <1>1, <1>2

\* A call that ends with an error.
LEMMA Thrown ==
    ASSUME SandboxInv, NEW c \in Caller, NEW b \in Box, op[c].box = b, Works(c), Throw(c), box' = box, place' = place,
           blurred \subseteq blurred', op[c].at \notin {"created", "docker destroy", "register"}
    PROVE  SandboxInv'
<1>1. op' = [op EXCEPT ![c] = Idle] /\ record' = record
  BY DEF Throw
<1>2. SandboxTyped
  BY DEF SandboxInv
<1>3. DOMAIN op' = Caller /\ op'[c] = Idle /\ \A d \in Caller \ {c} : op'[d] = op[d]
  BY <1>1, <1>2, Returns
<1>4. ASSUME b \notin blurred PROVE Row(b)' /\ Found(b)' /\ Written(b)'
  BY <1>1, <1>4, Own DEF Tidy, Row, Found, Written, Known, Exists
<1> QED BY <1>1, <1>2, <1>3, <1>4, OwnStep DEF SandboxTyped

LEMMA CreateAskKeeps ==
    ASSUME SandboxInv, NEW c \in Caller, NEW b \in Box, op[c].box = b, CreateAsk(c)
    PROVE  SandboxInv'
<1>1. SandboxTyped /\ op[c].at = "create" /\ box' = box /\ place' = place /\ blurred' = blurred
  BY DEF SandboxInv, CreateAsk, At
<1>2. Works(c) /\ op[c].kind \in {"create", "clone", "reset", "restore"}
  BY <1>1, Kinds DEF Making
<1>3. CASE Known(b) \/ (op[c].kind = "clone" /\ ~Known(op[c].source))
  BY <1>1, <1>2, <1>3, Thrown DEF CreateAsk
<1>4. CASE ~(Known(b) \/ (op[c].kind = "clone" /\ ~Known(op[c].source)))
  <2>1. PICK image : op' = [op EXCEPT ![c].at = "docker create", ![c].image = image] /\ record' = record
    BY <1>4 DEF CreateAsk
  <2>2. /\ DOMAIN op' = Caller /\ \A d \in Caller \ {c} : op'[d] = op[d]
        /\ DOMAIN op'[c] = Fields /\ op'[c].at = "docker create" /\ op'[c].kind = op[c].kind /\ op'[c].box = b /\ op'[c].state = op[c].state
    BY <1>1, <2>1 DEF SandboxTyped, Fields
  <2>3. op'[c].at \in Stages[op[c].kind] /\ op'[c] # Idle
    BY <1>2, <2>2, Steps, Resting
  <2>4. ASSUME b \notin blurred PROVE Row(b)' /\ Tidy(c)'
    <3>1. Row(b) /\ Tidy(c)
      BY <1>2, <2>4, Own
    <3>2. Row(b)'
      BY <1>1, <3>1 DEF Row
    <3> QED BY <1>1, <1>2, <1>4, <2>1, <2>2, <3>1, <3>2 DEF Tidy, Found, Written, Known, Exists
  <2> QED BY <1>1, <1>2, <2>1, <2>2, <2>3, <2>4, OwnStep DEF SandboxTyped
<1> QED BY <1>3, <1>4

LEMMA DockerCreateKeeps ==
    ASSUME SandboxInv, NEW c \in Caller, NEW b \in Box, op[c].box = b, DockerCreate(c)
    PROVE  SandboxInv'
<1>1. SandboxTyped /\ op[c].at = "docker create" /\ box' = box /\ blurred' = blurred
  BY DEF SandboxInv, DockerCreate, At
<1>2. Works(c) /\ op[c].kind \in {"create", "clone", "reset", "restore"}
  BY <1>1, Kinds DEF Making
<1>3. CASE Exists(b)
  BY <1>1, <1>2, <1>3, Thrown DEF DockerCreate
<1>4. CASE ~Exists(b)
  <2>1. op' = [op EXCEPT ![c].at = "created"] /\ record' = record /\ place' = [place EXCEPT ![b] = [run |-> "created", files |-> ImageFiles(op[c].image)]]
    BY <1>4 DEF DockerCreate, Goto
  <2>2. /\ DOMAIN op' = Caller /\ \A d \in Caller \ {c} : op'[d] = op[d]
        /\ DOMAIN op'[c] = Fields /\ op'[c].at = "created" /\ op'[c].kind = op[c].kind /\ op'[c].box = b /\ op'[c].state = op[c].state
    BY <1>1, <2>1, GoesOn
  <2>3. op'[c].at \in Stages[op[c].kind] /\ op'[c] # Idle
    BY <1>2, <2>2, Steps, Resting
  <2>4. DOMAIN place' = Box /\ (\A d \in Box : DOMAIN place'[d] = {"run", "files"}) /\ \A d \in Box \ {b} : place'[d] = place[d]
    BY <1>1, <2>1 DEF SandboxTyped
  <2>5. ASSUME b \notin blurred PROVE Row(b)' /\ Tidy(c)'
    <3>1. Row(b) /\ Tidy(c)
      BY <1>2, <2>5, Own
    <3>2. Row(b)'
      BY <1>1, <3>1 DEF Row
    <3> QED BY <1>1, <1>2, <2>1, <2>2, <3>1, <3>2 DEF Tidy, Found, Written, Known, Exists
  <2> QED BY <1>1, <1>2, <2>1, <2>2, <2>3, <2>4, <2>5, OwnStep DEF SandboxTyped
<1> QED BY <1>3, <1>4

LEMMA CreatedKeeps ==
    ASSUME SandboxInv, NEW c \in Caller, NEW b \in Box, op[c].box = b, Created(c)
    PROVE  SandboxInv'
<1>1. SandboxTyped /\ op[c].at = "created" /\ record' = record /\ place' = place /\ blurred' = blurred
  BY DEF SandboxInv, Created, At
<1>2. Works(c) /\ op[c].kind \in {"create", "clone", "reset", "restore"}
  BY <1>1, Kinds DEF Making
<1>3. PICK state \in {"READY", "RESTORED"} : Answer(c, state)
  BY DEF Created
<1>4. /\ DOMAIN op' = Caller /\ \A d \in Caller \ {c} : op'[d] = op[d]
      /\ DOMAIN op'[c] = Fields /\ op'[c].at = After(op[c].kind) /\ op'[c].kind = op[c].kind /\ op'[c].box = b /\ op'[c].state # "none"
  BY <1>1, <1>3, Answers
<1>5. op'[c].at \in Stages[op[c].kind] /\ op'[c].at = (IF op[c].kind \in {"create", "clone"} THEN "register" ELSE "record") /\ op'[c] # Idle
  BY <1>2, <1>4, Steps, Resting
<1>6. DOMAIN box' = Box /\ \A d \in Box \ {b} : box'[d] = box[d]
  BY <1>1 DEF Created, SandboxTyped
<1>7. ASSUME b \notin blurred PROVE Row(b)' /\ Tidy(c)'
  <2>1. Row(b) /\ Tidy(c)
    BY <1>2, <1>7, Own
  <2>2. box[b] = <<>>
    BY <1>1, <2>1 DEF Tidy, Known
  <2>3. PICK x : box'[b] = <<x>>
    <3>1. Append(box[b], Entry("READY", op[c].image)) = <<Entry("READY", op[c].image)>>
      BY <2>2
    <3>2. CASE op[c].kind = "restore"
      <4>1. box'[b] = [<<Entry("READY", op[c].image)>> EXCEPT ![1].state = "RESTORED"]
        BY <1>1, <3>1, <3>2 DEF Created, SandboxTyped
      <4>2. box'[b] = <<[Entry("READY", op[c].image) EXCEPT !.state = "RESTORED"]>>
        BY <4>1
      <4> QED BY <4>2
    <3>3. CASE op[c].kind # "restore"
      BY <1>1, <3>1, <3>3 DEF Created, SandboxTyped
    <3> QED BY <3>2, <3>3
  <2>4. box'[b] = <<box'[b][1]>> /\ box'[b] # <<>>
    BY <2>3
  <2> QED BY <1>1, <1>2, <1>4, <1>5, <2>1, <2>4 DEF Tidy, Row, Found, Written, Known, Exists
<1> QED BY <1>1, <1>2, <1>4, <1>5, <1>6, <1>7, OwnStep DEF SandboxTyped

LEMMA DockerRunKeeps ==
    ASSUME SandboxInv, NEW c \in Caller, NEW b \in Box, op[c].box = b, DockerRun(c)
    PROVE  SandboxInv'
<1>1. SandboxTyped /\ op[c].at \in {"start", "pause"} /\ box' = box /\ blurred' = blurred
  BY DEF SandboxInv, DockerRun
<1>2. Works(c) /\ op[c].kind \in {"start", "pause"}
  BY <1>1, Kinds
<1>3. CASE ~(Known(b) /\ Runs(op[c].kind, place[b].run))
  BY <1>1, <1>2, <1>3, Thrown DEF DockerRun
<1>4. CASE Known(b) /\ Runs(op[c].kind, place[b].run)
  <2>1. PICK run : op' = [op EXCEPT ![c].at = "ran"] /\ record' = record /\ place' = [place EXCEPT ![b].run = run]
    BY <1>4 DEF DockerRun, Goto
  <2>2. /\ DOMAIN op' = Caller /\ \A d \in Caller \ {c} : op'[d] = op[d]
        /\ DOMAIN op'[c] = Fields /\ op'[c].at = "ran" /\ op'[c].kind = op[c].kind /\ op'[c].box = b /\ op'[c].state = op[c].state
    BY <1>1, <2>1, GoesOn
  <2>3. op'[c].at \in Stages[op[c].kind] /\ op'[c] # Idle
    BY <1>2, <2>2, Steps, Resting
  <2>4. DOMAIN place' = Box /\ (\A d \in Box : DOMAIN place'[d] = {"run", "files"}) /\ \A d \in Box \ {b} : place'[d] = place[d]
    BY <1>1, <2>1 DEF SandboxTyped
  <2>5. ASSUME b \notin blurred PROVE Row(b)' /\ Tidy(c)'
    <3>1. Row(b) /\ Tidy(c)
      BY <1>2, <2>5, Own
    <3>2. Row(b)'
      BY <1>1, <3>1 DEF Row
    <3> QED BY <1>1, <1>2, <1>4, <2>1, <2>2, <3>1, <3>2 DEF Tidy, Found, Written, Known, Exists
  <2> QED BY <1>1, <1>2, <2>1, <2>2, <2>3, <2>4, <2>5, OwnStep DEF SandboxTyped
<1> QED BY <1>3, <1>4

LEMMA RanKeeps ==
    ASSUME SandboxInv, NEW c \in Caller, NEW b \in Box, op[c].box = b, Ran(c)
    PROVE  SandboxInv'
<1>1. SandboxTyped /\ op[c].at = "ran" /\ record' = record /\ place' = place /\ blurred' = blurred
  BY DEF SandboxInv, Ran, At
<1>2. Works(c) /\ op[c].kind \in {"start", "pause"}
  BY <1>1, Kinds
<1>3. PICK state \in {"RUNNING", "PAUSED"} : Answer(c, state) /\ box' = WithState(b, state)
  BY DEF Ran
<1>4. /\ DOMAIN op' = Caller /\ \A d \in Caller \ {c} : op'[d] = op[d]
      /\ DOMAIN op'[c] = Fields /\ op'[c].at = After(op[c].kind) /\ op'[c].kind = op[c].kind /\ op'[c].box = b /\ op'[c].state # "none"
  BY <1>1, <1>3, Answers
<1>5. op'[c].at \in Stages[op[c].kind] /\ op'[c].at = "record" /\ op'[c] # Idle
  BY <1>2, <1>4, Steps, Resting
<1>6. DOMAIN box' = Box /\ (\A d \in Box \ {b} : box'[d] = box[d]) /\ (Row(b) => Row(b)' /\ (Known(b)' <=> Known(b)))
  BY <1>1, <1>3, Marks
<1>7. ASSUME b \notin blurred PROVE Row(b)' /\ Tidy(c)'
  <2>1. Row(b) /\ Tidy(c)
    BY <1>2, <1>7, Own
  <2> QED BY <1>1, <1>2, <1>4, <1>5, <1>6, <2>1 DEF Tidy, Found, Written, Exists
<1> QED BY <1>1, <1>2, <1>4, <1>5, <1>6, <1>7, OwnStep DEF SandboxTyped

LEMMA DockerRemoveKeeps ==
    ASSUME SandboxInv, NEW c \in Caller, NEW b \in Box, op[c].box = b, DockerRemove(c)
    PROVE  SandboxInv'
<1>1. SandboxTyped /\ op[c].at = "remove" /\ box' = box /\ blurred' = blurred
  BY DEF SandboxInv, DockerRemove, At
<1>2. Works(c) /\ op[c].kind \in {"reset", "restore"}
  BY <1>1, Kinds
<1>3. CASE ~Known(b)
  BY <1>1, <1>2, <1>3, Thrown DEF DockerRemove
<1>4. CASE Known(b)
  <2>1. op' = [op EXCEPT ![c].at = "removed"] /\ record' = record /\ place' = [place EXCEPT ![b] = NoPlace]
    BY <1>4 DEF DockerRemove, Goto
  <2>2. /\ DOMAIN op' = Caller /\ \A d \in Caller \ {c} : op'[d] = op[d]
        /\ DOMAIN op'[c] = Fields /\ op'[c].at = "removed" /\ op'[c].kind = op[c].kind /\ op'[c].box = b /\ op'[c].state = op[c].state
    BY <1>1, <2>1, GoesOn
  <2>3. op'[c].at \in Stages[op[c].kind] /\ op'[c] # Idle
    BY <1>2, <2>2, Steps, Resting
  <2>4. /\ DOMAIN place' = Box /\ (\A d \in Box : DOMAIN place'[d] = {"run", "files"}) /\ \A d \in Box \ {b} : place'[d] = place[d]
        /\ place'[b].run = "none"
    BY <1>1, <2>1 DEF SandboxTyped, NoPlace
  <2>5. ASSUME b \notin blurred PROVE Row(b)' /\ Tidy(c)'
    <3>1. Row(b) /\ Tidy(c)
      BY <1>2, <2>5, Own
    <3>2. Row(b)'
      BY <1>1, <3>1 DEF Row
    <3> QED BY <1>1, <1>2, <1>4, <2>1, <2>2, <2>4, <3>1, <3>2 DEF Tidy, Found, Written, Known, Exists
  <2> QED BY <1>1, <1>2, <2>1, <2>2, <2>3, <2>4, <2>5, OwnStep DEF SandboxTyped
<1> QED BY <1>3, <1>4

LEMMA RemovedKeeps ==
    ASSUME SandboxInv, NEW c \in Caller, NEW b \in Box, op[c].box = b, Removed(c)
    PROVE  SandboxInv'
<1>1. /\ SandboxTyped /\ op[c].at = "removed" /\ record' = record /\ place' = place /\ blurred' = blurred
      /\ op' = [op EXCEPT ![c].at = "create"] /\ box' = IF op[c].kind = "restore" THEN [box EXCEPT ![b] = <<>>] ELSE box
  BY DEF SandboxInv, Removed, At, Goto
<1>2. Works(c) /\ op[c].kind \in {"reset", "restore"}
  BY <1>1, Kinds
<1>3. /\ DOMAIN op' = Caller /\ \A d \in Caller \ {c} : op'[d] = op[d]
      /\ DOMAIN op'[c] = Fields /\ op'[c].at = "create" /\ op'[c].kind = op[c].kind /\ op'[c].box = b /\ op'[c].state = op[c].state
  BY <1>1, GoesOn
<1>4. op'[c].at \in Stages[op[c].kind] /\ op'[c] # Idle
  BY <1>2, <1>3, Steps, Resting
<1>5. DOMAIN box' = Box /\ (\A d \in Box \ {b} : box'[d] = box[d]) /\ box'[b] \in {<<>>, box[b]}
  BY <1>1 DEF SandboxTyped
<1>6. ASSUME b \notin blurred PROVE Row(b)' /\ Tidy(c)'
  <2>1. Row(b) /\ Tidy(c)
    BY <1>2, <1>6, Own
  <2>2. Row(b)'
    BY <1>5, <2>1 DEF Row
  <2> QED BY <1>1, <1>2, <1>3, <1>5, <2>1, <2>2 DEF Tidy, Found, Written, Known, Exists
<1> QED BY <1>1, <1>2, <1>3, <1>4, <1>5, <1>6, OwnStep DEF SandboxTyped

LEMMA RestoreKeeps ==
    ASSUME SandboxInv, NEW c \in Caller, NEW b \in Box, op[c].box = b, Restore(c)
    PROVE  SandboxInv'
<1>1. SandboxTyped /\ op[c].at = "restore" /\ record' = record /\ box' = box /\ place' = place /\ blurred' = blurred
  BY DEF SandboxInv, Restore, At
<1>2. Works(c) /\ op[c].kind = "restore"
  BY <1>1, Kinds
<1>3. PICK at \in {"remove", "create"} : op' = [op EXCEPT ![c].at = at]
  BY DEF Restore, Goto
<1>4. /\ DOMAIN op' = Caller /\ \A d \in Caller \ {c} : op'[d] = op[d]
      /\ DOMAIN op'[c] = Fields /\ op'[c].at = at /\ op'[c].kind = op[c].kind /\ op'[c].box = b /\ op'[c].state = op[c].state
  BY <1>1, <1>3, GoesOn
<1>5. op'[c].at \in Stages[op[c].kind] /\ op'[c] # Idle
  BY <1>2, <1>4, Steps, Resting
<1>6. ASSUME b \notin blurred PROVE Row(b)' /\ Tidy(c)'
  <2>1. Row(b) /\ Tidy(c)
    BY <1>2, <1>6, Own
  <2>2. Row(b)'
    BY <1>1, <2>1 DEF Row
  <2> QED BY <1>1, <1>2, <1>4, <2>1, <2>2 DEF Tidy, Found, Written, Known, Exists
<1> QED BY <1>1, <1>2, <1>4, <1>5, <1>6, OwnStep DEF SandboxTyped

LEMMA DockerCommitKeeps ==
    ASSUME SandboxInv, NEW c \in Caller, NEW b \in Box, op[c].box = b, DockerCommit(c)
    PROVE  SandboxInv'
<1>1. SandboxTyped /\ op[c].at = "snapshot" /\ box' = box /\ place' = place /\ blurred' = blurred
  BY DEF SandboxInv, DockerCommit, At
<1>2. Works(c) /\ op[c].kind = "snapshot"
  BY <1>1, Kinds
<1>3. CASE ~(Known(b) /\ Exists(b))
  BY <1>1, <1>2, <1>3, Thrown DEF DockerCommit
<1>4. CASE Known(b) /\ Exists(b)
  <2>1. PICK image : op' = [op EXCEPT ![c].at = "committed", ![c].image = image] /\ record' = record
    BY <1>4 DEF DockerCommit
  <2>2. /\ DOMAIN op' = Caller /\ \A d \in Caller \ {c} : op'[d] = op[d]
        /\ DOMAIN op'[c] = Fields /\ op'[c].at = "committed" /\ op'[c].kind = op[c].kind /\ op'[c].box = b /\ op'[c].state = op[c].state
    BY <1>1, <2>1 DEF SandboxTyped, Fields
  <2>3. op'[c].at \in Stages[op[c].kind] /\ op'[c] # Idle
    BY <1>2, <2>2, Steps, Resting
  <2>4. ASSUME b \notin blurred PROVE Row(b)' /\ Tidy(c)'
    <3>1. Row(b) /\ Tidy(c)
      BY <1>2, <2>4, Own
    <3>2. Row(b)'
      BY <1>1, <3>1 DEF Row
    <3> QED BY <1>1, <1>2, <1>4, <2>1, <2>2, <3>1, <3>2 DEF Tidy, Found, Written, Known, Exists
  <2> QED BY <1>1, <1>2, <2>1, <2>2, <2>3, <2>4, OwnStep DEF SandboxTyped
<1> QED BY <1>3, <1>4

LEMMA CommittedKeeps ==
    ASSUME SandboxInv, NEW c \in Caller, NEW b \in Box, op[c].box = b, Committed(c)
    PROVE  SandboxInv'
<1>1. /\ SandboxTyped /\ op[c].at = "committed" /\ record' = record /\ place' = place /\ blurred' = blurred
      /\ op' = [op EXCEPT ![c].at = "list"] /\ box' = WithState(b, "SNAPSHOTTED")
  BY DEF SandboxInv, Committed, At, Goto
<1>2. Works(c) /\ op[c].kind = "snapshot"
  BY <1>1, Kinds
<1>3. /\ DOMAIN op' = Caller /\ \A d \in Caller \ {c} : op'[d] = op[d]
      /\ DOMAIN op'[c] = Fields /\ op'[c].at = "list" /\ op'[c].kind = op[c].kind /\ op'[c].box = b /\ op'[c].state = op[c].state
  BY <1>1, GoesOn
<1>4. op'[c].at \in Stages[op[c].kind] /\ op'[c] # Idle
  BY <1>2, <1>3, Steps, Resting
<1>5. DOMAIN box' = Box /\ (\A d \in Box \ {b} : box'[d] = box[d]) /\ (Row(b) => Row(b)' /\ (Known(b)' <=> Known(b)))
  BY <1>1, Marks
<1>6. ASSUME b \notin blurred PROVE Row(b)' /\ Tidy(c)'
  <2>1. Row(b) /\ Tidy(c)
    BY <1>2, <1>6, Own
  <2> QED BY <1>1, <1>2, <1>3, <1>5, <2>1 DEF Tidy, Found, Written, Exists
<1> QED BY <1>1, <1>2, <1>3, <1>4, <1>5, <1>6, OwnStep DEF SandboxTyped

LEMMA ForgetKeeps ==
    ASSUME SandboxInv, NEW c \in Caller, NEW b \in Box, op[c].box = b, Forget(c)
    PROVE  SandboxInv'
<1>1. SandboxTyped /\ op[c].at = "forget" /\ record' = record /\ place' = place /\ blurred' = blurred /\ box' = [box EXCEPT ![b] = <<>>]
  BY DEF SandboxInv, Forget, At
<1>2. Works(c) /\ op[c].kind = "destroy" /\ After("destroy") = "unregister"
  BY <1>1, Kinds, Steps
<1>3. /\ DOMAIN op' = Caller /\ \A d \in Caller \ {c} : op'[d] = op[d]
      /\ DOMAIN op'[c] = Fields /\ op'[c].at = (IF Known(b) THEN "docker destroy" ELSE "unregister") /\ op'[c].kind = op[c].kind /\ op'[c].box = b
  <2>1. CASE Known(b)
    BY <1>1, <2>1, GoesOn DEF Forget, Goto
  <2>2. CASE ~Known(b)
    BY <1>1, <1>2, <2>2, Answers DEF Forget
  <2> QED BY <2>1, <2>2
<1>4. op'[c].at \in Stages[op[c].kind] /\ op'[c] # Idle
  BY <1>2, <1>3, Steps, Resting
<1>5. DOMAIN box' = Box /\ (\A d \in Box \ {b} : box'[d] = box[d]) /\ box'[b] = <<>>
  BY <1>1 DEF SandboxTyped
<1>6. ASSUME b \notin blurred PROVE Row(b)' /\ Tidy(c)'
  <2>1. Row(b) /\ Tidy(c)
    BY <1>2, <1>6, Own
  <2> QED BY <1>1, <1>2, <1>3, <1>5, <2>1 DEF Tidy, Row, Found, Written, Known, Exists
<1> QED BY <1>1, <1>2, <1>3, <1>4, <1>5, <1>6, OwnStep DEF SandboxTyped

LEMMA DockerDestroyKeeps ==
    ASSUME SandboxInv, NEW c \in Caller, NEW b \in Box, op[c].box = b, DockerDestroy(c)
    PROVE  SandboxInv'
<1>1. /\ SandboxTyped /\ op[c].at = "docker destroy" /\ record' = record /\ box' = box /\ blurred' = blurred
      /\ place' = [place EXCEPT ![b] = NoPlace] /\ Answer(c, "none")
  BY DEF SandboxInv, DockerDestroy, At
<1>2. Works(c) /\ op[c].kind = "destroy" /\ After("destroy") = "unregister"
  BY <1>1, Kinds, Steps
<1>3. /\ DOMAIN op' = Caller /\ \A d \in Caller \ {c} : op'[d] = op[d]
      /\ DOMAIN op'[c] = Fields /\ op'[c].at = "unregister" /\ op'[c].kind = op[c].kind /\ op'[c].box = b
  BY <1>1, <1>2, Answers
<1>4. op'[c].at \in Stages[op[c].kind] /\ op'[c] # Idle
  BY <1>2, <1>3, Steps, Resting
<1>5. /\ DOMAIN place' = Box /\ (\A d \in Box : DOMAIN place'[d] = {"run", "files"}) /\ \A d \in Box \ {b} : place'[d] = place[d]
      /\ place'[b].run = "none"
  BY <1>1 DEF SandboxTyped, NoPlace
<1>6. ASSUME b \notin blurred PROVE Row(b)' /\ Tidy(c)'
  <2>1. Row(b) /\ Tidy(c)
    BY <1>2, <1>6, Own
  <2>2. Row(b)'
    BY <1>1, <2>1 DEF Row
  <2> QED BY <1>1, <1>2, <1>3, <1>5, <2>1, <2>2 DEF Tidy, Found, Written, Known, Exists
<1> QED BY <1>1, <1>2, <1>3, <1>4, <1>5, <1>6, OwnStep DEF SandboxTyped

\* What docker fails blurs the sandbox.
LEMMA DockerFailsKeeps ==
    ASSUME SandboxInv, NEW c \in Caller, NEW b \in Box, op[c].box = b, DockerFails(c)
    PROVE  SandboxInv'
<1>1. /\ SandboxTyped /\ op[c].at \in {"docker create", "start", "pause", "restore", "snapshot"} /\ Throw(c)
      /\ box' = box /\ place' = place /\ blurred' = blurred \cup {b}
  BY DEF SandboxInv, DockerFails
<1>2. Works(c)
  BY <1>1, Kinds
<1> QED BY <1>1, <1>2, Thrown

LEMMA RemoveFailsKeeps ==
    ASSUME SandboxInv, NEW c \in Caller, NEW b \in Box, op[c].box = b, RemoveFails(c)
    PROVE  SandboxInv'
<1>1. /\ SandboxTyped /\ op[c].at \in {"docker destroy", "remove"} /\ record' = record /\ box' = box /\ place' = place
      /\ blurred' = blurred \cup {b}
  BY DEF SandboxInv, RemoveFails, At
<1>2. Works(c) /\ op[c].kind \in (IF op[c].at = "remove" THEN {"reset", "restore"} ELSE {"destroy"}) /\ After("destroy") = "unregister"
  BY <1>1, Kinds, Steps
<1>3. /\ DOMAIN op' = Caller /\ \A d \in Caller \ {c} : op'[d] = op[d]
      /\ DOMAIN op'[c] = Fields /\ op'[c].at = (IF op[c].at = "remove" THEN "removed" ELSE "unregister") /\ op'[c].kind = op[c].kind /\ op'[c].box = b
  <2>1. CASE op[c].at = "remove"
    BY <1>1, <2>1, GoesOn DEF RemoveFails, Goto, At
  <2>2. CASE op[c].at # "remove"
    BY <1>1, <1>2, <2>2, Answers DEF RemoveFails, At
  <2> QED BY <2>1, <2>2
<1>4. op'[c].at \in Stages[op[c].kind] /\ op'[c] # Idle
  BY <1>2, <1>3, Steps, Resting
<1> QED BY <1>1, <1>2, <1>3, <1>4, OwnStep DEF SandboxTyped

LEMMA LocalKeeps ==
    ASSUME SandboxInv, NEW c \in Caller, NEW b \in Box, op[c].box = b, Local(c)
    PROVE  SandboxInv'
<1>1. SandboxTyped /\ op[c].at = "local" /\ blurred' = blurred
  BY DEF SandboxInv, Local, At
<1>2. Works(c) /\ op[c].kind \in {"create", "clone", "start", "pause", "reset", "restore", "snapshot", "destroy"}
  <2>1. Works(c) /\ op[c].kind \in DOMAIN Stages
    BY <1>1, Kinds DEF SandboxTyped
  <2> QED BY <2>1 DEF Stages, Works
<1>3. CASE ~LocalOk(c)
  BY <1>1, <1>2, <1>3, Thrown DEF Local
<1>4. CASE LocalOk(c)
  <2> DEFINE id == Len(taken) + 1
  <2>1. /\ box' = [box EXCEPT ![b] = IF op[c].kind = "destroy" THEN <<>> ELSE <<Entry(LocalState[op[c].kind], 0)>>]
        /\ place' = IF op[c].kind = "destroy" /\ ~Known(b) THEN place ELSE [place EXCEPT ![b] = LocalPlace(op[c].kind, b, op[c].source)]
        /\ IF op[c].kind = "snapshot" THEN op' = [op EXCEPT ![c].at = "list", ![c].image = id] ELSE Answer(c, LocalState[op[c].kind])
        /\ record' = record
    BY <1>4 DEF Local
  <2> HIDE DEF id
  <2>2. /\ DOMAIN op' = Caller /\ \A d \in Caller \ {c} : op'[d] = op[d]
        /\ DOMAIN op'[c] = Fields /\ op'[c].kind = op[c].kind /\ op'[c].box = b
        /\ op[c].kind = "snapshot" => op'[c].at = "list"
        /\ op[c].kind # "snapshot" => op'[c].at = After(op[c].kind) /\ op'[c].state = LocalState[op[c].kind]
    <3>1. CASE op[c].kind = "snapshot"
      BY <1>1, <2>1, <3>1 DEF SandboxTyped, Fields
    <3>2. CASE op[c].kind # "snapshot"
      BY <1>1, <2>1, <3>2, Answers
    <3> QED BY <3>1, <3>2
  <2>3. op'[c].at \in Stages[op[c].kind] /\ op'[c] # Idle
    BY <1>2, <2>2, Steps, Resting
  <2>4. DOMAIN box' = Box /\ (\A d \in Box \ {b} : box'[d] = box[d]) /\ Row(b)' /\ (Known(b)' <=> op[c].kind # "destroy")
    <3>1. DOMAIN box' = Box /\ (\A d \in Box \ {b} : box'[d] = box[d])
      BY <1>1, <2>1 DEF SandboxTyped
    <3>2. box'[b] = IF op[c].kind = "destroy" THEN <<>> ELSE <<Entry(LocalState[op[c].kind], 0)>>
      BY <1>1, <2>1 DEF SandboxTyped
    <3> QED BY <3>1, <3>2 DEF Row, Known
  <2>5. DOMAIN LocalPlace(op[c].kind, b, op[c].source) = {"run", "files"}
    BY <1>1, <1>2 DEF SandboxTyped, LocalPlace, Workspace, NoPlace
  <2>6. /\ DOMAIN place' = Box /\ (\A d \in Box : DOMAIN place'[d] = {"run", "files"}) /\ \A d \in Box \ {b} : place'[d] = place[d]
    BY <1>1, <2>1, <2>5 DEF SandboxTyped
  <2>7. ASSUME b \notin blurred PROVE Row(b)' /\ Tidy(c)'
    <3>1. Row(b) /\ Tidy(c) /\ Found(b) /\ Written(b)
      BY <1>1, <1>2, <2>7, Own DEF Tidy
    <3>2. CASE op[c].kind = "destroy"
      <4>1. ~Known(b)' /\ op'[c].at = "unregister"
        BY <1>2, <2>2, <2>4, <3>2, Steps
      <4>2. ~Exists(b)'
        <5>1. CASE Known(b)
          <6>1. LocalPlace("destroy", b, op[c].source) = NoPlace
            BY DEF LocalPlace
          <6>2. place'[b] = NoPlace
            BY <1>1, <2>1, <3>2, <5>1, <6>1 DEF SandboxTyped
          <6> QED BY <6>2 DEF NoPlace, Exists
        <5>2. CASE ~Known(b)
          BY <2>1, <3>1, <3>2, <5>2 DEF Found, Exists
        <5> QED BY <5>1, <5>2
      <4> QED BY <1>1, <2>1, <2>2, <2>4, <3>1, <3>2, <4>1, <4>2 DEF Tidy, Found, Written
    <3>3. CASE op[c].kind = "snapshot"
      BY <1>1, <2>1, <2>2, <2>4, <3>1, <3>3 DEF Tidy, Found, Written
    <3>4. CASE op[c].kind \in {"create", "clone"}
      <4>1. op'[c].at = "register"
        BY <2>2, <3>4, Steps
      <4> QED BY <1>1, <2>1, <2>2, <2>4, <3>1, <3>4, <4>1 DEF Tidy, Found, Written
    <3>5. CASE op[c].kind \in {"start", "pause", "reset", "restore"}
      <4>1. op'[c].at = "record" /\ op'[c].state # "none"
        <5>1. LocalState["start"] # "none" /\ LocalState["pause"] # "none" /\ LocalState["reset"] # "none" /\ LocalState["restore"] # "none"
          BY DEF LocalState
        <5> QED BY <2>2, <3>5, <5>1, Steps
      <4> QED BY <1>1, <2>1, <2>2, <2>4, <3>1, <3>5, <4>1 DEF Tidy, Found, Written
    <3> QED BY <1>2, <3>2, <3>3, <3>4, <3>5
  <2> QED BY <1>1, <1>2, <2>1, <2>2, <2>3, <2>4, <2>6, <2>7, OwnStep DEF SandboxTyped
<1> QED BY <1>3, <1>4

\* A step beside the calls that change a sandbox keeps what is known and
\* what exists.
LEMMA Aside ==
    ASSUME SandboxInv, SandboxTyped', record' = record, blurred' = blurred,
           \A c \in Caller : op'[c] = op[c] \/ (~Works(c) /\ ~Works(c)'),
           \A b \in Box : (Row(b) => Row(b)' /\ (Known(b)' <=> Known(b))) /\ (Exists(b)' <=> Exists(b))
    PROVE  SandboxInv'
<1>1. ASSUME NEW c \in Caller PROVE Works(c)' <=> Works(c) /\ op'[c] = op[c]
  BY <1>1 DEF Works
<1>2. ASSUME NEW b \in Box \ blurred' PROVE Clear(b)'
  <2>1. Clear(b) /\ Row(b)' /\ (Known(b)' <=> Known(b)) /\ (Exists(b)' <=> Exists(b))
    BY <1>2 DEF SandboxInv, Clear
  <2>2. (Found(b) => Found(b)') /\ (Written(b) => Written(b)')
    BY <2>1 DEF Found, Written
  <2>3. ASSUME NEW c \in Caller, Works(c)', op'[c].box = b PROVE Tidy(c)' /\ \A d \in Caller : Works(d)' /\ op'[d].box = b => d = c
    <3>1. op'[c] = op[c] /\ Works(c) /\ Tidy(c)
      BY <1>1, <2>1, <2>3 DEF Clear
    <3>2. Tidy(c)'
      BY <2>1, <2>2, <2>3, <3>1 DEF Tidy
    <3>3. \A d \in Caller : Works(d)' /\ op'[d].box = b => d = c
      BY <1>1, <2>1, <2>3, <3>1 DEF Clear
    <3> QED BY <3>2, <3>3
  <2>4. (\A c \in Caller : Works(c)' => op'[c].box # b) => \A c \in Caller : Works(c) => op[c].box # b
    BY <1>1
  <2> QED BY <2>1, <2>2, <2>3, <2>4 DEF Clear
<1> QED BY <1>2 DEF SandboxInv

LEMMA InspectKeeps ==
    ASSUME SandboxInv, NEW c \in Caller, NEW b \in Box, Inspect(c, b)
    PROVE  SandboxInv'
<1>1. SandboxTyped /\ op[c] = Idle /\ box' = box /\ place' = place /\ record' = record /\ blurred' = blurred
  BY DEF SandboxInv, Inspect
<1>2. PICK state : op' = [op EXCEPT ![c] = [Idle EXCEPT !.at = "inspected", !.kind = "reconcile", !.box = b, !.state = state]]
  BY DEF Inspect
<1>3. DOMAIN op' = Caller /\ (\A d \in Caller \ {c} : op'[d] = op[d])
      /\ DOMAIN op'[c] = Fields /\ op'[c].at = "inspected" /\ op'[c].kind = "reconcile" /\ op'[c].box = b
  BY <1>1, <1>2 DEF SandboxTyped, Idle, Fields
<1>4. "reconcile" \in DOMAIN Stages /\ "inspected" \in Stages["reconcile"] /\ op'[c] # Idle
  BY <1>3, Resting DEF Stages
<1>5. SandboxTyped'
  BY <1>1, <1>3, <1>4 DEF SandboxTyped
<1>6. \A d \in Caller : op'[d] = op[d] \/ (~Works(d) /\ ~Works(d)')
  BY <1>1, <1>3, Resting DEF Works
<1> QED BY <1>1, <1>5, <1>6, Aside DEF Row, Known, Exists

LEMMA InspectedKeeps ==
    ASSUME SandboxInv, NEW c \in Caller, NEW b \in Box, op[c].box = b, Inspected(c)
    PROVE  SandboxInv'
<1>1. /\ SandboxTyped /\ op[c].at = "inspected" /\ place' = place /\ record' = record /\ blurred' = blurred
      /\ box' = WithState(b, op[c].state) /\ op' = [op EXCEPT ![c] = Idle]
  BY DEF SandboxInv, Inspected, At
<1>2. op[c].kind = "reconcile" /\ ~Works(c)
  BY <1>1, Kinds DEF Works
<1>3. DOMAIN op' = Caller /\ op'[c] = Idle /\ \A d \in Caller \ {c} : op'[d] = op[d]
  BY <1>1, Returns
<1>4. DOMAIN box' = Box /\ (\A d \in Box \ {b} : box'[d] = box[d]) /\ (Row(b) => Row(b)' /\ (Known(b)' <=> Known(b)))
  BY <1>1, Marks
<1>5. "none" \in DOMAIN Stages /\ "idle" \in Stages["none"]
  BY DEF Stages
<1>6. SandboxTyped'
  BY <1>1, <1>3, <1>4, <1>5, Resting DEF SandboxTyped
<1>7. \A d \in Caller : op'[d] = op[d] \/ (~Works(d) /\ ~Works(d)')
  BY <1>2, <1>3, Resting DEF Works
<1>8. \A d \in Box : (Row(d) => Row(d)' /\ (Known(d)' <=> Known(d))) /\ (Exists(d)' <=> Exists(d))
  BY <1>1, <1>4 DEF Row, Known, Exists
<1> QED BY <1>1, <1>6, <1>7, <1>8, Aside

LEMMA ExecuteKeeps ==
    ASSUME SandboxInv, NEW b \in Box, NEW f \in File, Execute(b, f)
    PROVE  SandboxInv'
<1> DEFINE n == made.writes + 1
<1>1. SandboxTyped /\ record' = record /\ box' = box /\ op' = op /\ blurred' = blurred /\ place' = [place EXCEPT ![b].files[f] = n]
  BY DEF SandboxInv, Execute
<1> HIDE DEF n
<1>2. DOMAIN place' = Box /\ \A d \in Box : DOMAIN place'[d] = {"run", "files"} /\ place'[d].run = place[d].run
  BY <1>1 DEF SandboxTyped
<1>3. SandboxTyped'
  BY <1>1, <1>2 DEF SandboxTyped
<1> QED BY <1>1, <1>2, <1>3, Aside DEF Row, Known, Exists

\* A call on a sandbox nobody works on finds it at rest; on another's it
\* blurs it.
LEMMA CallKeeps ==
    ASSUME SandboxInv, NEW c \in Caller, NEW b \in Box, NEW source \in Box, NEW snapshot,
           NEW kind \in {"create", "clone", "start", "pause", "reset", "snapshot", "restore", "destroy"},
           Call(c, kind, b, source, snapshot)
    PROVE  SandboxInv'
<1>1. /\ SandboxTyped /\ op[c] = Idle /\ box' = box /\ place' = place /\ record' = record
      /\ op' = [op EXCEPT ![c] = [Idle EXCEPT !.at = FirstStep(kind), !.kind = kind, !.box = b, !.source = source, !.image = snapshot]]
      /\ blurred' = IF \E d \in Caller : op[d] # Idle /\ op[d].box = b THEN blurred \cup {b} ELSE blurred
      /\ kind \notin {"create", "clone"} => record[b] # "none"
  BY DEF SandboxInv, Call
<1>2. DOMAIN op' = Caller /\ (\A d \in Caller \ {c} : op'[d] = op[d])
      /\ DOMAIN op'[c] = Fields /\ op'[c].at = FirstStep(kind) /\ op'[c].kind = kind /\ op'[c].box = b
  BY <1>1 DEF SandboxTyped, Idle, Fields
<1>3. /\ FirstStep(kind) \in {"local", "create", "remove", "forget", "start", "pause", "snapshot", "restore"}
      /\ kind \in DOMAIN Stages /\ FirstStep(kind) \in Stages[kind]
  <2>1. CASE kind \in {"create", "clone"}
    <3>1. "create" \in Stages["create"] /\ "local" \in Stages["create"] /\ "create" \in Stages["clone"] /\ "local" \in Stages["clone"]
          /\ "create" \in DOMAIN Stages /\ "clone" \in DOMAIN Stages
      BY DEF Stages, Making
    <3>2. FirstStep(kind) \in {"local", "create"}
      BY <2>1 DEF FirstStep
    <3> QED BY <2>1, <3>1, <3>2
  <2>2. CASE kind \in {"start", "pause"}
    <3>1. "start" \in Stages["start"] /\ "local" \in Stages["start"] /\ "pause" \in Stages["pause"] /\ "local" \in Stages["pause"]
          /\ "start" \in DOMAIN Stages /\ "pause" \in DOMAIN Stages
      BY DEF Stages, Making
    <3>2. FirstStep(kind) \in {"local", kind}
      BY <2>2 DEF FirstStep
    <3> QED BY <2>2, <3>1, <3>2
  <2>3. CASE kind \in {"snapshot", "restore"}
    <3>1. "snapshot" \in Stages["snapshot"] /\ "local" \in Stages["snapshot"] /\ "restore" \in Stages["restore"] /\ "local" \in Stages["restore"]
          /\ "snapshot" \in DOMAIN Stages /\ "restore" \in DOMAIN Stages
      BY DEF Stages, Making
    <3>2. FirstStep(kind) \in {"local", kind}
      BY <2>3 DEF FirstStep
    <3> QED BY <2>3, <3>1, <3>2
  <2>4. CASE kind = "reset"
    <3>1. "remove" \in Stages["reset"] /\ "local" \in Stages["reset"] /\ "reset" \in DOMAIN Stages
      BY DEF Stages, Making
    <3>2. FirstStep(kind) \in {"local", "remove"}
      BY <2>4 DEF FirstStep
    <3> QED BY <2>4, <3>1, <3>2
  <2>5. CASE kind = "destroy"
    <3>1. "forget" \in Stages["destroy"] /\ "local" \in Stages["destroy"] /\ "destroy" \in DOMAIN Stages
      BY DEF Stages, Making
    <3>2. FirstStep(kind) \in {"local", "forget"}
      BY <2>5 DEF FirstStep
    <3> QED BY <2>5, <3>1, <3>2
  <2> QED BY <2>1, <2>2, <2>3, <2>4, <2>5
<1>4. op'[c] # Idle /\ Works(c)' /\ ~Works(c)
  BY <1>1, <1>2, Resting DEF Works
<1>5. SandboxTyped'
  BY <1>1, <1>2, <1>3, <1>4 DEF SandboxTyped
<1>6. ASSUME NEW e \in Box \ blurred' PROVE Clear(e)'
  <2>1. Clear(e)
    BY <1>1, <1>6 DEF SandboxInv
  <2>2. (Row(e) => Row(e)') /\ (Found(e) => Found(e)') /\ (Written(e) => Written(e)')
    BY <1>1 DEF Row, Found, Written, Known, Exists
  <2>3. ASSUME NEW d \in Caller, d # c PROVE (Works(d)' <=> Works(d)) /\ op'[d] = op[d] /\ (Tidy(d) => Tidy(d)')
    BY <1>1, <1>2, <2>3 DEF Works, Tidy, Found, Written, Known, Exists
  <2>4. CASE e = b
    <3>1. \A d \in Caller : ~(Works(d) /\ op[d].box = b)
      BY <1>1, <1>6, <2>4, Resting DEF Works
    <3>2. Found(b)' /\ Written(b)' /\ Row(b)'
      BY <2>1, <2>2, <2>4, <3>1 DEF Clear
    <3>3. Tidy(c)'
      BY <1>1, <1>2, <1>3, <3>2 DEF Tidy, Found, Written
    <3> QED BY <1>4, <2>3, <2>4, <3>1, <3>2, <3>3 DEF Clear
  <2>5. CASE e # b
    <3>1. \A d \in Caller : (Works(d)' /\ op'[d].box = e) <=> (Works(d) /\ op[d].box = e)
      BY <1>2, <1>4, <2>3, <2>5
    <3>2. \A d \in Caller : Works(d)' /\ op'[d].box = e => Tidy(d)' /\ \A q \in Caller : Works(q)' /\ op'[q].box = e => q = d
      BY <1>4, <2>1, <2>3, <3>1 DEF Clear
    <3> QED BY <2>1, <2>2, <3>1, <3>2 DEF Clear
  <2> QED BY <2>4, <2>5
<1> QED BY <1>5, <1>6 DEF SandboxInv

\* The end of the process blurs what it cuts off.
LEMMA CrashKeeps ==
    ASSUME SandboxInv, Crash PROVE SandboxInv'
<1>1. /\ SandboxTyped /\ box' = box /\ place' = place /\ record' = record /\ op' = [c \in Caller |-> Idle]
      /\ blurred' = blurred \cup {op[c].box : c \in {d \in Caller : op[d] # Idle}}
  BY DEF SandboxInv, Crash
<1>2. SandboxTyped'
  <2>1. "none" \in DOMAIN Stages /\ "idle" \in Stages["none"]
    BY DEF Stages
  <2> QED BY <1>1, <2>1, Resting DEF SandboxTyped
<1>3. ASSUME NEW b \in Box \ blurred' PROVE Clear(b)'
  <2>1. Clear(b) /\ \A c \in Caller : op[c] # Idle => op[c].box # b
    BY <1>1, <1>3 DEF SandboxInv
  <2>2. \A c \in Caller : Works(c) => op[c].box # b
    BY <2>1, Resting DEF Works
  <2>3. Row(b)' /\ Found(b)' /\ Written(b)'
    BY <1>1, <2>1, <2>2 DEF Clear, Row, Found, Written, Known, Exists
  <2>4. \A c \in Caller : ~Works(c)'
    BY <1>1, Resting DEF Works
  <2> QED BY <2>3, <2>4 DEF Clear
<1> QED BY <1>2, <1>3 DEF SandboxInv

LEMMA SandboxKeeps ==
    ASSUME SandboxInv, [Next]_vars PROVE SandboxInv'
<1>1. CASE UNCHANGED vars
  <2>1. record' = record /\ box' = box /\ place' = place /\ op' = op /\ blurred' = blurred
    BY <1>1 DEF vars
  <2>2. SandboxTyped'
    BY <2>1 DEF SandboxInv, SandboxTyped
  <2> QED BY <2>1, <2>2, Aside DEF Row, Known, Exists
<1>2. CASE \E b \in Box, f \in File : Execute(b, f)
  BY <1>2, ExecuteKeeps
<1>3. CASE Crash
  BY <1>3, CrashKeeps
<1>4. ASSUME NEW c \in Caller, NEW b \in Box, Inspect(c, b) PROVE SandboxInv'
  BY <1>4, InspectKeeps
<1>5. ASSUME NEW c \in Caller, NEW b \in Box, NEW source \in Box, NEW snapshot,
             NEW kind \in {"create", "clone", "start", "pause", "reset", "snapshot", "restore", "destroy"},
             Call(c, kind, b, source, snapshot)
      PROVE  SandboxInv'
  BY <1>5, CallKeeps
<1>6. ASSUME NEW c \in Caller,
             \/ Register(c) \/ Record(c) \/ List(c) \/ Unregister(c) \/ Local(c)
             \/ CreateAsk(c) \/ DockerCreate(c) \/ Created(c) \/ DockerRun(c) \/ Ran(c) \/ DockerRemove(c) \/ Removed(c)
             \/ Restore(c) \/ DockerCommit(c) \/ Committed(c) \/ Forget(c) \/ DockerDestroy(c) \/ Inspected(c) \/ DockerFails(c) \/ RemoveFails(c)
      PROVE  SandboxInv'
  <2>1. op[c].box \in Box
    <3>1. op[c].at \notin {"idle"}
      BY <1>6 DEF Register, Record, List, Unregister, Local, CreateAsk, DockerCreate, Created, DockerRun, Ran, DockerRemove,
                  Removed, Restore, DockerCommit, Committed, Forget, DockerDestroy, Inspected, DockerFails, RemoveFails, At
    <3>2. op[c].kind # "none"
      BY <3>1, Resting DEF SandboxInv, SandboxTyped
    <3> QED BY <3>2 DEF SandboxInv, SandboxTyped
  <2>2. CASE Register(c) \/ Record(c) \/ List(c) \/ Unregister(c) \/ Local(c) \/ CreateAsk(c) \/ DockerCreate(c)
    BY <2>1, <2>2, RegisterKeeps, RecordKeeps, ListKeeps, UnregisterKeeps, LocalKeeps, CreateAskKeeps, DockerCreateKeeps
  <2>3. CASE Created(c) \/ DockerRun(c) \/ Ran(c) \/ DockerRemove(c) \/ Removed(c) \/ Restore(c) \/ DockerCommit(c)
    BY <2>1, <2>3, CreatedKeeps, DockerRunKeeps, RanKeeps, DockerRemoveKeeps, RemovedKeeps, RestoreKeeps, DockerCommitKeeps
  <2>4. CASE Committed(c) \/ Forget(c) \/ DockerDestroy(c) \/ Inspected(c) \/ DockerFails(c) \/ RemoveFails(c)
    BY <2>1, <2>4, CommittedKeeps, ForgetKeeps, DockerDestroyKeeps, InspectedKeeps, DockerFailsKeeps, RemoveFailsKeeps
  <2> QED BY <1>6, <2>2, <2>3, <2>4
<1> QED BY <1>1, <1>2, <1>3, <1>4, <1>5, <1>6 DEF Next

LEMMA RestingLeavesNothing ==
    SandboxInv => NothingLeftBehind
<1> SUFFICES ASSUME SandboxInv, NEW b \in Box, AtRest(b), record[b] = "none" PROVE ~Known(b) /\ ~Exists(b)
  BY DEF NothingLeftBehind
<1>1. Clear(b) /\ \A c \in Caller : Works(c) => op[c].box # b
  BY Resting DEF SandboxInv, AtRest, Works
<1> QED BY <1>1 DEF Clear, Found, Written

----------------------------------------------------------------------------
(* Devices.  As long as no process wrote over another's change, the store     *)
(* says of each device what was decided last, and who works on it.            *)

Machine == [state : {"UNKNOWN", "DISCOVERED", "AUTHORIZED", "AVAILABLE", "ALLOCATED", "RELEASED"}, authorized : BOOLEAN,
           trust : Fleet!Trust, size : (1..MaxSize) \cup {1, MaxSize}, able : BOOLEAN]

FleetTyped ==
    /\ fleet \in [Fleet!Device -> Machine]
    /\ arrays \in [Caller -> [Fleet!Device -> Machine]]
    /\ holders \in [Fleet!Device -> SUBSET Box]
    /\ decided \in [Fleet!Device -> BOOLEAN]
    /\ lost \in BOOLEAN

\* What holds of a device, its last decision and its holders.
Settled(device, decision, tasks) ==
    /\ device.authorized = decision
    /\ device.state = "UNKNOWN" => ~decision
    /\ tasks = {} \/ (device.state = "ALLOCATED" /\ \E t \in Box : tasks = {t})

Stands(d) == Settled(fleet[d], decided[d], holders[d])

FleetInv == FleetTyped /\ (lost \/ \A d \in Fleet!Device : Stands(d))

LEMMA FleetStarts == Fleet!Init => FleetInv
<1> SUFFICES ASSUME Fleet!Init PROVE FleetInv OBVIOUS
<1>1. Fleet!Seed \in [Fleet!Device -> Machine]
  BY DEF Fleet!Seed, Fleet!Absent, Machine, Fleet!Trust
<1>2. FleetTyped
  BY <1>1 DEF Fleet!Init, FleetTyped
<1>3. \A d \in Fleet!Device : Stands(d)
  BY DEF Fleet!Init, Stands, Settled, Fleet!Seed, Fleet!Absent
<1> QED BY <1>2, <1>3 DEF FleetInv

\* What a call of a process leaves: the store is the array, and unless the
\* array was out of date only the device of the call has changed.
LEMMA FleetChanges ==
    ASSUME FleetTyped, NEW p \in Caller, NEW d \in Fleet!Device, NEW device \in Machine, Fleet!Change(p, d, device)
    PROVE  /\ fleet' \in [Fleet!Device -> Machine] /\ arrays' \in [Caller -> [Fleet!Device -> Machine]]
           /\ lost' \in BOOLEAN
           /\ lost' \/ (~lost /\ arrays[p] = fleet /\ fleet' = [fleet EXCEPT ![d] = device])
<1>1. arrays' = [arrays EXCEPT ![p] = [arrays[p] EXCEPT ![d] = device]]
  BY DEF Fleet!Change
<1>2. arrays[p] \in [Fleet!Device -> Machine]
  BY DEF FleetTyped
<1>3. [arrays[p] EXCEPT ![d] = device] \in [Fleet!Device -> Machine]
  BY <1>2
<1>4. arrays' \in [Caller -> [Fleet!Device -> Machine]]
  BY <1>1, <1>3 DEF FleetTyped
<1>5. fleet' = [arrays[p] EXCEPT ![d] = device]
  BY <1>1 DEF Fleet!Change, FleetTyped
<1>6. lost' = (lost \/ fleet # arrays[p])
  BY DEF Fleet!Change
<1>7. lost' \in BOOLEAN
  BY <1>6 DEF FleetTyped
<1>8. lost' \/ (~lost /\ arrays[p] = fleet)
  BY <1>6
<1> QED BY <1>3, <1>4, <1>5, <1>7, <1>8

\* So a call keeps the invariant when it keeps it for its device.
LEMMA FleetCallKeeps ==
    ASSUME FleetInv, NEW p \in Caller, NEW d \in Fleet!Device, NEW device \in Machine, Fleet!Change(p, d, device),
           holders' \in [Fleet!Device -> SUBSET Box], decided' \in [Fleet!Device -> BOOLEAN],
           \A e \in Fleet!Device \ {d} : holders'[e] = holders[e] /\ decided'[e] = decided[e],
           arrays[p] = fleet /\ Stands(d) => Settled(device, decided'[d], holders'[d])
    PROVE  FleetInv'
<1>1. FleetTyped
  BY DEF FleetInv
<1>2. /\ fleet' \in [Fleet!Device -> Machine] /\ arrays' \in [Caller -> [Fleet!Device -> Machine]]
      /\ lost' \in BOOLEAN
      /\ lost' \/ (~lost /\ arrays[p] = fleet /\ fleet' = [fleet EXCEPT ![d] = device])
  BY <1>1, FleetChanges
<1>3. FleetTyped'
  BY <1>2 DEF FleetTyped
<1>4. ASSUME ~lost', NEW e \in Fleet!Device PROVE Stands(e)'
  <2>1. ~lost /\ arrays[p] = fleet /\ fleet' = [fleet EXCEPT ![d] = device]
    BY <1>2, <1>4
  <2>2. Stands(e) /\ Stands(d)
    BY <2>1 DEF FleetInv
  <2>3. CASE e = d
    <3>1. fleet'[e] = device
      BY <2>1, <2>3, <1>1 DEF FleetTyped
    <3> QED BY <3>1, <2>1, <2>2, <2>3 DEF Stands
  <2>4. CASE e # d
    <3>1. fleet'[e] = fleet[e]
      BY <2>1, <2>4, <1>1 DEF FleetTyped
    <3>2. holders'[e] = holders[e] /\ decided'[e] = decided[e]
      BY <2>4
    <3> QED BY <3>1, <3>2, <2>2 DEF Stands
  <2> QED BY <2>3, <2>4
<1> QED BY <1>3, <1>4 DEF FleetInv

LEMMA AllocateKeeps ==
    ASSUME FleetInv, NEW p \in Caller, NEW d \in Fleet!Device, NEW task \in Box, Fleet!Allocate(p, d, task)
    PROVE  FleetInv'
<1> DEFINE device == [arrays[p][d] EXCEPT !.state = "ALLOCATED"]
<1>1. arrays[p][d] \in Machine /\ holders \in [Fleet!Device -> SUBSET Box] /\ decided \in [Fleet!Device -> BOOLEAN]
  BY DEF FleetInv, FleetTyped
<1>2. device \in Machine /\ device.state = "ALLOCATED" /\ device.authorized = arrays[p][d].authorized
  BY <1>1 DEF Machine
<1>3. Fleet!Change(p, d, device) /\ holders' = [holders EXCEPT ![d] = @ \cup {task}] /\ decided' = decided
  BY DEF Fleet!Allocate
<1>4. holders' \in [Fleet!Device -> SUBSET Box] /\ decided' \in [Fleet!Device -> BOOLEAN]
  BY <1>1, <1>3
<1>5. \A e \in Fleet!Device \ {d} : holders'[e] = holders[e] /\ decided'[e] = decided[e]
  BY <1>1, <1>3
<1>6. ASSUME arrays[p] = fleet, Stands(d)
      PROVE  Settled(device, decided'[d], holders'[d])
  <2>1. fleet[d].state # "ALLOCATED"
    BY <1>6 DEF Fleet!Allocate, Fleet!Free
  <2>2. holders[d] = {}
    BY <2>1, <1>6 DEF Stands, Settled
  <2>3. holders'[d] = {task}
    BY <2>2, <1>1, <1>3
  <2> QED BY <1>2, <1>3, <1>6, <2>3 DEF Stands, Settled
<1> HIDE DEF device
<1> QED BY <1>2, <1>3, <1>4, <1>5, <1>6, FleetCallKeeps

LEMMA AuthorizeKeeps ==
    ASSUME FleetInv, NEW p \in Caller, NEW d \in Fleet!Device, NEW yes \in BOOLEAN, Fleet!Authorize(p, d, yes)
    PROVE  FleetInv'
<1> DEFINE device == [arrays[p][d] EXCEPT !.state = Fleet!DecidedState(@, yes), !.authorized = yes]
<1>1. arrays[p][d] \in Machine /\ holders \in [Fleet!Device -> SUBSET Box] /\ decided \in [Fleet!Device -> BOOLEAN]
  BY DEF FleetInv, FleetTyped
<1>2. device \in Machine /\ device.authorized = yes 
      /\ (arrays[p][d].state = "ALLOCATED" => device.state = "ALLOCATED")
      /\ (arrays[p][d].state # "UNKNOWN" => device.state # "UNKNOWN")
  BY <1>1 DEF Machine, Fleet!DecidedState
<1>3. Fleet!Change(p, d, device) /\ holders' = holders /\ decided' = [decided EXCEPT ![d] = yes]
  BY DEF Fleet!Authorize
<1>4. holders' \in [Fleet!Device -> SUBSET Box] /\ decided' \in [Fleet!Device -> BOOLEAN]
  BY <1>1, <1>3
<1>5. \A e \in Fleet!Device \ {d} : holders'[e] = holders[e] /\ decided'[e] = decided[e]
  BY <1>1, <1>3
<1>6. ASSUME arrays[p] = fleet, Stands(d)
      PROVE  Settled(device, decided'[d], holders'[d])
  <2>1. decided'[d] = yes
    BY <1>1, <1>3
  <2>2. arrays[p][d].state # "UNKNOWN"
    BY DEF Fleet!Authorize, Fleet!Has
  <2> QED BY <1>2, <1>3, <1>6, <2>1, <2>2 DEF Stands, Settled
<1> HIDE DEF device
<1> QED BY <1>2, <1>3, <1>4, <1>5, <1>6, FleetCallKeeps

LEMMA DiscoverKeeps ==
    ASSUME FleetInv, NEW p \in Caller, NEW d \in Fleet!Device, NEW trust \in Fleet!Trust, NEW size \in 1..MaxSize, NEW able \in BOOLEAN,
           Fleet!Discover(p, d, trust, size, able)
    PROVE  FleetInv'
<1> DEFINE device == [state |-> "DISCOVERED", authorized |-> FALSE, trust |-> trust, size |-> size, able |-> able]
<1>1. holders \in [Fleet!Device -> SUBSET Box] /\ decided \in [Fleet!Device -> BOOLEAN]
  BY DEF FleetInv, FleetTyped
<1>2. device \in Machine /\ device.state = "DISCOVERED" /\ device.authorized = FALSE
  BY DEF Machine
<1>3. Fleet!Change(p, d, device) /\ holders' = holders /\ decided' = decided /\ arrays[p][d].state = "UNKNOWN"
  BY DEF Fleet!Discover, Fleet!Has
<1>4. holders' \in [Fleet!Device -> SUBSET Box] /\ decided' \in [Fleet!Device -> BOOLEAN]
  BY <1>1, <1>3
<1>5. \A e \in Fleet!Device \ {d} : holders'[e] = holders[e] /\ decided'[e] = decided[e]
  BY <1>3
<1>6. ASSUME arrays[p] = fleet, Stands(d) PROVE Settled(device, decided'[d], holders'[d])
  <2>1. ~decided[d] /\ holders[d] = {}
    BY <1>3, <1>6 DEF Stands, Settled
  <2>2. decided[d] = FALSE
    BY <2>1, <1>1
  <2> QED BY <1>2, <1>3, <2>1, <2>2 DEF Settled
<1> HIDE DEF device
<1> QED BY <1>2, <1>3, <1>4, <1>5, <1>6, FleetCallKeeps

LEMMA ReleaseKeeps ==
    ASSUME FleetInv, NEW p \in Caller, NEW d \in Fleet!Device, Fleet!Release(p, d)
    PROVE  FleetInv'
<1> DEFINE device == [arrays[p][d] EXCEPT !.state = "RELEASED"]
<1>1. arrays[p][d] \in Machine /\ holders \in [Fleet!Device -> SUBSET Box] /\ decided \in [Fleet!Device -> BOOLEAN]
  BY DEF FleetInv, FleetTyped
<1>2. device \in Machine /\ device.state = "RELEASED" /\ device.authorized = arrays[p][d].authorized
  BY <1>1 DEF Machine
<1>3. Fleet!Change(p, d, device) /\ holders' = [holders EXCEPT ![d] = {}] /\ decided' = decided
  BY DEF Fleet!Release
<1>4. holders' \in [Fleet!Device -> SUBSET Box] /\ decided' \in [Fleet!Device -> BOOLEAN]
  BY <1>1, <1>3
<1>5. \A e \in Fleet!Device \ {d} : holders'[e] = holders[e] /\ decided'[e] = decided[e]
  BY <1>1, <1>3
<1>6. ASSUME arrays[p] = fleet, Stands(d) PROVE Settled(device, decided'[d], holders'[d])
  <2>1. holders'[d] = {}
    BY <1>1, <1>3
  <2> QED BY <1>2, <1>3, <1>6, <2>1 DEF Stands, Settled
<1> HIDE DEF device
<1> QED BY <1>2, <1>3, <1>4, <1>5, <1>6, FleetCallKeeps

LEMMA HeartbeatKeeps ==
    ASSUME FleetInv, NEW p \in Caller, NEW d \in Fleet!Device, NEW able \in BOOLEAN, Fleet!Heartbeat(p, d, able)
    PROVE  FleetInv'
<1> DEFINE device == [arrays[p][d] EXCEPT !.able = able]
<1>1. arrays[p][d] \in Machine /\ holders \in [Fleet!Device -> SUBSET Box] /\ decided \in [Fleet!Device -> BOOLEAN]
  BY DEF FleetInv, FleetTyped
<1>2. device \in Machine /\ device.state = arrays[p][d].state /\ device.authorized = arrays[p][d].authorized
  BY <1>1 DEF Machine
<1>3. Fleet!Change(p, d, device) /\ holders' = holders /\ decided' = decided
  BY DEF Fleet!Heartbeat
<1>4. ASSUME arrays[p] = fleet, Stands(d) PROVE Settled(device, decided'[d], holders'[d])
  BY <1>2, <1>3, <1>4 DEF Stands, Settled
<1> HIDE DEF device
<1> QED BY <1>1, <1>2, <1>3, <1>4, FleetCallKeeps

LEMMA RestartKeeps ==
    ASSUME FleetInv, NEW p \in Caller, Fleet!Restart(p)
    PROVE  FleetInv'
<1>1. arrays' \in [Caller -> [Fleet!Device -> Machine]]
  BY DEF FleetInv, FleetTyped, Fleet!Restart
<1> QED BY <1>1 DEF FleetInv, FleetTyped, Fleet!Restart, Stands

LEMMA FleetKeeps == FleetInv /\ [Fleet!Next]_Fleet!vars => FleetInv'
<1> SUFFICES ASSUME FleetInv, [Fleet!Next]_Fleet!vars PROVE FleetInv'
  OBVIOUS
<1>1. ASSUME NEW p \in Caller, Fleet!Restart(p) PROVE FleetInv'
  BY <1>1, RestartKeeps
<1>2. ASSUME NEW p \in Caller, NEW task \in Box, NEW size \in 1..MaxSize, NEW able \in BOOLEAN, Fleet!Schedule(p, task, size, able)
      PROVE FleetInv'
  <2>1. PICK d \in Fleet!Device : Fleet!Allocate(p, d, task)
    BY <1>2 DEF Fleet!Schedule
  <2> QED BY <2>1, AllocateKeeps
<1>3. ASSUME NEW p \in Caller, NEW d \in Fleet!Device, Fleet!Release(p, d) PROVE FleetInv'
  BY <1>3, ReleaseKeeps
<1>4. ASSUME NEW p \in Caller, NEW d \in Fleet!Device, NEW trust \in Fleet!Trust, NEW size \in 1..MaxSize, NEW able \in BOOLEAN,
             Fleet!Discover(p, d, trust, size, able)
      PROVE FleetInv'
  BY <1>4, DiscoverKeeps
<1>5. ASSUME NEW p \in Caller, NEW d \in Fleet!Device, NEW yes \in BOOLEAN, Fleet!Authorize(p, d, yes) \/ Fleet!Heartbeat(p, d, yes) PROVE FleetInv'
  BY <1>5, AuthorizeKeeps, HeartbeatKeeps
<1>6. ASSUME NEW p \in Caller, NEW d \in Fleet!Device, NEW task \in Box, Fleet!Allocate(p, d, task) PROVE FleetInv'
  BY <1>6, AllocateKeeps
<1>7. ASSUME UNCHANGED Fleet!vars PROVE FleetInv'
  BY <1>7 DEF FleetInv, FleetTyped, Stands, Fleet!vars
<1> QED BY <1>1, <1>2, <1>3, <1>4, <1>5, <1>6, <1>7 DEF Fleet!Next


----------------------------------------------------------------------------
(* The control plane.  What is asked for once is asked for once in every copy *)
(* as in the store.  As long as no process wrote over another's change and    *)
(* every write went through, a copy with the revision of the store is the     *)
(* store's state, and the tasks of any copy are the first tasks of the store. *)

Duty == [objective : Nat, risk : Control!Risk, status : Control!TaskStatus]
Approval == [task : Nat, status : {"PENDING", "GRANTED", "DENIED"}]
Plane == [missions : Nat, objectives : Seq(Nat), tasks : Seq(Duty), approvals : Seq(Approval), locked : BOOLEAN]
Plan == [objective : Nat, tasks : SUBSET Nat, active : BOOLEAN]

Asked(tasks, approvals) ==
    /\ \A i \in DOMAIN approvals : approvals[i].task \in DOMAIN tasks /\ tasks[approvals[i].task].risk # "CRITICAL"
    /\ \A i, j \in DOMAIN approvals : i # j /\ approvals[i].status = "PENDING" => approvals[j] # approvals[i]
Fine(s) == s \in Plane /\ Asked(s.tasks, s.approvals)

\* The tasks that were there are there, with the same risk and objective.
Extends(tasks, more) ==
    /\ DOMAIN tasks \subseteq DOMAIN more
    /\ \A t \in DOMAIN tasks : more[t].objective = tasks[t].objective /\ more[t].risk = tasks[t].risk

ControlTyped ==
    /\ plane \in [state : Plane, plans : Seq(Plan), revision : Nat]
    /\ copies \in [Caller -> [state : Plane, revision : Nat]]
    /\ past \in [lost : BOOLEAN, failed : BOOLEAN]

Reads(p) ==
    /\ copies[p].revision <= plane.revision
    /\ copies[p].revision = plane.revision => copies[p].state = plane.state
    /\ Extends(copies[p].state.tasks, plane.state.tasks)
Planned(i) ==
    \A t \in plane.plans[i].tasks :
       t \in DOMAIN plane.state.tasks /\ plane.state.tasks[t].objective = plane.plans[i].objective

ControlInv ==
    /\ ControlTyped
    /\ Fine(plane.state) /\ \A p \in Caller : Fine(copies[p].state)
    /\ past.lost \/ past.failed \/ ((\A p \in Caller : Reads(p)) /\ \A i \in DOMAIN plane.plans : Planned(i))

LEMMA SeedFine == Fine(Control!Seed)
<1> DEFINE tasks == <<Control!Task(1, "LOW", "RUNNING"), Control!Task(3, "HIGH", "APPROVAL_REQUIRED"), Control!Task(2, "LOW", "PLANNING")>>
           approvals == <<[task |-> 2, status |-> "PENDING"]>>
<1>1. Control!Seed = [missions |-> 2, objectives |-> <<1, 1, 2>>, tasks |-> tasks, approvals |-> approvals, locked |-> FALSE]
  BY DEF Control!Seed
<1>2. \A o \in Nat, r \in Control!Risk, s \in Control!TaskStatus : Control!Task(o, r, s) \in Duty
  BY DEF Control!Task, Duty
<1>3. tasks \in Seq(Duty) /\ DOMAIN tasks = 1..3 /\ tasks[2] = Control!Task(3, "HIGH", "APPROVAL_REQUIRED")
  BY <1>2 DEF Control!Risk, Control!TaskStatus
<1>4. tasks[2].risk = "HIGH"
  BY <1>3 DEF Control!Task
<1>5. approvals \in Seq(Approval) /\ DOMAIN approvals = {1} /\ approvals[1].task = 2
  BY DEF Approval
<1>6. <<1, 1, 2>> \in Seq(Nat)
  OBVIOUS
<1> HIDE DEF tasks, approvals
<1>7. Asked(tasks, approvals)
  BY <1>3, <1>4, <1>5 DEF Asked
<1>8. Control!Seed \in Plane
  BY <1>1, <1>3, <1>5, <1>6 DEF Plane
<1> QED BY <1>1, <1>7, <1>8 DEF Fine

LEMMA ControlStarts == Control!Init => ControlInv
<1> SUFFICES ASSUME Control!Init PROVE ControlInv
  OBVIOUS
<1>1. /\ plane.state = Control!Seed /\ plane.plans = <<>> /\ plane.revision = 0 /\ past.lost = FALSE
      /\ \A p \in Caller : copies[p].state = Control!Seed /\ copies[p].revision = 0
  BY DEF Control!Init
<1>2. Control!Seed \in Plane
  BY SeedFine DEF Fine
<1>3. ControlTyped
  BY <1>2 DEF Control!Init, ControlTyped
<1>4. \A p \in Caller : Reads(p)
  BY <1>1 DEF Reads, Extends
<1>5. DOMAIN plane.plans = {}
  BY <1>1
<1> QED BY <1>1, <1>3, <1>4, <1>5, SeedFine DEF ControlInv

\* A call that leaves a sound copy with at least the tasks it had.
LEMMA Persists ==
    ASSUME ControlInv, NEW p \in Caller, NEW new, Fine(new), Extends(copies[p].state.tasks, new.tasks), Control!Persist(p, new)
    PROVE  ControlInv'
<1>1. ControlTyped /\ new \in Plane
  BY DEF ControlInv, Fine
<1>2. CASE Control!Written(p, new)
  <2>1. /\ plane' = [plane EXCEPT !.state = new, !.revision = plane.revision + 1]
        /\ copies' = [copies EXCEPT ![p] = [state |-> new, revision |-> plane.revision + 1]]
        /\ past' = [past EXCEPT !.lost = past.lost \/ copies[p].revision # plane.revision]
    BY <1>2 DEF Control!Written
  <2>2. plane' \in [state : Plane, plans : Seq(Plan), revision : Nat]
        /\ plane'.state = new /\ plane'.plans = plane.plans /\ plane'.revision = plane.revision + 1
    <3> DEFINE next == plane.revision + 1
    <3>1. plane \in [state : Plane, plans : Seq(Plan), revision : Nat] /\ next \in Nat
      BY <1>1 DEF ControlTyped
    <3>2. plane' = [plane EXCEPT !.state = new, !.revision = next]
      BY <2>1
    <3> HIDE DEF next
    <3>3. plane' \in [state : Plane, plans : Seq(Plan), revision : Nat]
          /\ plane'.state = new /\ plane'.plans = plane.plans /\ plane'.revision = next
      BY <1>1, <3>1, <3>2
    <3> QED BY <3>3 DEF next
  <2>3. copies' \in [Caller -> [state : Plane, revision : Nat]]
        /\ copies'[p].state = new /\ copies'[p].revision = plane.revision + 1 /\ \A q \in Caller \ {p} : copies'[q] = copies[q]
    BY <1>1, <2>1 DEF ControlTyped
  <2>4. past' \in [lost : BOOLEAN, failed : BOOLEAN] /\ past'.failed = past.failed
        /\ past'.lost = (past.lost \/ copies[p].revision # plane.revision)
    BY <1>1, <2>1 DEF ControlTyped
  <2>5. ControlTyped'
    BY <2>2, <2>3, <2>4 DEF ControlTyped
  <2>6. Fine(plane.state)' /\ \A q \in Caller : Fine(copies[q].state)'
    BY <2>2, <2>3 DEF ControlInv
  <2>7. ASSUME ~past'.lost, ~past'.failed
        PROVE  (\A q \in Caller : Reads(q)') /\ \A i \in DOMAIN plane'.plans : Planned(i)'
    <3>1. /\ copies[p].revision = plane.revision /\ (\A q \in Caller : Reads(q)) /\ \A i \in DOMAIN plane.plans : Planned(i)
      BY <2>4, <2>7 DEF ControlInv
    <3>2. Extends(plane.state.tasks, new.tasks)
      BY <3>1 DEF Reads
    <3>3. plane.revision \in Nat
      BY <1>1 DEF ControlTyped
    <3>4. Reads(p)'
      BY <2>2, <2>3, <3>3 DEF Reads, Extends
    <3>5. ASSUME NEW q \in Caller \ {p} PROVE Reads(q)'
      <4>1. copies[q].revision \in Nat
        BY <1>1 DEF ControlTyped
      <4>2. copies[q].revision <= plane.revision /\ Extends(copies[q].state.tasks, plane.state.tasks)
        BY <3>1 DEF Reads
      <4>3. Extends(copies[q].state.tasks, new.tasks)
        BY <3>2, <4>2 DEF Extends
      <4> QED BY <2>2, <2>3, <3>3, <4>1, <4>2, <4>3 DEF Reads
    <3>6. ASSUME NEW i \in DOMAIN plane'.plans PROVE Planned(i)'
      BY <2>2, <3>1, <3>2 DEF Planned, Extends
    <3> QED BY <3>4, <3>5, <3>6
  <2> QED BY <2>5, <2>6, <2>7 DEF ControlInv
<1>3. CASE Control!Thrown(p, new)
  <2>1. copies' = [copies EXCEPT ![p].state = new] /\ past' = [past EXCEPT !.failed = TRUE] /\ plane' = plane
    BY <1>3 DEF Control!Thrown
  <2>2. /\ copies' \in [Caller -> [state : Plane, revision : Nat]]
        /\ copies'[p].state = new /\ \A q \in Caller \ {p} : copies'[q] = copies[q]
    BY <1>1, <2>1 DEF ControlTyped
  <2>3. past' \in [lost : BOOLEAN, failed : BOOLEAN] /\ past'.failed
    BY <1>1, <2>1 DEF ControlTyped
  <2> QED BY <1>1, <2>1, <2>2, <2>3 DEF ControlInv, ControlTyped
<1> QED BY <1>2, <1>3 DEF Control!Persist

\* A copy that keeps its tasks and approvals.
LEMMA Unasked ==
    ASSUME NEW s, Fine(s), NEW new \in Plane, new.tasks = s.tasks, new.approvals = s.approvals
    PROVE  Fine(new) /\ Extends(s.tasks, new.tasks)
BY DEF Fine, Extends

\* A task that is given another status.
LEMMA Restated ==
    ASSUME NEW s, Fine(s), NEW t \in DOMAIN s.tasks, NEW status \in Control!TaskStatus
    PROVE  LET tasks == [s.tasks EXCEPT ![t].status = status]
           IN  tasks \in Seq(Duty) /\ DOMAIN tasks = DOMAIN s.tasks /\ Extends(s.tasks, tasks) /\ Asked(tasks, s.approvals)
<1> DEFINE tasks == [s.tasks EXCEPT ![t].status = status]
<1>1. s.tasks \in Seq(Duty)
  BY DEF Fine, Plane
<1>2. s.tasks[t] \in Duty
  BY <1>1
<1>3. [s.tasks[t] EXCEPT !.status = status] \in Duty
  BY <1>2 DEF Duty
<1>4. tasks \in Seq(Duty) /\ DOMAIN tasks = DOMAIN s.tasks
  BY <1>1, <1>3
<1>5. \A u \in DOMAIN s.tasks : tasks[u].objective = s.tasks[u].objective /\ tasks[u].risk = s.tasks[u].risk
  <2>1. tasks[t].objective = s.tasks[t].objective /\ tasks[t].risk = s.tasks[t].risk
    BY <1>1, <1>2 DEF Duty
  <2>2. \A u \in DOMAIN s.tasks \ {t} : tasks[u] = s.tasks[u]
    BY <1>1
  <2> QED BY <2>1, <2>2
<1> HIDE DEF tasks
<1>6. Extends(s.tasks, tasks)
  BY <1>4, <1>5 DEF Extends
<1>7. Asked(tasks, s.approvals)
  BY <1>4, <1>5 DEF Fine, Asked
<1> QED BY <1>4, <1>6, <1>7 DEF tasks

LEMMA StatusFine ==
    ASSUME NEW s, Fine(s), NEW t \in DOMAIN s.tasks, NEW status \in Control!TaskStatus
    PROVE  LET new == [s EXCEPT !.tasks[t].status = status]
           IN  Fine(new) /\ Extends(s.tasks, new.tasks)
<1> DEFINE tasks == [s.tasks EXCEPT ![t].status = status]
           new == [s EXCEPT !.tasks = tasks]
<1>1. tasks \in Seq(Duty) /\ Extends(s.tasks, tasks) /\ Asked(tasks, s.approvals)
  BY Restated
<1>2. s \in Plane
  BY DEF Fine
<1> HIDE DEF tasks
<1>3. new \in Plane /\ new.tasks = tasks /\ new.approvals = s.approvals
  BY <1>1, <1>2 DEF Plane
<1>4. Fine(new) /\ Extends(s.tasks, new.tasks)
  BY <1>1, <1>3 DEF Fine
<1> QED BY <1>4 DEF tasks

LEMMA TaskFine ==
    ASSUME NEW s, Fine(s), NEW duty \in Duty
    PROVE  LET new == [s EXCEPT !.tasks = Append(@, duty)]
           IN  Fine(new) /\ Extends(s.tasks, new.tasks)
<1> DEFINE tasks == Append(s.tasks, duty)
           new == [s EXCEPT !.tasks = tasks]
<1>1. s \in Plane /\ s.tasks \in Seq(Duty)
  BY DEF Fine, Plane
<1>2. tasks \in Seq(Duty) /\ Extends(s.tasks, tasks)
  BY <1>1 DEF Extends
<1> HIDE DEF tasks
<1>3. Asked(tasks, s.approvals)
  BY <1>2 DEF Fine, Asked, Extends
<1>4. new \in Plane /\ new.tasks = tasks /\ new.approvals = s.approvals
  BY <1>1, <1>2 DEF Plane
<1>5. Fine(new) /\ Extends(s.tasks, new.tasks)
  BY <1>2, <1>3, <1>4 DEF Fine
<1> QED BY <1>5 DEF tasks

\* What the guardian asks for is not critical, and not asked for already.
LEMMA RequestFine ==
    ASSUME NEW s, Fine(s), NEW t \in DOMAIN s.tasks, Control!Asks(s, t)
    PROVE  Fine(Control!Requested(s, t)) /\ Extends(s.tasks, Control!Requested(s, t).tasks)
<1> DEFINE tasks == [s.tasks EXCEPT ![t].status = "APPROVAL_REQUIRED"]
           approval == [task |-> t, status |-> "PENDING"]
           approvals == Append(s.approvals, approval)
           new == [s EXCEPT !.approvals = approvals, !.tasks = tasks]
<1>1. s \in Plane /\ s.tasks \in Seq(Duty) /\ s.approvals \in Seq(Approval)
  BY DEF Fine, Plane
<1>2. tasks \in Seq(Duty) /\ DOMAIN tasks = DOMAIN s.tasks /\ Extends(s.tasks, tasks) /\ Asked(tasks, s.approvals)
  BY Restated DEF Control!TaskStatus
<1>3. s.tasks[t].risk # "CRITICAL"
  BY DEF Control!Asks, Control!EvaluateTask
<1>4. t \in Nat /\ approval \in Approval
  BY <1>1 DEF Approval
<1>5. /\ approvals \in Seq(Approval) /\ DOMAIN approvals = DOMAIN s.approvals \cup {Len(s.approvals) + 1}
      /\ approvals[Len(s.approvals) + 1] = approval /\ \A i \in DOMAIN s.approvals : approvals[i] = s.approvals[i]
  BY <1>1, <1>4
<1>6. \A i \in DOMAIN s.approvals : s.approvals[i] # approval
  BY DEF Control!Asks, Control!Pending
<1>7. approval.task = t /\ approval.status = "PENDING"
  OBVIOUS
<1>8. Control!Requested(s, t) = new
  BY DEF Control!Requested
<1> HIDE DEF tasks, approval, approvals
<1>9. tasks[t].risk # "CRITICAL"
  BY <1>2, <1>3 DEF Extends
<1>10. Asked(tasks, approvals)
  <2>1. \A i \in DOMAIN approvals : approvals[i].task \in DOMAIN tasks /\ tasks[approvals[i].task].risk # "CRITICAL"
    BY <1>2, <1>5, <1>7, <1>9 DEF Asked
  <2>2. \A i, j \in DOMAIN approvals : i # j /\ approvals[i].status = "PENDING" => approvals[j] # approvals[i]
    BY <1>2, <1>5, <1>6 DEF Asked
  <2> QED BY <2>1, <2>2 DEF Asked
<1>11. new \in Plane /\ new.tasks = tasks /\ new.approvals = approvals
  BY <1>1, <1>2, <1>5 DEF Plane
<1> QED BY <1>2, <1>8, <1>10, <1>11 DEF Fine

\* An answer leaves nothing pending that was not.
LEMMA ResolvedFine ==
    ASSUME NEW s, Fine(s), NEW a \in DOMAIN s.approvals, NEW answer \in {"GRANTED", "DENIED"}, NEW status \in Control!TaskStatus
    PROVE  LET new == [s EXCEPT !.approvals[a].status = answer, !.tasks[s.approvals[a].task].status = status]
           IN  Fine(new) /\ Extends(s.tasks, new.tasks)
<1> DEFINE t == s.approvals[a].task
           tasks == [s.tasks EXCEPT ![t].status = status]
           approvals == [s.approvals EXCEPT ![a].status = answer]
           new == [s EXCEPT !.approvals = approvals, !.tasks = tasks]
<1>1. s \in Plane /\ s.approvals \in Seq(Approval) /\ t \in DOMAIN s.tasks
  BY DEF Fine, Plane, Asked
<1>2. tasks \in Seq(Duty) /\ DOMAIN tasks = DOMAIN s.tasks /\ Extends(s.tasks, tasks) /\ Asked(tasks, s.approvals)
  BY <1>1, Restated
<1>3. s.approvals[a] \in Approval
  BY <1>1
<1>4. [s.approvals[a] EXCEPT !.status = answer] \in Approval
  BY <1>3 DEF Approval
<1>5. /\ approvals \in Seq(Approval) /\ DOMAIN approvals = DOMAIN s.approvals
      /\ approvals[a].task = t /\ approvals[a].status = answer
      /\ \A i \in DOMAIN s.approvals \ {a} : approvals[i] = s.approvals[i]
  BY <1>1, <1>3, <1>4 DEF Approval
<1> HIDE DEF tasks, approvals, t
<1>6. Asked(tasks, approvals)
  <2>1. \A i \in DOMAIN approvals : approvals[i].task = s.approvals[i].task
    BY <1>5 DEF t
  <2>2. \A i \in DOMAIN approvals : approvals[i].task \in DOMAIN tasks /\ tasks[approvals[i].task].risk # "CRITICAL"
    BY <1>2, <1>5, <2>1 DEF Asked
  <2>3. answer # "PENDING"
    OBVIOUS
  <2>4. \A i, j \in DOMAIN approvals : i # j /\ approvals[i].status = "PENDING" => approvals[j] # approvals[i]
    BY <1>2, <1>5, <2>3 DEF Asked
  <2> QED BY <2>2, <2>4 DEF Asked
<1>7. new \in Plane /\ new.tasks = tasks /\ new.approvals = approvals
  BY <1>1, <1>2, <1>5 DEF Plane
<1>8. Fine(new) /\ Extends(s.tasks, new.tasks)
  BY <1>2, <1>6, <1>7 DEF Fine
<1> QED BY <1>8 DEF tasks, approvals, t

LEMMA CreatesPlan ==
    ASSUME ControlInv, NEW p \in Caller, NEW objective \in Nat, NEW tasks \in SUBSET Nat, Control!CreatePlan(p, objective, tasks)
    PROVE  ControlInv'
<1> DEFINE plan == [objective |-> objective, tasks |-> tasks, active |-> FALSE]
           plans == Append(plane.plans, plan)
<1>1. /\ plane' = [plane EXCEPT !.plans = plans] /\ copies' = copies /\ past' = past
      /\ tasks \subseteq {t \in DOMAIN copies[p].state.tasks : copies[p].state.tasks[t].objective = objective}
  BY DEF Control!CreatePlan, Control!Fits
<1>2. ControlTyped /\ plane.plans \in Seq(Plan)
  BY DEF ControlInv, ControlTyped
<1>3. plan \in Plan /\ plan.objective = objective /\ plan.tasks = tasks
  BY DEF Plan
<1> HIDE DEF plan
<1>4. /\ plans \in Seq(Plan) /\ DOMAIN plans = DOMAIN plane.plans \cup {Len(plane.plans) + 1}
      /\ plans[Len(plane.plans) + 1] = plan /\ \A i \in DOMAIN plane.plans : plans[i] = plane.plans[i]
  BY <1>2, <1>3
<1> HIDE DEF plans
<1>5. /\ plane' \in [state : Plane, plans : Seq(Plan), revision : Nat]
      /\ plane'.state = plane.state /\ plane'.plans = plans /\ plane'.revision = plane.revision
  BY <1>1, <1>2, <1>4 DEF ControlTyped
<1>6. ControlTyped' /\ Fine(plane.state)' /\ \A q \in Caller : Fine(copies[q].state)'
  BY <1>1, <1>5 DEF ControlInv, ControlTyped
<1>7. ASSUME ~past.lost, ~past.failed
      PROVE  (\A q \in Caller : Reads(q)') /\ \A i \in DOMAIN plane'.plans : Planned(i)'
  <2>1. (\A q \in Caller : Reads(q)) /\ \A i \in DOMAIN plane.plans : Planned(i)
    BY <1>7 DEF ControlInv
  <2>2. \A q \in Caller : Reads(q)'
    BY <1>1, <1>5, <2>1 DEF Reads
  <2>3. Extends(copies[p].state.tasks, plane.state.tasks)
    BY <2>1 DEF Reads
  <2>4. ASSUME NEW t \in tasks PROVE t \in DOMAIN plane.state.tasks /\ plane.state.tasks[t].objective = objective
    BY <1>1, <2>3, <2>4 DEF Extends
  <2>5. ASSUME NEW i, i = Len(plane.plans) + 1 PROVE Planned(i)'
    BY <1>3, <1>4, <1>5, <2>4, <2>5 DEF Planned
  <2>6. \A i \in DOMAIN plane.plans : Planned(i)'
    BY <1>4, <1>5, <2>1 DEF Planned
  <2> QED BY <1>4, <1>5, <2>2, <2>5, <2>6
<1> QED BY <1>1, <1>6, <1>7 DEF ControlInv

LEMMA ActivatesPlan ==
    ASSUME ControlInv, NEW i \in DOMAIN plane.plans, Control!ActivatePlan(i)
    PROVE  ControlInv'
<1> DEFINE plan == [plane.plans[i] EXCEPT !.active = TRUE]
           plans == [plane.plans EXCEPT ![i] = plan]
<1>1. plane' = [plane EXCEPT !.plans = plans] /\ copies' = copies /\ past' = past
  BY DEF Control!ActivatePlan
<1>2. ControlTyped /\ plane.plans \in Seq(Plan) /\ plane.plans[i] \in Plan
  BY DEF ControlInv, ControlTyped
<1>3. plan \in Plan /\ plan.objective = plane.plans[i].objective /\ plan.tasks = plane.plans[i].tasks
  BY <1>2 DEF Plan
<1> HIDE DEF plan
<1>4. /\ plans \in Seq(Plan) /\ DOMAIN plans = DOMAIN plane.plans /\ plans[i] = plan
      /\ \A j \in DOMAIN plane.plans \ {i} : plans[j] = plane.plans[j]
  BY <1>2, <1>3
<1> HIDE DEF plans
<1>5. /\ plane' \in [state : Plane, plans : Seq(Plan), revision : Nat]
      /\ plane'.state = plane.state /\ plane'.plans = plans /\ plane'.revision = plane.revision
  BY <1>1, <1>2, <1>4 DEF ControlTyped
<1>6. ControlTyped' /\ Fine(plane.state)' /\ \A q \in Caller : Fine(copies[q].state)'
  BY <1>1, <1>5 DEF ControlInv, ControlTyped
<1>7. ASSUME ~past.lost, ~past.failed
      PROVE  (\A q \in Caller : Reads(q)') /\ \A j \in DOMAIN plane'.plans : Planned(j)'
  <2>1. (\A q \in Caller : Reads(q)) /\ \A j \in DOMAIN plane.plans : Planned(j)
    BY <1>7 DEF ControlInv
  <2>2. \A q \in Caller : Reads(q)'
    BY <1>1, <1>5, <2>1 DEF Reads
  <2>3. \A j \in DOMAIN plane'.plans : plane'.plans[j].tasks = plane.plans[j].tasks /\ plane'.plans[j].objective = plane.plans[j].objective
    BY <1>3, <1>4, <1>5
  <2>4. \A j \in DOMAIN plane'.plans : Planned(j)'
    BY <1>4, <1>5, <2>1, <2>3 DEF Planned
  <2> QED BY <2>2, <2>4
<1> QED BY <1>1, <1>6, <1>7 DEF ControlInv

LEMMA ControlRestarts ==
    ASSUME ControlInv, NEW p \in Caller, Control!Restart(p)
    PROVE  ControlInv'
<1> DEFINE new == [state |-> plane.state, revision |-> plane.revision]
<1>1. copies' = [copies EXCEPT ![p] = new] /\ plane' = plane /\ past' = past /\ ControlTyped
  BY DEF Control!Restart, ControlInv
<1>2. /\ copies' \in [Caller -> [state : Plane, revision : Nat]] /\ copies'[p] = new
      /\ \A q \in Caller \ {p} : copies'[q] = copies[q]
  BY <1>1 DEF ControlTyped
<1>3. ControlTyped' /\ Fine(plane.state)' /\ \A q \in Caller : Fine(copies[q].state)'
  BY <1>1, <1>2 DEF ControlInv, ControlTyped
<1>4. ASSUME ~past.lost, ~past.failed
      PROVE  (\A q \in Caller : Reads(q)') /\ \A i \in DOMAIN plane'.plans : Planned(i)'
  <2>1. (\A q \in Caller : Reads(q)) /\ \A i \in DOMAIN plane.plans : Planned(i)
    BY <1>4 DEF ControlInv
  <2>2. plane.revision \in Nat
    BY <1>1 DEF ControlTyped
  <2>3. Reads(p)'
    BY <1>1, <1>2, <2>2 DEF Reads, Extends
  <2>4. \A q \in Caller \ {p} : Reads(q)'
    BY <1>1, <1>2, <2>1 DEF Reads
  <2>5. \A i \in DOMAIN plane'.plans : Planned(i)'
    BY <1>1, <2>1 DEF Planned
  <2> QED BY <2>3, <2>4, <2>5
<1> QED BY <1>1, <1>3, <1>4 DEF ControlInv

LEMMA ControlKeeps == ControlInv /\ [Control!Next]_Control!vars => ControlInv'
<1> SUFFICES ASSUME ControlInv, [Control!Next]_Control!vars PROVE ControlInv'
  OBVIOUS
<1>1. \A p \in Caller : Fine(copies[p].state) /\ copies[p].state \in Plane
  BY DEF ControlInv, Fine
<1>2. CASE UNCHANGED Control!vars
  BY <1>2 DEF Control!vars, ControlInv, ControlTyped, Reads, Planned
<1>3. ASSUME NEW i \in DOMAIN plane.plans, Control!ActivatePlan(i) PROVE ControlInv'
  BY <1>3, ActivatesPlan
<1>4. ASSUME NEW p \in Caller, Control!CreateMission(p) PROVE ControlInv'
  <2> DEFINE s == copies[p].state
             new == [s EXCEPT !.missions = @ + 1]
  <2>1. s.missions + 1 \in Nat
    BY <1>1 DEF Plane
  <2>2. new \in Plane /\ new.tasks = s.tasks /\ new.approvals = s.approvals
    BY <1>1, <2>1 DEF Plane
  <2>3. Control!Persist(p, new)
    BY <1>4 DEF Control!CreateMission
  <2> HIDE DEF new
  <2> QED BY <1>1, <2>2, <2>3, Unasked, Persists
<1>5. ASSUME NEW p \in Caller, Control!CreateObjective(p, copies[p].state.missions) PROVE ControlInv'
  <2> DEFINE s == copies[p].state
             new == [s EXCEPT !.objectives = Append(@, s.missions)]
  <2>1. Append(s.objectives, s.missions) \in Seq(Nat)
    BY <1>1 DEF Plane
  <2>2. new \in Plane /\ new.tasks = s.tasks /\ new.approvals = s.approvals
    BY <1>1, <2>1 DEF Plane
  <2>3. Control!Persist(p, new)
    BY <1>5 DEF Control!CreateObjective
  <2> HIDE DEF new
  <2> QED BY <1>1, <2>2, <2>3, Unasked, Persists
<1>6. ASSUME NEW p \in Caller, NEW risk \in Control!Risk, Control!CreateTask(p, 1, risk) PROVE ControlInv'
  <2> DEFINE s == copies[p].state
             duty == Control!Task(1, risk, "PLANNING")
             new == [s EXCEPT !.tasks = Append(@, duty)]
  <2>1. duty \in Duty
    BY DEF Control!Task, Duty, Control!TaskStatus
  <2>2. Control!Persist(p, new)
    BY <1>6 DEF Control!CreateTask
  <2> HIDE DEF duty
  <2>3. Fine(new) /\ Extends(s.tasks, new.tasks)
    BY <1>1, <2>1, TaskFine
  <2> HIDE DEF new
  <2> QED BY <2>2, <2>3, Persists
<1>7. ASSUME NEW p \in Caller, NEW t, NEW status \in Control!TaskStatus, t \in DOMAIN copies[p].state.tasks,
             Control!Persist(p, [copies[p].state EXCEPT !.tasks[t].status = status])
      PROVE  ControlInv'
  <2> DEFINE s == copies[p].state
             new == [s EXCEPT !.tasks[t].status = status]
  <2>1. Fine(new) /\ Extends(s.tasks, new.tasks)
    BY <1>1, <1>7, StatusFine
  <2>2. Control!Persist(p, new)
    BY <1>7
  <2> HIDE DEF new
  <2> QED BY <2>1, <2>2, Persists
<1>8. ASSUME NEW p \in Caller, NEW t, NEW status \in {"APPROVAL_REQUIRED", "COMPLETED"}, Control!SetStatus(p, t, status)
      PROVE  ControlInv'
  BY <1>7, <1>8 DEF Control!SetStatus, Control!TaskStatus
<1>9. ASSUME NEW p \in Caller, Control!Guardian(p) PROVE ControlInv'
  <2>1. PICK t \in DOMAIN copies[p].state.tasks :
           \/ Control!Persist(p, [copies[p].state EXCEPT !.tasks[t].status = "BLOCKED"])
           \/ Control!Asks(copies[p].state, t) /\ Control!Persist(p, Control!Requested(copies[p].state, t))
    BY <1>9 DEF Control!Guardian
  <2>2. CASE Control!Persist(p, [copies[p].state EXCEPT !.tasks[t].status = "BLOCKED"])
    BY <1>7, <2>2 DEF Control!TaskStatus
  <2>3. CASE Control!Asks(copies[p].state, t) /\ Control!Persist(p, Control!Requested(copies[p].state, t))
    BY <1>1, <2>3, RequestFine, Persists
  <2> QED BY <2>1, <2>2, <2>3
<1>10. ASSUME NEW p \in Caller, NEW i \in DOMAIN copies[p].state.approvals, NEW grant \in BOOLEAN, Control!Resolve(p, i, grant)
       PROVE  ControlInv'
  <2> DEFINE s == copies[p].state
             answer == IF grant THEN "GRANTED" ELSE "DENIED"
             status == IF grant THEN "QUEUED" ELSE "BLOCKED"
             new == [s EXCEPT !.approvals[i].status = answer, !.tasks[s.approvals[i].task].status = status]
  <2>1. answer \in {"GRANTED", "DENIED"} /\ status \in Control!TaskStatus
    BY DEF Control!TaskStatus
  <2>2. Control!Persist(p, new)
    BY <1>10 DEF Control!Resolve
  <2> HIDE DEF answer, status
  <2>3. Fine(new) /\ Extends(s.tasks, new.tasks)
    BY <1>1, <2>1, ResolvedFine
  <2> HIDE DEF new
  <2> QED BY <2>2, <2>3, Persists
<1>11. ASSUME NEW p \in Caller, NEW locked \in BOOLEAN, Control!SetLockdown(p, locked) PROVE ControlInv'
  <2> DEFINE s == copies[p].state
             new == [s EXCEPT !.locked = locked]
  <2>1. new \in Plane /\ new.tasks = s.tasks /\ new.approvals = s.approvals
    BY <1>1 DEF Plane
  <2>2. Control!Persist(p, new)
    BY <1>11 DEF Control!SetLockdown
  <2> HIDE DEF new
  <2> QED BY <1>1, <2>1, <2>2, Unasked, Persists
<1>12. ASSUME NEW p \in Caller, Control!UpdateAgentStatus(p) PROVE ControlInv'
  BY <1>1, <1>12, Unasked, Persists DEF Control!UpdateAgentStatus
<1>13. ASSUME NEW p \in Caller, Control!Restart(p) PROVE ControlInv'
  BY <1>13, ControlRestarts
<1>14. ASSUME NEW p \in Caller, NEW tasks \in {{1, 4}, {1, 2}}, Control!CreatePlan(p, 1, tasks) PROVE ControlInv'
  BY <1>14, CreatesPlan
<1> QED BY <1>2, <1>3, <1>4, <1>5, <1>6, <1>8, <1>9, <1>10, <1>11, <1>12, <1>13, <1>14 DEF Control!Next

----------------------------------------------------------------------------
(* Science.  Whatever a process read earned what it establishes, but for what *)
(* requests have patched of the record; what they have only grows.            *)

Trial == [state : Lab!Knowledge, runs : SUBSET (Lab!Kind \X BOOLEAN), baselineFirst : BOOLEAN,
           evidence : BOOLEAN, unexplained : BOOLEAN]

Honest(payload) == payload \in [Box -> Trial] /\ \A e \in Box : Lab!Earned(payload[e], patched[e])

LabInv ==
    /\ Honest(science)
    /\ patched \in [Box -> SUBSET Lab!Undeclared]
    /\ DOMAIN read = Caller
    /\ \A p \in Caller : read[p] # Lab!Nothing => Honest(read[p])

LEMMA NewEarned == Lab!New \in Trial /\ \A fields : Lab!Earned(Lab!New, fields)
BY DEF Lab!New, Trial, Lab!Knowledge, Lab!Earned

LEMMA MoreFields ==
    ASSUME NEW entry, NEW fields, NEW more, fields \subseteq more, Lab!Earned(entry, fields)
    PROVE  Lab!Earned(entry, more)
BY DEF Lab!Earned

\* What patches of fields leave of patched.
Grown(old, new) == new \in [Box -> SUBSET Lab!Undeclared] /\ \A e \in Box : old[e] \subseteq new[e]

LEMMA HonestStays ==
    ASSUME NEW payload, Honest(payload), Grown(patched, patched')
    PROVE  payload \in [Box -> Trial] /\ \A e \in Box : Lab!Earned(payload[e], patched'[e])
BY MoreFields DEF Honest, Grown

LEMMA ReadKeeps ==
    ASSUME LabInv, NEW p \in Caller, Lab!Read(p)
    PROVE  LabInv'
<1>1. read' = [read EXCEPT ![p] = science] /\ science' = science /\ patched' = patched
  BY DEF Lab!Read
<1>2. ASSUME NEW q \in Caller, read'[q] # Lab!Nothing PROVE Honest(read[q])'
  BY <1>1, <1>2 DEF LabInv, Honest
<1> QED BY <1>1, <1>2 DEF LabInv, Honest

\* A payload written keeps the invariant when its records have earned what
\* they say, of the fields patched by then.
LEMMA PutKeeps ==
    ASSUME LabInv, NEW p \in Caller, NEW payload \in [Box -> Trial], Lab!Put(p, payload),
           Grown(patched, patched'), \A e \in Box : Lab!Earned(payload[e], patched'[e])
    PROVE  LabInv'
<1>1. science' = payload /\ read' = [read EXCEPT ![p] = Lab!Nothing]
  BY DEF Lab!Put
<1>2. Honest(science)'
  BY <1>1 DEF Honest
<1>3. ASSUME NEW q \in Caller, read'[q] # Lab!Nothing PROVE Honest(read[q])'
  <2>1. read'[q] = read[q] /\ Honest(read[q])
    BY <1>1, <1>3 DEF LabInv
  <2>2. read[q] \in [Box -> Trial] /\ \A e \in Box : Lab!Earned(read[q][e], patched'[e])
    BY <2>1, HonestStays
  <2> QED BY <2>1, <2>2 DEF Honest
<1>4. (patched \in [Box -> SUBSET Lab!Undeclared])'
  BY DEF Grown
<1> QED BY <1>1, <1>2, <1>3, <1>4 DEF LabInv

LEMMA WriteKeeps ==
    ASSUME LabInv, NEW p \in Caller, NEW e \in Box, NEW entry \in Trial,
           read[p] # Lab!Nothing, Lab!Write(p, e, entry),
           Grown(patched, patched'), Lab!Earned(entry, patched'[e])
    PROVE  LabInv'
<1> DEFINE payload == [read[p] EXCEPT ![e] = entry]
<1>1. read[p] \in [Box -> Trial] /\ \A f \in Box : Lab!Earned(read[p][f], patched'[f])
  BY HonestStays DEF LabInv
<1>2. payload \in [Box -> Trial] /\ Lab!Put(p, payload)
  BY <1>1 DEF Lab!Write
<1>3. ASSUME NEW f \in Box PROVE Lab!Earned(payload[f], patched'[f])
  <2>1. CASE f = e
    BY <2>1, <1>1
  <2>2. CASE f # e
    BY <2>2, <1>1
  <2> QED BY <2>1, <2>2
<1> HIDE DEF payload
<1> QED BY <1>2, <1>3, PutKeeps

LEMMA SamePatched == LabInv /\ UNCHANGED patched => Grown(patched, patched')
BY DEF LabInv, Grown

\* validateCausalChain says ESTABLISHED of nothing else.
LEMMA JudgedEarned ==
    ASSUME NEW entry \in Trial, NEW fields
    PROVE  /\ [entry EXCEPT !.state = Lab!Judged(entry)] \in Trial
           /\ Lab!Earned([entry EXCEPT !.state = Lab!Judged(entry)], fields)
<1> DEFINE new == [entry EXCEPT !.state = Lab!Judged(entry)]
<1>1. Lab!Judged(entry) \in Lab!Knowledge
  BY DEF Lab!Judged, Lab!Knowledge
<1>2. new \in Trial
  BY <1>1 DEF Trial
<1>3. /\ new.state = Lab!Judged(entry) /\ new.runs = entry.runs
      /\ new.evidence = entry.evidence /\ new.baselineFirst = entry.baselineFirst
  BY DEF Trial
<1>4. entry.evidence \in BOOLEAN /\ entry.baselineFirst \in BOOLEAN
  BY DEF Trial
<1>5. Lab!Judged(entry) = "ESTABLISHED" => ~Lab!Contradicted(entry) /\ ~Lab!Reasons(entry)
  BY DEF Lab!Judged
<1>6. \A kind \in Lab!Kind : Lab!Ran(new, kind) <=> Lab!Ran(entry, kind)
  BY <1>3 DEF Lab!Ran
<1>7. Lab!Judged(entry) = "ESTABLISHED" =>
        /\ entry.evidence /\ entry.baselineFirst /\ \A kind \in Lab!Kind : Lab!Ran(entry, kind)
        /\ <<"CONTROL", FALSE>> \notin entry.runs /\ <<"REPLICATION", FALSE>> \notin entry.runs
  BY <1>4, <1>5 DEF Lab!Reasons, Lab!Contradicted
<1> HIDE DEF new
<1>8. Lab!Earned(new, fields)
  BY <1>3, <1>6, <1>7 DEF Lab!Earned
<1> QED BY <1>2, <1>8 DEF new

\* A patch of the state is none to ESTABLISHED, one of the evidence is excepted
\* from then on, and what is left to explain nothing has to earn.
LEMMA UpdateEarned ==
    ASSUME NEW entry \in Trial, NEW fields, Lab!Earned(entry, fields),
           NEW field \in Lab!Patchable, NEW value \in Lab!Values(field),
           field = "evidence" => "evidenceIds" \in fields
    PROVE  /\ [entry EXCEPT ![field] = value] \in Trial
           /\ Lab!Earned([entry EXCEPT ![field] = value], fields)
<1>1. CASE field = "state"
  <2>1. value \in Lab!Knowledge /\ value # "ESTABLISHED"
    BY <1>1 DEF Lab!Values
  <2>2. [entry EXCEPT !.state = value] \in Trial /\ [entry EXCEPT !.state = value].state = value
    BY <2>1 DEF Trial
  <2> QED BY <1>1, <2>1, <2>2 DEF Lab!Earned
<1>2. CASE field = "evidence"
  <2> DEFINE new == [entry EXCEPT !.evidence = value]
  <2>1. value \in BOOLEAN
    BY <1>2 DEF Lab!Values
  <2>2. new \in Trial /\ new.state = entry.state /\ new.runs = entry.runs /\ new.baselineFirst = entry.baselineFirst
    BY <2>1 DEF Trial
  <2> HIDE DEF new
  <2>3. Lab!Earned(new, fields)
    BY <1>2, <2>2 DEF Lab!Earned, Lab!Ran
  <2> QED BY <1>2, <2>2, <2>3 DEF new
<1>3. CASE field = "unexplained"
  <2> DEFINE new == [entry EXCEPT !.unexplained = value]
  <2>1. value \in BOOLEAN
    BY <1>3 DEF Lab!Values
  <2>2. new \in Trial /\ new.state = entry.state /\ new.runs = entry.runs
        /\ new.evidence = entry.evidence /\ new.baselineFirst = entry.baselineFirst
    BY <2>1 DEF Trial
  <2> HIDE DEF new
  <2>3. Lab!Earned(new, fields)
    BY <2>2 DEF Lab!Earned, Lab!Ran
  <2> QED BY <1>3, <2>2, <2>3 DEF new
<1> QED BY <1>1, <1>2, <1>3 DEF Lab!Patchable

LEMMA UpdateKeeps ==
    ASSUME LabInv, NEW p \in Caller, NEW e \in Box, NEW field \in Lab!Patchable, NEW value \in Lab!Values(field),
           Lab!UpdateExperiment(p, e, field, value)
    PROVE  LabInv'
<1> DEFINE new == [read[p][e] EXCEPT ![field] = value]
<1>1. read[p] # Lab!Nothing /\ Lab!Write(p, e, new)
  BY DEF Lab!UpdateExperiment, Lab!Reading
<1>2. patched' = IF field = "evidence" THEN [patched EXCEPT ![e] = @ \cup {"evidenceIds"}] ELSE patched
  BY DEF Lab!UpdateExperiment
<1>3. patched \in [Box -> SUBSET Lab!Undeclared]
  BY DEF LabInv
<1>4. Grown(patched, patched') /\ (field = "evidence" => "evidenceIds" \in patched'[e])
  BY <1>2, <1>3 DEF Grown, Lab!Undeclared
<1>5. read[p][e] \in Trial /\ Lab!Earned(read[p][e], patched'[e])
  BY <1>1, <1>4, HonestStays DEF LabInv
<1>6. new \in Trial /\ Lab!Earned(new, patched'[e])
  BY <1>4, <1>5, UpdateEarned
<1> HIDE DEF new
<1> QED BY <1>1, <1>4, <1>6, WriteKeeps

\* A record that moves takes its evidence along, and finds the runs of the id.
LEMMA RenameKeeps ==
    ASSUME LabInv, NEW p \in Caller, NEW e \in Box, NEW f \in Box, Lab!Rename(p, e, f)
    PROVE  LabInv'
<1> DEFINE old == read[p]
           left == [Lab!New EXCEPT !.runs = old[e].runs, !.baselineFirst = old[e].baselineFirst]
           moved == [old[e] EXCEPT !.runs = old[f].runs, !.baselineFirst = old[f].baselineFirst]
           payload == [old EXCEPT ![e] = left, ![f] = moved]
<1>1. old # Lab!Nothing /\ e # f /\ Lab!Put(p, payload)
      /\ patched' = [patched EXCEPT ![f] = @ \cup patched[e] \cup {"experimentId"}]
  BY DEF Lab!Rename, Lab!Reading, Lab!Renamed
<1>2. patched \in [Box -> SUBSET Lab!Undeclared]
  BY DEF LabInv
<1>3. Grown(patched, patched') /\ patched[e] \subseteq patched'[f] /\ "experimentId" \in patched'[f]
  BY <1>1, <1>2 DEF Grown, Lab!Undeclared
<1>4. old \in [Box -> Trial] /\ Lab!Earned(old[e], patched[e])
      /\ \A g \in Box : Lab!Earned(old[g], patched'[g])
  BY <1>1, <1>3, HonestStays DEF LabInv, Honest
<1>5. left \in Trial /\ left.state = "NONE"
  BY <1>4 DEF Trial, Lab!New, Lab!Knowledge
<1>6. Lab!Earned(left, patched'[e])
  BY <1>5 DEF Lab!Earned
<1>7. moved \in Trial /\ moved.state = old[e].state /\ moved.evidence = old[e].evidence
  BY <1>4 DEF Trial
<1> HIDE DEF left, moved, old
<1>8. Lab!Earned(moved, patched'[f])
  BY <1>3, <1>4, <1>7 DEF Lab!Earned
<1>9. payload \in [Box -> Trial]
  BY <1>4, <1>5, <1>7
<1>10. ASSUME NEW g \in Box PROVE Lab!Earned(payload[g], patched'[g])
  <2>1. CASE g = e
    BY <2>1, <1>1, <1>4, <1>6
  <2>2. CASE g = f
    BY <2>2, <1>1, <1>4, <1>8
  <2>3. CASE g # e /\ g # f
    BY <2>3, <1>4
  <2> QED BY <2>1, <2>2, <2>3
<1> HIDE DEF payload
<1> QED BY <1>1, <1>3, <1>9, <1>10, PutKeeps

LEMMA EvidenceEarned ==
    ASSUME NEW entry \in Trial, NEW fields, Lab!Earned(entry, fields)
    PROVE  /\ [entry EXCEPT !.evidence = TRUE] \in Trial
           /\ Lab!Earned([entry EXCEPT !.evidence = TRUE], fields)
<1> DEFINE new == [entry EXCEPT !.evidence = TRUE]
<1>1. new \in Trial /\ new.state = entry.state /\ new.runs = entry.runs
      /\ new.evidence = TRUE /\ new.baselineFirst = entry.baselineFirst
  BY DEF Trial
<1> HIDE DEF new
<1>2. Lab!Earned(new, fields)
  BY <1>1 DEF Lab!Earned, Lab!Ran
<1> QED BY <1>1, <1>2 DEF new

\* A run leaves SUPPORTED or CONTRADICTED behind, or no record: nothing to earn.
LEMMA RunEarned ==
    ASSUME NEW entry \in Trial, NEW kind \in Lab!Kind, NEW accepted \in BOOLEAN, NEW fields
    PROVE  Lab!WithRun(entry, kind, accepted) \in Trial /\ Lab!Earned(Lab!WithRun(entry, kind, accepted), fields)
<1> DEFINE first == IF Lab!Ran(entry, "CONTROL") THEN entry.baselineFirst
                    ELSE Lab!Ran(entry, "BASELINE") \/ kind = "BASELINE"
           state == IF entry.state = "NONE" THEN "NONE" ELSE IF accepted THEN "SUPPORTED" ELSE "CONTRADICTED"
           new == [entry EXCEPT !.runs = @ \cup {<<kind, accepted>>}, !.baselineFirst = first, !.state = state]
<1>1. entry.runs \cup {<<kind, accepted>>} \in SUBSET (Lab!Kind \X BOOLEAN)
  BY DEF Trial
<1>2. first \in BOOLEAN
  BY DEF Trial, Lab!Ran
<1>3. state \in Lab!Knowledge /\ state # "ESTABLISHED"
  BY DEF Lab!Knowledge
<1>4. Lab!WithRun(entry, kind, accepted) = new
  BY DEF Lab!WithRun, Trial
<1> HIDE DEF first, state
<1>5. new \in Trial /\ new.state = state
  BY <1>1, <1>2, <1>3 DEF Trial
<1> HIDE DEF new
<1>6. Lab!Earned(new, fields)
  BY <1>3, <1>5 DEF Lab!Earned
<1> QED BY <1>4, <1>5, <1>6

LEMMA LabKeeps == LabInv /\ [Lab!Next]_Lab!vars => LabInv'
<1> SUFFICES ASSUME LabInv, [Lab!Next]_Lab!vars PROVE LabInv'
  OBVIOUS
<1>1. ASSUME NEW p \in Caller, read[p] # Lab!Nothing, UNCHANGED patched
      PROVE  /\ read[p] \in [Box -> Trial] /\ Grown(patched, patched')
             /\ \A e \in Box : Lab!Earned(read[p][e], patched'[e])
  BY <1>1, SamePatched, HonestStays DEF LabInv
<1>2. CASE UNCHANGED Lab!vars
  BY <1>2 DEF Lab!vars, LabInv, Honest
<1>3. ASSUME NEW p \in Caller, Lab!Read(p) PROVE LabInv'
  BY <1>3, ReadKeeps
<1>4. ASSUME NEW p \in Caller, Lab!CreateOther(p) PROVE LabInv'
  BY <1>1, <1>4, PutKeeps DEF Lab!CreateOther
<1>5. ASSUME NEW p \in Caller, NEW e \in Box, Lab!AddEvidence(p, e) PROVE LabInv'
  BY <1>1, <1>5, WriteKeeps, EvidenceEarned DEF Lab!AddEvidence, Lab!Reading
<1>6. ASSUME NEW p \in Caller, NEW e \in Box, NEW f \in Box, Lab!Rename(p, e, f) PROVE LabInv'
  BY <1>6, RenameKeeps
<1>7. ASSUME NEW p \in Caller, NEW e \in Box, Lab!ValidateCausalChain(p, e) PROVE LabInv'
  BY <1>1, <1>7, WriteKeeps, JudgedEarned DEF Lab!ValidateCausalChain, Lab!Reading
<1>8. ASSUME NEW p \in Caller, NEW e \in Box, NEW unexplained \in BOOLEAN, Lab!CreateExperiment(p, e, unexplained)
      PROVE  LabInv'
  <2> DEFINE new == [read[p][e] EXCEPT !.state = "HYPOTHESIS", !.evidence = FALSE, !.unexplained = unexplained]
  <2>1. Lab!Write(p, e, new) /\ read[p] # Lab!Nothing /\ UNCHANGED patched
    BY <1>8 DEF Lab!CreateExperiment
  <2>2. read[p][e] \in Trial
    BY <1>1, <2>1
  <2>3. new \in Trial /\ new.state = "HYPOTHESIS"
    BY <2>2 DEF Trial, Lab!Knowledge
  <2> HIDE DEF new
  <2>4. Lab!Earned(new, patched'[e])
    BY <2>3 DEF Lab!Earned
  <2> QED BY <1>1, <2>1, <2>3, <2>4, WriteKeeps
<1>9. ASSUME NEW p \in Caller, NEW e \in Box, NEW field \in Lab!Patchable, NEW value \in Lab!Values(field),
             Lab!UpdateExperiment(p, e, field, value)
      PROVE  LabInv'
  BY <1>9, UpdateKeeps
<1>10. ASSUME NEW p \in Caller, NEW e \in Box, NEW kind \in Lab!Kind, NEW accepted \in BOOLEAN,
              Lab!RunExperiment(p, e, kind, accepted)
       PROVE  LabInv'
  BY <1>1, <1>10, WriteKeeps, RunEarned DEF Lab!RunExperiment
<1> QED BY <1>2, <1>3, <1>4, <1>5, <1>6, <1>7, <1>8, <1>9, <1>10 DEF Lab!Next

----------------------------------------------------------------------------
(* Providers.  As long as calls do not overlap, what a call has read is what  *)
(* the store holds, a binding that is still to be made is of an enabled       *)
(* provider, and one that is to be disabled has lost its bindings.            *)

Word == Remote!Lifecycle \cup {"none", "HEALTHY", "UNHEALTHY"}
Service == [life : Word, enabled : BOOLEAN, bound : BOOLEAN]
Services == [Provider -> Service]
Todo == {<<"enable", "state">>, <<"deactivate", "disable", "state">>, <<"state">>, <<"heartbeat">>, <<"bind">>}
Rest == Todo \cup {<<>>, <<"disable", "state">>}

RemoteTyped ==
    /\ fabric \in Services
    /\ overlapped \in BOOLEAN
    /\ request \in [Caller -> [id : Provider \cup {"none"}, todo : Rest, to : Word, read : Services \cup {Remote!Nothing}]]
    /\ \A p \in Caller : request[p].todo # <<>> => request[p].id \in Provider

Enabled == \A i \in Provider : fabric[i].bound => fabric[i].enabled
Alone == \A p, q \in Caller : request[p].todo # <<>> /\ request[q].todo # <<>> => p = q
Stage(p) ==
    /\ request[p].read # Remote!Nothing => request[p].read = fabric
    /\ request[p].todo = <<"disable", "state">> => ~fabric[request[p].id].bound
    /\ request[p].todo = <<"bind">> => fabric[request[p].id].enabled
    /\ request[p].todo = <<>> => request[p].read = Remote!Nothing

RemoteInv == RemoteTyped /\ (overlapped \/ (Enabled /\ Alone /\ \A p \in Caller : Stage(p)))

LEMMA RemoteStarts == Remote!Init => RemoteInv
<1> SUFFICES ASSUME Remote!Init PROVE RemoteInv
  OBVIOUS
<1>1. RemoteTyped
  BY DEF Remote!Init, Remote!Idle, Remote!Nothing, RemoteTyped, Services, Service, Rest, Todo, Word, Remote!Lifecycle
<1>2. Enabled /\ Alone /\ \A p \in Caller : Stage(p)
  BY DEF Remote!Init, Remote!Idle, Remote!Nothing, Enabled, Alone, Stage
<1> QED BY <1>1, <1>2 DEF RemoteInv

\* What is left of a list of accesses when its first is made.
LEMMA Lists ==
    /\ Tail(<<"enable", "state">>) = <<"state">> /\ Head(<<"enable", "state">>) = "enable"
    /\ Tail(<<"deactivate", "disable", "state">>) = <<"disable", "state">> /\ Head(<<"deactivate", "disable", "state">>) = "deactivate"
    /\ Tail(<<"disable", "state">>) = <<"state">> /\ Head(<<"disable", "state">>) = "disable"
    /\ Tail(<<"state">>) = <<>> /\ Head(<<"state">>) = "state"
    /\ Tail(<<"heartbeat">>) = <<>> /\ Head(<<"heartbeat">>) = "heartbeat"
    /\ Tail(<<"bind">>) = <<>> /\ Head(<<"bind">>) = "bind"
OBVIOUS

LEMMA Differ ==
    /\ <<>> # <<"bind">> /\ <<>> # <<"disable", "state">> /\ <<"state">> # <<"bind">>
    /\ <<"disable", "state">> # <<"bind">> /\ <<"state">> # <<"disable", "state">>
<1>1. /\ Len(<<>>) = 0 /\ Len(<<"bind">>) = 1 /\ Len(<<"disable", "state">>) = 2 /\ Len(<<"state">>) = 1
      /\ <<"state">>[1] = "state" /\ <<"bind">>[1] = "bind"
  OBVIOUS
<1> QED BY <1>1

\* A call that begins.
LEMMA RemoteBegins ==
    ASSUME RemoteInv, NEW p \in Caller, NEW i \in Provider, NEW todo \in Todo, NEW to \in Word,
           Remote!Begin(p, i, todo, to), todo = <<"bind">> => fabric[i].enabled
    PROVE  RemoteInv'
<1> DEFINE new == [Remote!Idle EXCEPT !.id = i, !.todo = todo, !.to = to]
<1>1. /\ request[p] = Remote!Idle /\ request' = [request EXCEPT ![p] = new] /\ fabric' = fabric
      /\ overlapped' = (overlapped \/ \E q \in Caller : request[q] # Remote!Idle)
  BY DEF Remote!Begin
<1>2. new.id = i /\ new.todo = todo /\ new.to = to /\ new.read = Remote!Nothing
  BY DEF Remote!Idle
<1>3. new \in [id : Provider \cup {"none"}, todo : Rest, to : Word, read : Services \cup {Remote!Nothing}]
  BY DEF Remote!Idle, Rest, Word
<1>4. RemoteTyped
  BY DEF RemoteInv
<1> HIDE DEF new
<1>5. /\ request' \in [Caller -> [id : Provider \cup {"none"}, todo : Rest, to : Word, read : Services \cup {Remote!Nothing}]]
      /\ request'[p] = new /\ \A q \in Caller \ {p} : request'[q] = request[q]
  BY <1>1, <1>3, <1>4 DEF RemoteTyped
<1>6. RemoteTyped'
  <2>1. overlapped' \in BOOLEAN
    BY <1>1, <1>4 DEF RemoteTyped
  <2>2. ASSUME NEW q \in Caller, request'[q].todo # <<>> PROVE request'[q].id \in Provider
    BY <1>2, <1>4, <1>5, <2>2 DEF RemoteTyped
  <2> QED BY <1>1, <1>4, <1>5, <2>1, <2>2 DEF RemoteTyped
<1>7. ASSUME ~overlapped' PROVE Enabled' /\ Alone' /\ \A q \in Caller : Stage(q)'
  <2>1. ~overlapped /\ \A q \in Caller : request[q] = Remote!Idle
    BY <1>1, <1>7
  <2>2. \A q \in Caller \ {p} : request'[q].todo = <<>> /\ request'[q].read = Remote!Nothing
    BY <1>5, <2>1 DEF Remote!Idle
  <2>3. Enabled'
    BY <1>1, <2>1 DEF RemoteInv, Enabled
  <2>4. Alone'
    BY <2>2 DEF Alone
  <2>5. Stage(p)'
    BY <1>1, <1>2, <1>5 DEF Stage, Todo
  <2>6. \A q \in Caller \ {p} : Stage(q)'
    BY <2>2, Differ DEF Stage
  <2> QED BY <2>3, <2>4, <2>5, <2>6
<1> QED BY <1>6, <1>7 DEF RemoteInv

\* An access that is made: one goes from the list, and the next is begun anew.
LEMMA RemoteMade ==
    ASSUME RemoteTyped, NEW p \in Caller, Remote!Left(p), Remote!Done(p)
    PROVE  /\ request'[p].todo = Tail(request[p].todo) /\ request'[p].read = Remote!Nothing
           /\ request'[p].todo # <<>> => request'[p].id = request[p].id
           /\ \A q \in Caller \ {p} : request'[q] = request[q]
           /\ request' \in [Caller -> [id : Provider \cup {"none"}, todo : Rest, to : Word, read : Services \cup {Remote!Nothing}]]
           /\ \A q \in Caller : request'[q].todo # <<>> => request'[q].id \in Provider
<1> DEFINE new == IF Tail(request[p].todo) = <<>> THEN Remote!Idle
                  ELSE [request[p] EXCEPT !.todo = Tail(request[p].todo), !.read = Remote!Nothing]
           Q == [id : Provider \cup {"none"}, todo : Rest, to : Word, read : Services \cup {Remote!Nothing}]
<1>1. request' = [request EXCEPT ![p] = new] /\ request \in [Caller -> Q] /\ request[p] \in Q
  BY DEF Remote!Done, RemoteTyped
<1>2. Tail(request[p].todo) \in Rest
  BY <1>1, Lists DEF Rest, Todo, Remote!Left
<1>3. new \in Q /\ new.todo = Tail(request[p].todo) /\ new.read = Remote!Nothing /\ (new.todo # <<>> => new.id = request[p].id)
  <2>1. CASE Tail(request[p].todo) = <<>>
    BY <2>1 DEF Remote!Idle, Rest, Word
  <2>2. CASE Tail(request[p].todo) # <<>>
    BY <1>1, <1>2, <2>2
  <2> QED BY <2>1, <2>2
<1> HIDE DEF new
<1>4. request' \in [Caller -> Q] /\ request'[p] = new /\ \A q \in Caller \ {p} : request'[q] = request[q]
  BY <1>1, <1>3
<1>5. request[p].id \in Provider
  BY DEF RemoteTyped, Remote!Left
<1>6. \A q \in Caller : request'[q].todo # <<>> => request'[q].id \in Provider
  BY <1>3, <1>4, <1>5 DEF RemoteTyped
<1> QED BY <1>3, <1>4, <1>6

\* Such an access keeps the invariant when it keeps it for its provider.
LEMMA RemoteAccess ==
    ASSUME RemoteInv, NEW p \in Caller, Remote!Left(p), Remote!Done(p), overlapped' = overlapped,
           fabric' \in Services,
           ~overlapped => /\ \A i \in Provider : fabric'[i].bound => fabric'[i].enabled
                          /\ Remote!Step(p) = "deactivate" => ~fabric'[request[p].id].bound
    PROVE  RemoteInv'
<1>1. /\ request'[p].todo = Tail(request[p].todo) /\ request'[p].read = Remote!Nothing
      /\ request'[p].todo # <<>> => request'[p].id = request[p].id
      /\ \A q \in Caller \ {p} : request'[q] = request[q]
      /\ request' \in [Caller -> [id : Provider \cup {"none"}, todo : Rest, to : Word, read : Services \cup {Remote!Nothing}]]
      /\ \A q \in Caller : request'[q].todo # <<>> => request'[q].id \in Provider
  BY RemoteMade DEF RemoteInv
<1>2. RemoteTyped'
  BY <1>1 DEF RemoteInv, RemoteTyped
<1>3. ASSUME ~overlapped PROVE Enabled' /\ Alone' /\ \A q \in Caller : Stage(q)'
  <2>1. \A q \in Caller \ {p} : request[q].todo = <<>> /\ Stage(q)
    BY <1>3 DEF RemoteInv, Alone, Remote!Left
  <2>2. \A q \in Caller \ {p} : request'[q].todo = <<>> /\ request'[q].read = Remote!Nothing
    BY <1>1, <2>1 DEF Stage
  <2>3. Alone'
    BY <2>2 DEF Alone
  <2>4. \A q \in Caller \ {p} : Stage(q)'
    BY <2>2, Differ DEF Stage
  <2>5. request[p].todo \in Rest
    BY DEF RemoteInv, RemoteTyped
  <2>6. request'[p].todo # <<"bind">>
    BY <1>1, <2>5, Lists, Differ DEF Rest, Todo, Remote!Left
  <2>7. request'[p].todo = <<"disable", "state">> => Remote!Step(p) = "deactivate"
    BY <1>1, <2>5, Lists, Differ DEF Rest, Todo, Remote!Left, Remote!Step
  <2>8. Stage(p)'
    BY <1>1, <1>3, <2>6, <2>7 DEF Stage
  <2>9. Enabled'
    BY <1>3 DEF Enabled
  <2> QED BY <2>3, <2>4, <2>8, <2>9
<1> QED BY <1>2, <1>3 DEF RemoteInv

LEMMA RemoteUpdates ==
    ASSUME RemoteInv, NEW p \in Caller, Remote!Update(p)
    PROVE  RemoteInv'
<1> DEFINE i == request[p].id
<1>1. Remote!Left(p) /\ Remote!Done(p) /\ overlapped' = overlapped /\ RemoteTyped /\ Remote!Step(p) \in {"deactivate", "bind"}
      /\ fabric' = [fabric EXCEPT ![i].bound = Remote!Step(p) = "bind"]
  BY DEF Remote!Update, RemoteInv
<1>2. i \in Provider /\ fabric \in Services /\ request[p].todo \in Rest
  BY <1>1 DEF RemoteTyped, Remote!Left
<1> HIDE DEF i
<1>3. fabric' \in Services /\ (\A j \in Provider \ {i} : fabric'[j] = fabric[j])
      /\ fabric'[i].enabled = fabric[i].enabled /\ fabric'[i].bound = (Remote!Step(p) = "bind")
  BY <1>1, <1>2 DEF Services, Service
<1>4. Remote!Step(p) = "bind" => request[p].todo = <<"bind">>
  BY <1>1, <1>2, Lists DEF Rest, Todo, Remote!Left, Remote!Step
<1>5. ASSUME ~overlapped
      PROVE  (\A j \in Provider : fabric'[j].bound => fabric'[j].enabled) /\ (Remote!Step(p) = "deactivate" => ~fabric'[i].bound)
  <2>1. Enabled /\ Stage(p)
    BY <1>5 DEF RemoteInv
  <2> QED BY <1>2, <1>3, <1>4, <2>1 DEF Enabled, Stage, i
<1> QED BY <1>1, <1>3, <1>5, RemoteAccess DEF i

\* What mutate() makes of a record of a provider.
LEMMA RemoteChanges ==
    ASSUME NEW service \in Service, NEW step \in {"enable", "disable", "state", "heartbeat"}, NEW to \in Word
    PROVE  LET new == Remote!Changed(service, step, to)
           IN  /\ new \in Service /\ new.bound = service.bound
               /\ step = "enable" => new.enabled
               /\ step \in {"state", "heartbeat"} => new.enabled = service.enabled
<1>1. service.life \in Word
  BY DEF Service
<1>2. Remote!Healed(service.life, to) \in Word
  BY <1>1 DEF Remote!Healed, Word, Remote!Lifecycle
<1>3. CASE step = "enable"
  BY <1>3 DEF Remote!Changed, Service
<1>4. CASE step = "disable"
  BY <1>4 DEF Remote!Changed, Service
<1>5. CASE step = "state"
  BY <1>5 DEF Remote!Changed, Service
<1>6. CASE step = "heartbeat"
  BY <1>2, <1>6 DEF Remote!Changed, Service
<1> QED BY <1>3, <1>4, <1>5, <1>6

LEMMA RemoteWrites ==
    ASSUME RemoteInv, NEW p \in Caller, Remote!MutateWrite(p)
    PROVE  RemoteInv'
<1> DEFINE i == request[p].id
           old == request[p].read
           new == Remote!Changed(old[i], Remote!Step(p), request[p].to)
<1>1. /\ Remote!Left(p) /\ Remote!Done(p) /\ overlapped' = overlapped /\ RemoteTyped
      /\ Remote!Step(p) \notin {"deactivate", "bind"} /\ old # Remote!Nothing
      /\ fabric' = [old EXCEPT ![i] = new]
  BY DEF Remote!MutateWrite, Remote!Mutates, RemoteInv
<1>2. i \in Provider /\ old \in Services /\ request[p].todo \in Rest /\ request[p].to \in Word
  BY <1>1 DEF RemoteTyped, Remote!Left
<1>3. Remote!Step(p) \in {"enable", "disable", "state", "heartbeat"}
  BY <1>1, <1>2, Lists DEF Rest, Todo, Remote!Left, Remote!Step
<1>4. Remote!Step(p) = "disable" => request[p].todo = <<"disable", "state">>
  BY <1>1, <1>2, Lists DEF Rest, Todo, Remote!Left, Remote!Step
<1>5. old[i] \in Service
  BY <1>2 DEF Services
<1>6. /\ new \in Service /\ new.bound = old[i].bound /\ (Remote!Step(p) = "enable" => new.enabled)
      /\ Remote!Step(p) \in {"state", "heartbeat"} => new.enabled = old[i].enabled
  BY <1>2, <1>3, <1>5, RemoteChanges
<1> HIDE DEF new, old, i
<1>7. fabric' \in Services /\ fabric'[i] = new /\ \A j \in Provider \ {i} : fabric'[j] = old[j]
  BY <1>1, <1>2, <1>6 DEF Services
<1>8. ASSUME ~overlapped PROVE \A j \in Provider : fabric'[j].bound => fabric'[j].enabled
  <2>1. Enabled /\ old = fabric /\ (request[p].todo = <<"disable", "state">> => ~fabric[i].bound)
    BY <1>1, <1>8 DEF RemoteInv, Stage, old, i
  <2>2. new.bound => new.enabled
    BY <1>2, <1>3, <1>4, <1>6, <2>1 DEF Enabled
  <2> QED BY <1>7, <2>1, <2>2 DEF Enabled
<1> QED BY <1>1, <1>7, <1>8, RemoteAccess

LEMMA RemoteReads ==
    ASSUME RemoteInv, NEW p \in Caller, Remote!MutateRead(p)
    PROVE  RemoteInv'
<1>1. request' = [request EXCEPT ![p].read = fabric] /\ fabric' = fabric /\ overlapped' = overlapped
      /\ Remote!Left(p) /\ RemoteTyped
  BY DEF Remote!MutateRead, Remote!Mutates, RemoteInv
<1>2. /\ request' \in [Caller -> [id : Provider \cup {"none"}, todo : Rest, to : Word, read : Services \cup {Remote!Nothing}]]
      /\ \A q \in Caller : request'[q].todo = request[q].todo /\ request'[q].id = request[q].id
      /\ request'[p].read = fabric /\ \A q \in Caller \ {p} : request'[q].read = request[q].read
  BY <1>1 DEF RemoteTyped
<1>3. RemoteTyped'
  BY <1>1, <1>2 DEF RemoteTyped
<1>4. ASSUME ~overlapped PROVE Enabled' /\ Alone' /\ \A q \in Caller : Stage(q)'
  <2>1. Enabled /\ Alone /\ \A q \in Caller : Stage(q)
    BY <1>4 DEF RemoteInv
  <2>2. Enabled' /\ Alone'
    BY <1>1, <1>2, <2>1 DEF Enabled, Alone
  <2>3. Stage(p)'
    BY <1>1, <1>2, <2>1 DEF Stage, Remote!Left
  <2>4. \A q \in Caller \ {p} : Stage(q)'
    BY <1>1, <1>2, <2>1 DEF Stage
  <2> QED BY <2>2, <2>3, <2>4
<1> QED BY <1>1, <1>3, <1>4 DEF RemoteInv

LEMMA RemoteEnds ==
    ASSUME RemoteInv, NEW p \in Caller, Remote!Crash(p)
    PROVE  RemoteInv'
<1>1. request' = [request EXCEPT ![p] = Remote!Idle] /\ fabric' = fabric /\ overlapped' = overlapped /\ RemoteTyped
  BY DEF Remote!Crash, RemoteInv
<1>2. Remote!Idle \in [id : Provider \cup {"none"}, todo : Rest, to : Word, read : Services \cup {Remote!Nothing}]
      /\ Remote!Idle.todo = <<>> /\ Remote!Idle.read = Remote!Nothing
  BY DEF Remote!Idle, Rest, Word
<1>3. /\ request' \in [Caller -> [id : Provider \cup {"none"}, todo : Rest, to : Word, read : Services \cup {Remote!Nothing}]]
      /\ request'[p] = Remote!Idle /\ \A q \in Caller \ {p} : request'[q] = request[q]
  BY <1>1, <1>2 DEF RemoteTyped
<1>4. RemoteTyped'
  BY <1>1, <1>2, <1>3 DEF RemoteTyped
<1>5. ASSUME ~overlapped PROVE Enabled' /\ Alone' /\ \A q \in Caller : Stage(q)'
  <2>1. Enabled /\ Alone /\ \A q \in Caller : Stage(q)
    BY <1>5 DEF RemoteInv
  <2>2. Enabled' /\ Alone'
    BY <1>1, <1>2, <1>3, <2>1 DEF Enabled, Alone
  <2>3. Stage(p)'
    BY <1>2, <1>3 DEF Stage
  <2>4. \A q \in Caller \ {p} : Stage(q)'
    BY <1>1, <1>3, <2>1 DEF Stage
  <2> QED BY <2>2, <2>3, <2>4
<1> QED BY <1>1, <1>4, <1>5 DEF RemoteInv

LEMMA RemoteKeeps == RemoteInv /\ [Remote!Next]_Remote!vars => RemoteInv'
<1> SUFFICES ASSUME RemoteInv, [Remote!Next]_Remote!vars PROVE RemoteInv'
  OBVIOUS
<1>1. CASE UNCHANGED Remote!vars
  BY <1>1 DEF Remote!vars, RemoteInv, RemoteTyped, Enabled, Alone, Stage
<1>2. ASSUME NEW p \in Caller, Remote!Update(p) \/ Remote!MutateRead(p) \/ Remote!MutateWrite(p) \/ Remote!Crash(p) PROVE RemoteInv'
  BY <1>2, RemoteUpdates, RemoteReads, RemoteWrites, RemoteEnds
<1>3. ASSUME NEW p \in Caller, NEW i \in Provider, Remote!Connect(p, i) PROVE RemoteInv'
  BY <1>3, RemoteBegins, Lists DEF Remote!Connect, Word, Remote!Lifecycle, Todo
<1>4. ASSUME NEW p \in Caller, NEW i \in Provider, Remote!Bind(p, i) PROVE RemoteInv'
  BY <1>4, RemoteBegins, Lists DEF Remote!Bind, Word, Remote!Lifecycle, Todo
<1>5. ASSUME NEW p \in Caller, NEW i \in Provider, NEW to \in {"DISCONNECTED", "REVOKED"}, Remote!Withdraw(p, i, to) PROVE RemoteInv'
  BY <1>5, RemoteBegins, Lists DEF Remote!Withdraw, Word, Remote!Lifecycle, Remote!Withdrawal, Todo
<1>6. ASSUME NEW p \in Caller, NEW i \in Provider, NEW to \in Remote!Lifecycle, Remote!SetState(p, i, to) PROVE RemoteInv'
  <2>1. to \in Word
    BY DEF Word
  <2> QED BY <1>6, <2>1, RemoteBegins DEF Remote!SetState, Todo
<1>7. ASSUME NEW p \in Caller, NEW i \in Provider, NEW to \in {"HEALTHY", "DEGRADED", "UNHEALTHY"}, Remote!Heartbeat(p, i, to) PROVE RemoteInv'
  BY <1>7, RemoteBegins, Lists DEF Remote!Heartbeat, Word, Remote!Lifecycle, Todo
<1> QED BY <1>1, <1>2, <1>3, <1>4, <1>5, <1>6, <1>7 DEF Remote!Next

----------------------------------------------------------------------------
(* The parts in one system: each moves by its own steps only.                 *)

AllInv == SandboxInv /\ FleetInv /\ ControlInv /\ LabInv /\ RemoteInv

LEMMA LabStarts == Lab!Init => LabInv
<1>1. {<<"BASELINE", TRUE>>, <<"CONTROL", TRUE>>} \in SUBSET (Lab!Kind \X BOOLEAN)
  <2>1. {"BASELINE", "CONTROL"} \subseteq Lab!Kind
    BY DEF Lab!Kind
  <2>2. \A kind \in Lab!Kind, accepted \in BOOLEAN : <<kind, accepted>> \in Lab!Kind \X BOOLEAN
    OBVIOUS
  <2>3. {<<"BASELINE", TRUE>>, <<"CONTROL", TRUE>>} \subseteq Lab!Kind \X BOOLEAN
    BY <2>1, <2>2, Zenon
  <2> QED BY <2>3
<1>2. Lab!Tried \in Trial /\ Lab!Tried.state = "SUPPORTED"
  BY <1>1 DEF Lab!Tried, Trial, Lab!Knowledge
<1>3. \A fields : Lab!Earned(Lab!Tried, fields)
  BY <1>2 DEF Lab!Earned
<1> QED BY <1>2, <1>3, NewEarned DEF Lab!Init, Lab!Before, LabInv, Honest, Lab!Undeclared

LEMMA AllStart == AnyInit => AllInv
BY SandboxStarts, FleetStarts, ControlStarts, LabStarts, RemoteStarts DEF AnyInit, AllInv

LEMMA AllStay ==
    /\ SandboxInv /\ UNCHANGED sandboxVars => SandboxInv'
    /\ FleetInv /\ UNCHANGED deviceVars => FleetInv'
    /\ ControlInv /\ UNCHANGED planeVars => ControlInv'
    /\ LabInv /\ UNCHANGED labVars => LabInv'
    /\ RemoteInv /\ UNCHANGED remoteVars => RemoteInv'
<1>1. SandboxInv /\ UNCHANGED sandboxVars => SandboxInv'
  BY SandboxKeeps DEF sandboxVars, vars
<1>2. FleetInv /\ UNCHANGED deviceVars => FleetInv'
  BY DEF FleetInv, FleetTyped, Stands, deviceVars
<1>3. ControlInv /\ UNCHANGED planeVars => ControlInv'
  BY DEF ControlInv, ControlTyped, Reads, Planned, planeVars
<1>4. LabInv /\ UNCHANGED labVars => LabInv'
  BY DEF LabInv, Honest, labVars
<1>5. RemoteInv /\ UNCHANGED remoteVars => RemoteInv'
  BY DEF RemoteInv, RemoteTyped, Enabled, Alone, Stage, remoteVars
<1> QED BY <1>1, <1>2, <1>3, <1>4, <1>5

LEMMA AllKeep == AllInv /\ [AnyNext]_anyVars => AllInv'
<1> SUFFICES ASSUME AllInv, [AnyNext]_anyVars PROVE AllInv'
  OBVIOUS
<1>1. CASE UNCHANGED anyVars
  BY <1>1, AllStay DEF anyVars, AllInv
<1>2. CASE Next /\ UNCHANGED <<deviceVars, planeVars, labVars, remoteVars>>
  BY <1>2, AllStay, SandboxKeeps DEF AllInv
<1>3. CASE Fleet!Next /\ UNCHANGED <<sandboxVars, planeVars, labVars, remoteVars>>
  BY <1>3, AllStay, FleetKeeps DEF AllInv
<1>4. CASE Control!Next /\ UNCHANGED <<sandboxVars, deviceVars, labVars, remoteVars>>
  BY <1>4, AllStay, ControlKeeps DEF AllInv
<1>5. CASE Lab!Next /\ UNCHANGED <<sandboxVars, deviceVars, planeVars, remoteVars>>
  BY <1>5, AllStay, LabKeeps DEF AllInv
<1>6. CASE Remote!Next /\ UNCHANGED <<sandboxVars, deviceVars, planeVars, labVars>>
  BY <1>6, AllStay, RemoteKeeps DEF AllInv
<1> QED BY <1>1, <1>2, <1>3, <1>4, <1>5, <1>6 DEF AnyNext

LEMMA AllAlways == AnySpec => []AllInv
BY AllStart, AllKeep, PTL DEF AnySpec

----------------------------------------------------------------------------
(* What follows.                                                              *)

\* A sandbox without a record, that no call is under way on, is unknown to the
\* runtime and has neither workspace nor container (fabric.ts, runtime-local.ts,
\* oci-runtime.ts), for any sandboxes, callers, runtimes and bounds: unless
\* calls on it overlapped, docker failed one or the end of the process cut one
\* off.
THEOREM NothingStaysBehind == AnySpec => []NothingLeftBehind
<1>1. AllInv => NothingLeftBehind
  BY RestingLeavesNothing DEF AllInv
<1> QED BY <1>1, AllAlways, PTL

\* A device never works for two tasks, whatever is decided about it while it
\* works, for any processes, devices and tasks (devices.ts:26-40): as long as
\* no process writes over another's change.
THEOREM HoldersAloneInFleet == AnySpec => []OneHolder
<1>1. ASSUME AllInv, NEW d \in Fleet!Device, ~lost PROVE Cardinality(holders[d]) <= 1
  <2>1. Stands(d)
    BY <1>1 DEF AllInv, FleetInv
  <2>2. CASE holders[d] = {}
    BY <2>2, FS_EmptySet
  <2>3. CASE \E t \in Box : holders[d] = {t}
    <3>1. PICK t \in Box : holders[d] = {t}
      BY <2>3
    <3>2. Cardinality({t}) = 1
      BY FS_Singleton
    <3> QED BY <3>1, <3>2
  <2> QED BY <2>1, <2>2, <2>3 DEF Stands, Settled
<1>2. AllInv => OneHolder
  BY <1>1 DEF OneHolder, Fleet!OneHolder, Fleet!Cardinality, Cardinality
<1> QED BY <1>2, AllAlways, PTL

\* Under the same condition the store says of a device what the Creator
\* decided last: neither reports nor heartbeats, allocations, releases or
\* restarts change that (devices.ts:14-28).
THEOREM DecisionsStandInFleet == AnySpec => []Fleet!DecisionsKept
<1>1. AllInv => Fleet!DecisionsKept
  BY DEF AllInv, FleetInv, Stands, Settled, Fleet!DecisionsKept
<1> QED BY <1>1, AllAlways, PTL

\* An experiment is established only with what earns it (science.ts:14-17),
\* however many processes write whole payloads over each other, but for the
\* fields that a request patched of it although updateExperiment declares no
\* patch of them (science.ts:188-194): its evidence, its id.
THEOREM EarnedInFleet == AnySpec => []EarnedUnlessPatched
<1>1. AllInv => EarnedUnlessPatched
  BY DEF AllInv, LabInv, Honest, EarnedUnlessPatched, Lab!EarnedUnlessPatched
<1> QED BY <1>1, AllAlways, PTL

\* The guardian asks once at a time and never for a CRITICAL task
\* (control-plane.ts:624), in the store and in the copy of every process,
\* whoever wrote over whom and whatever write failed.
THEOREM AskedOnceInFleet == AnySpec => []AskedOnce
<1>1. AllInv => AskedOnce
  BY DEF AllInv, ControlInv, Fine, Asked, AskedOnce, Control!AskedOnce, Control!States
<1> QED BY <1>1, AllAlways, PTL

\* The tasks of a plan exist and belong to its objective (plans.ts:53-55), for
\* any number of processes, as long as none wrote over another's change and no
\* write threw.
THEOREM PlansHoldInFleet == AnySpec => []PlansHold
<1>1. AllInv => PlansHold
  BY DEF AllInv, ControlInv, Planned, PlansHold, Control!PlansHold
<1> QED BY <1>1, AllAlways, PTL

\* A bound provider is enabled (provider-fabric.ts:169-188), wherever a process
\* ends in the middle of a call, for any providers and processes, unless the
\* calls of two processes overlapped.
THEOREM BoundStaysEnabled == AnySpec => []BoundIsEnabled
<1>1. AllInv => BoundIsEnabled
  BY DEF AllInv, RemoteInv, Enabled, BoundIsEnabled, Remote!BoundIsEnabled
<1> QED BY <1>1, AllAlways, PTL
=============================================================================
