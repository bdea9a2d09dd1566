---------------------------- MODULE Access_proofs ----------------------------
(***************************************************************************)
(* Proofs about Access, for any number of processes, any lockout threshold *)
(* and window and any sequence of handlers, crashes and overlaps:          *)
(*   - a session that was logged out or renewed resolves no more, and the  *)
(*     guard lets no request in after revokeRoot;                          *)
(*   - an initialized system has a secret the Creator can log in with;     *)
(*   - failed attempts are bounded by the lock, and a code of the second   *)
(*     factor is accepted once.                                            *)
(*                                                                         *)
(* A kind of handler that is not blurred has never run twice at a time and *)
(* was never cut off, so that at most one process has such a handler in    *)
(* hand (OneAtATime); what it read when it began is then still true when   *)
(* it writes, which the other invariants state for each of the stores.     *)
(***************************************************************************)
EXTENDS Access, FiniteSetTheorems, TLAPS

Try == [n : Nat, at : Nat]

\* The accesses a handler of each kind has.
Kinds == {"root", "secret", "login", "sessions"}
Stages(kind) ==
    CASE kind = "root" -> {"setRoot", "edge", "mark", "record", "revoke", "file", "hash", "session"}
      [] kind = "secret" -> {"file", "hash"}
      [] kind = "login" -> {"verdict", "session"}
      [] kind = "sessions" -> {"touch", "session", "forget"}

Handler ==
    [at : {"idle", "setRoot", "edge", "mark", "record", "revoke", "file", "hash", "verdict", "session", "touch", "forget"},
     kind : Kinds \cup {"none"}, then : {"none", "edge", "record", "revoke"}, root : Nat, secret : Nat,
     attempt : Nat, good : BOOLEAN, step : Step, seen : SUBSET Try, session : Session \cup {0},
     use : {"none", "serve", "renew", "logout"}]

Shaped(h) ==
    \/ h = Idle
    \/ /\ h.kind \in Kinds /\ h.at \in Stages(h.kind)
       /\ h.at = "setRoot" => h.then # "none"
       /\ h.kind = "sessions" => h.session \in Session /\ h.use # "none"

TypeOK ==
    /\ env.login \in BOOLEAN
    /\ now \in Nat
    /\ boot \in [init : BOOLEAN, root : Nat, revoked : BOOLEAN]
    /\ root \in Nat /\ delegated \in BOOLEAN
    /\ creator \in [file : Nat, hash : Nat]
    /\ failures \in SUBSET Try /\ IsFiniteSet(failures)
    /\ lockedUntil \in Nat /\ used \in SUBSET Step
    /\ sessions \in [Session -> {"none", "live", "dropped", "revoked", "over"}]
    /\ op \in [Process -> Handler] /\ \A p \in Process : Shaped(op[p]) /\ IsFiniteSet(op[p].seen)
    /\ made \in [roots : Nat, secrets : Nat, sessions : Nat, logins : Nat, crashes : Nat]
    /\ closed \in BOOLEAN /\ gone \in SUBSET Session
    /\ guesses \in SUBSET Try /\ IsFiniteSet(guesses)
    /\ accepted \in [Step -> Nat]
    /\ blurred \in SUBSET (Kinds \cup {"none"})

\* A kind that is not blurred is in the hands of one process.
OneAtATime ==
    \A kind \in Kinds \ blurred : \A p, q \in Process : op[p].kind = kind /\ op[q].kind = kind => p = q

\* bootstrap.ts: a handler that completes the bootstrap is on its way to Mark.
Completing(h) == h.kind = "root" /\ (h.at \in {"edge", "mark"} \/ (h.at = "setRoot" /\ h.then = "edge"))

\* A session that is gone is not live, and no handler that is under way would
\* write it back.
SessionsInv ==
    /\ \A s \in Session : sessions[s] # "none" => s <= made.sessions
    /\ \A s \in gone : s <= made.sessions
    /\ \A p \in Process : op[p].kind = "sessions" => op[p].session <= made.sessions
    /\ "sessions" \notin blurred =>
          /\ \A s \in gone : sessions[s] # "live"
          /\ \A p \in Process : op[p].kind = "sessions" => op[p].session \notin gone

\* The revocation stays, and no bootstrap that is under way would take it back.
RevokedInv ==
    "root" \notin blurred =>
        /\ closed => boot.revoked
        /\ \A p \in Process : Completing(op[p]) => ~closed

Writing(h) == h.at \in {"file", "hash"}

SecretInv ==
    /\ ~boot.init => creator.hash = 0
    /\ \A p \in Process : op[p].kind = "root" /\ Writing(op[p]) => boot.init
    /\ \A p \in Process : op[p].kind = "secret" => creator.hash # 0
    /\ \A p \in Process : op[p].at = "hash" => op[p].secret # 0
    /\ "root" \notin blurred =>
          /\ \A p \in Process : op[p].kind = "root" /\ (Completing(op[p]) \/ Writing(op[p])) => creator.hash = 0
    /\ {"root", "secret"} \cap blurred = {} =>
          /\ \A p \in Process : op[p].at = "hash" => env.login \/ creator.file = op[p].secret
          /\ boot.init /\ (\A p \in Process : ~Writing(op[p])) => Right

Caught == Cardinality(Pruned(guesses))

GuessInv ==
    /\ \A a \in guesses : a.at <= now
    /\ "login" \notin blurred =>
          /\ Pruned(guesses) \subseteq failures
          /\ Caught < Threshold \/ \A a \in guesses : a.at + Period <= lockedUntil
          /\ Caught <= Threshold
          /\ \A p \in Process : op[p].at = "verdict" => Pruned(guesses) \subseteq op[p].seen /\ Caught < Threshold

CodeInv ==
    "login" \notin blurred =>
          /\ \A s \in Step : accepted[s] <= 1
          /\ \A s \in Step : accepted[s] # 0 => s <= now + 1 /\ (s \in used \/ s + KeepSteps < now)
          /\ \A p \in Process : op[p].at = "verdict" /\ op[p].good => CodeOk(op[p].step)

IInv == TypeOK /\ OneAtATime /\ SessionsInv /\ RevokedInv /\ SecretInv /\ GuessInv /\ CodeInv

----------------------------------------------------------------------------
(* Types.                                                                  *)

LEMMA IdleTyped == Idle \in Handler /\ Shaped(Idle) /\ IsFiniteSet(Idle.seen)
BY AccessAssumption, FS_EmptySet DEF Idle, Handler, Shaped, Step

\* A process takes the handler h, and the others keep theirs.
LEMMA OpTyped ==
    ASSUME TypeOK, NEW p \in Process, NEW h \in Handler, Shaped(h), IsFiniteSet(h.seen), op' = [op EXCEPT ![p] = h]
    PROVE  /\ op' \in [Process -> Handler]
           /\ \A q \in Process : Shaped(op'[q]) /\ IsFiniteSet(op'[q].seen)
BY DEF TypeOK

LEMMA BegunTyped ==
    ASSUME TypeOK, NEW p \in Process, NEW h \in Handler, Shaped(h), IsFiniteSet(h.seen), Begin(p, h)
    PROVE  /\ op' \in [Process -> Handler]
           /\ \A q \in Process : Shaped(op'[q]) /\ IsFiniteSet(op'[q].seen)
           /\ blurred' \in SUBSET (Kinds \cup {"none"})
<1>1. op' = [op EXCEPT ![p] = h]
  BY DEF Begin
<1>2. blurred' \in SUBSET (Kinds \cup {"none"})
  BY DEF Begin, TypeOK, Handler
<1> QED BY <1>1, <1>2, OpTyped

LEMMA ReturnTyped ==
    ASSUME TypeOK, NEW p \in Process, Return(p)
    PROVE  /\ op' \in [Process -> Handler]
           /\ \A q \in Process : Shaped(op'[q]) /\ IsFiniteSet(op'[q].seen)
BY IdleTyped, OpTyped DEF Return

LEMMA GotoTyped ==
    ASSUME TypeOK, NEW p \in Process, NEW at \in Stages(op[p].kind), at # "setRoot", op[p].kind \in Kinds, Goto(p, at)
    PROVE  /\ op' \in [Process -> Handler]
           /\ \A q \in Process : Shaped(op'[q]) /\ IsFiniteSet(op'[q].seen)
<1> DEFINE h == [op[p] EXCEPT !.at = at]
<1>1. op' = [op EXCEPT ![p] = h]
  BY DEF Goto
<1>2. op[p] \in Handler /\ Shaped(op[p]) /\ IsFiniteSet(op[p].seen)
  BY DEF TypeOK
<1>3. h \in Handler /\ Shaped(h) /\ h.seen = op[p].seen
  BY <1>2 DEF Handler, Shaped, Stages, Kinds, Idle
<1> HIDE DEF h
<1> QED BY <1>1, <1>2, <1>3, OpTyped

\* The handlers that begin.
Starts(p) ==
    \/ Complete(p) \/ RotateRoot(p) \/ RevokeRoot(p) \/ RotateSecret(p) \/ LoginRead(p)
    \/ \E s \in Session, use \in {"serve", "renew", "logout"} : Resolve(p, s, use)

Fresh(h) == h \in Handler /\ h.kind \in Kinds /\ h.at \in Stages(h.kind) /\ Shaped(h) /\ IsFiniteSet(h.seen)

LEMMA Begins ==
    ASSUME TypeOK, NEW p \in Process, Starts(p)
    PROVE  \E h : Begin(p, h) /\ Fresh(h)
<1>1. /\ Idle \in Handler /\ made.roots + 1 \in Nat /\ made.logins + 1 \in Nat
      /\ failures \in SUBSET Try /\ IsFiniteSet(failures)
  BY IdleTyped DEF TypeOK
<1>2. 0 \in Step
  BY AccessAssumption DEF Step
<1>3. ASSUME Complete(p) PROVE \E h : Begin(p, h) /\ Fresh(h)
  <2> DEFINE h == [Idle EXCEPT !.kind = "root", !.at = "setRoot", !.then = "edge", !.root = made.roots + 1]
  <2>1. h \in Handler
    BY <1>1 DEF Handler, Kinds
  <2>2. h.kind = "root" /\ h.at = "setRoot" /\ h.seen = {} /\ h.then # "none"
    BY DEF Idle
  <2>3. Begin(p, h)
    BY <1>3 DEF Complete
  <2> HIDE DEF h
  <2> QED BY <2>1, <2>2, <2>3, FS_EmptySet DEF Fresh, Shaped, Kinds, Stages
<1>4. ASSUME RotateRoot(p) PROVE \E h : Begin(p, h) /\ Fresh(h)
  <2> DEFINE h == [Idle EXCEPT !.kind = "root", !.at = "setRoot", !.then = "record", !.root = made.roots + 1]
  <2>1. h \in Handler
    BY <1>1 DEF Handler, Kinds
  <2>2. h.kind = "root" /\ h.at = "setRoot" /\ h.seen = {} /\ h.then # "none"
    BY DEF Idle
  <2>3. Begin(p, h)
    BY <1>4 DEF RotateRoot
  <2> HIDE DEF h
  <2> QED BY <2>1, <2>2, <2>3, FS_EmptySet DEF Fresh, Shaped, Kinds, Stages
<1>5. ASSUME RevokeRoot(p) PROVE \E h : Begin(p, h) /\ Fresh(h)
  <2> DEFINE h == [Idle EXCEPT !.kind = "root", !.at = "setRoot", !.then = "revoke"]
  <2>1. h \in Handler
    BY <1>1 DEF Handler, Kinds
  <2>2. h.kind = "root" /\ h.at = "setRoot" /\ h.seen = {} /\ h.then # "none"
    BY DEF Idle
  <2>3. Begin(p, h)
    BY <1>5 DEF RevokeRoot
  <2> HIDE DEF h
  <2> QED BY <2>1, <2>2, <2>3, FS_EmptySet DEF Fresh, Shaped, Kinds, Stages
<1>6. ASSUME RotateSecret(p) PROVE \E h : Begin(p, h) /\ Fresh(h)
  <2> DEFINE h == [Idle EXCEPT !.kind = "secret", !.at = "file"]
  <2>1. h \in Handler
    BY <1>1 DEF Handler, Kinds
  <2>2. h.kind = "secret" /\ h.at = "file" /\ h.seen = {} /\ h.kind = "secret"
    BY DEF Idle
  <2>3. Begin(p, h)
    BY <1>6 DEF RotateSecret
  <2> HIDE DEF h
  <2> QED BY <2>1, <2>2, <2>3, FS_EmptySet DEF Fresh, Shaped, Kinds, Stages
<1>7. ASSUME NEW s \in Session, NEW use \in {"serve", "renew", "logout"}, Resolve(p, s, use) PROVE \E h : Begin(p, h) /\ Fresh(h)
  <2> DEFINE h == [Idle EXCEPT !.kind = "sessions", !.at = "touch", !.session = s, !.use = use]
  <2>1. h \in Handler
    BY <1>1 DEF Handler, Kinds
  <2>2. h.kind = "sessions" /\ h.at = "touch" /\ h.seen = {} /\ h.session = s /\ h.use = use
    BY DEF Idle
  <2>3. Begin(p, h)
    BY <1>7 DEF Resolve
  <2> HIDE DEF h
  <2> QED BY <2>1, <2>2, <2>3, FS_EmptySet DEF Fresh, Shaped, Kinds, Stages
<1>8. ASSUME LoginRead(p) PROVE \E h : Begin(p, h) /\ Fresh(h)
  <2>1. PICK knows \in BOOLEAN, step \in (IF Totp THEN {s \in Step : Near(s, 2)} ELSE {0}) :
          Begin(p, [Idle EXCEPT !.kind = "login", !.at = "verdict", !.attempt = made.logins + 1,
                                !.good = knows /\ Right /\ CodeOk(step), !.step = step, !.seen = failures])
    BY <1>8 DEF LoginRead
  <2> DEFINE good == knows /\ Right /\ CodeOk(step)
             h == [Idle EXCEPT !.kind = "login", !.at = "verdict", !.attempt = made.logins + 1,
                               !.good = good, !.step = step, !.seen = failures]
  <2>2. good \in BOOLEAN /\ step \in Step /\ Begin(p, h)
    BY <1>2, <2>1
  <2> HIDE DEF good
  <2>3. h \in Handler
    BY <1>1, <2>2 DEF Handler, Kinds
  <2>4. h.kind = "login" /\ h.at = "verdict" /\ h.seen = failures
    BY DEF Idle
  <2> HIDE DEF h
  <2> QED BY <1>1, <2>2, <2>3, <2>4 DEF Fresh, Shaped, Kinds, Stages
<1> QED BY <1>3, <1>4, <1>5, <1>6, <1>7, <1>8 DEF Starts

\* What a handler that begins leaves alone.
LEMMA StartsLeave ==
    ASSUME TypeOK, NEW p \in Process, Starts(p)
    PROVE  /\ UNCHANGED <<env, now, boot, root, delegated, creator, failures, lockedUntil, used, sessions, closed,
                          gone, guesses, accepted>>
           /\ made' \in [roots : Nat, secrets : Nat, sessions : Nat, logins : Nat, crashes : Nat]
           /\ made'.sessions = made.sessions
<1>1. made \in [roots : Nat, secrets : Nat, sessions : Nat, logins : Nat, crashes : Nat]
  BY DEF TypeOK
<1>2. CASE Complete(p)
  BY <1>1, <1>2 DEF Complete, bootstrap, login
<1>3. CASE RotateRoot(p)
  BY <1>1, <1>3 DEF RotateRoot, bootstrap, login
<1>4. CASE RevokeRoot(p) \/ RotateSecret(p)
  BY <1>1, <1>4 DEF RevokeRoot, RotateSecret, bootstrap, login
<1>5. CASE LoginRead(p)
  BY <1>1, <1>5 DEF LoginRead, bootstrap, login
<1>6. ASSUME NEW s \in Session, NEW use \in {"serve", "renew", "logout"}, Resolve(p, s, use)
      PROVE  made' = made /\ UNCHANGED <<env, now, boot, root, delegated, creator, failures, lockedUntil, used,
                                         sessions, closed, gone, guesses, accepted>>
  BY <1>6 DEF Resolve, bootstrap, login
<1> QED BY <1>1, <1>2, <1>3, <1>4, <1>5, <1>6 DEF Starts

\* Which handlers an access belongs to.
LEMMA Staged ==
    ASSUME TypeOK, NEW p \in Process
    PROVE  /\ op[p] \in Handler
           /\ op[p].at \in {"setRoot", "edge", "mark", "record", "revoke"} => op[p].kind = "root"
           /\ op[p].at \in {"file", "hash"} => op[p].kind \in {"root", "secret"}
           /\ op[p].at = "verdict" => op[p].kind = "login"
           /\ op[p].at \in {"touch", "forget"} => op[p].kind = "sessions"
           /\ op[p].at = "session" => op[p].kind \in {"root", "login", "sessions"}
           /\ op[p].at = "setRoot" => op[p].then \in {"edge", "record", "revoke"}
           /\ op[p].kind = "sessions" => op[p].session \in Session /\ op[p].use \in {"serve", "renew", "logout"}
<1>1. op[p] \in Handler /\ Shaped(op[p])
  BY DEF TypeOK
<1>2. CASE op[p] = Idle
  BY <1>1, <1>2 DEF Idle
<1>3. CASE op[p] # Idle
  BY <1>1, <1>3 DEF Shaped, Handler, Kinds, Stages
<1> QED BY <1>2, <1>3

LEMMA Touches ==
    ASSUME TypeOK, NEW p \in Process, Touch(p)
    PROVE  \/ op[p].use = "serve" /\ Return(p)
           \/ op[p].use = "renew" /\ Goto(p, "session")
           \/ op[p].use = "logout" /\ Goto(p, "forget")
<1>1. op[p].use \in {"serve", "renew", "logout"}
  BY Staged DEF Touch, At
<1>2. CASE op[p].use = "serve"
  BY <1>2 DEF Touch
<1>3. CASE op[p].use = "renew"
  BY <1>3 DEF Touch
<1>4. CASE op[p].use = "logout"
  BY <1>4 DEF Touch
<1> QED BY <1>1, <1>2, <1>3, <1>4

LEMMA TypeSound ==
    ASSUME TypeOK, [Next]_vars
    PROVE  TypeOK'
<1> USE AccessAssumption
<1>1. CASE UNCHANGED vars
  BY <1>1 DEF vars, bootstrap, login, history, TypeOK
<1>2. ASSUME NEW p \in Process, Starts(p) PROVE TypeOK'
  <2>1. PICK h : Begin(p, h) /\ Fresh(h)
    BY <1>2, Begins
  <2>2. /\ op' \in [Process -> Handler] /\ \A q \in Process : Shaped(op'[q]) /\ IsFiniteSet(op'[q].seen)
        /\ blurred' \in SUBSET (Kinds \cup {"none"})
    BY <2>1, BegunTyped DEF Fresh
  <2> QED BY <1>2, <2>2, StartsLeave DEF TypeOK
<1>3. ASSUME NEW p \in Process, SetRoot(p) PROVE TypeOK'
  <2>1. op[p] \in Handler /\ Shaped(op[p])
    BY DEF TypeOK
  <2>2. op[p].then \in Stages(op[p].kind) /\ op[p].then # "setRoot" /\ op[p].kind \in Kinds /\ Goto(p, op[p].then)
    BY <1>3, <2>1 DEF SetRoot, At, Shaped, Handler, Stages, Kinds, Idle
  <2>3. op' \in [Process -> Handler] /\ \A q \in Process : Shaped(op'[q]) /\ IsFiniteSet(op'[q].seen)
    BY <2>2, GotoTyped
  <2> QED BY <1>3, <2>1, <2>3, FS_EmptySet DEF SetRoot, TypeOK, bootstrap, login, history, Handler
<1>4. ASSUME NEW p \in Process, SetEdge(p) PROVE TypeOK'
  <2>1. op[p] \in Handler /\ Shaped(op[p])
    BY DEF TypeOK
  <2>2. "mark" \in Stages(op[p].kind) /\ "mark" # "setRoot" /\ op[p].kind \in Kinds /\ Goto(p, "mark")
    BY <1>4, <2>1 DEF SetEdge, At, Shaped, Handler, Stages, Kinds, Idle
  <2>3. op' \in [Process -> Handler] /\ \A q \in Process : Shaped(op'[q]) /\ IsFiniteSet(op'[q].seen)
    BY <2>2, GotoTyped
  <2> QED BY <1>4, <2>1, <2>3, FS_EmptySet DEF SetEdge, TypeOK, bootstrap, login, history, Handler
<1>5. ASSUME NEW p \in Process, Mark(p) PROVE TypeOK'
  <2>1. op[p] \in Handler /\ Shaped(op[p])
    BY DEF TypeOK
  <2>2. "file" \in Stages(op[p].kind) /\ "file" # "setRoot" /\ op[p].kind \in Kinds /\ Goto(p, "file")
    BY <1>5, <2>1 DEF Mark, At, Shaped, Handler, Stages, Kinds, Idle
  <2>3. op' \in [Process -> Handler] /\ \A q \in Process : Shaped(op'[q]) /\ IsFiniteSet(op'[q].seen)
    BY <2>2, GotoTyped
  <2> QED BY <1>5, <2>1, <2>3, FS_EmptySet DEF Mark, TypeOK, bootstrap, login, history, Handler
<1>6. ASSUME NEW p \in Process, LoginWrite(p) PROVE TypeOK'
  <2>1. op[p] \in Handler /\ Shaped(op[p])
    BY DEF TypeOK
  <2>2. "session" \in Stages(op[p].kind) /\ "session" # "setRoot" /\ op[p].kind \in Kinds /\ Goto(p, "session")
    BY <1>6, <2>1 DEF LoginWrite, At, Shaped, Handler, Stages, Kinds, Idle
  <2>3. op' \in [Process -> Handler] /\ \A q \in Process : Shaped(op'[q]) /\ IsFiniteSet(op'[q].seen)
    BY <2>2, GotoTyped
  <2> QED BY <1>6, <2>1, <2>3, FS_EmptySet DEF LoginWrite, TypeOK, bootstrap, login, history, Handler
<1>7. ASSUME NEW p \in Process, RecordRoot(p) PROVE TypeOK'
  <2>1. op[p] \in Handler /\ Shaped(op[p])
    BY DEF TypeOK
  <2>2. op' \in [Process -> Handler] /\ \A q \in Process : Shaped(op'[q]) /\ IsFiniteSet(op'[q].seen)
    BY <1>7, ReturnTyped DEF RecordRoot
  <2> QED BY <1>7, <2>1, <2>2 DEF RecordRoot, TypeOK, bootstrap, login, history, Handler
<1>8. ASSUME NEW p \in Process, RecordRevocation(p) PROVE TypeOK'
  <2>1. op[p] \in Handler /\ Shaped(op[p])
    BY DEF TypeOK
  <2>2. op' \in [Process -> Handler] /\ \A q \in Process : Shaped(op'[q]) /\ IsFiniteSet(op'[q].seen)
    BY <1>8, ReturnTyped DEF RecordRevocation
  <2> QED BY <1>8, <2>1, <2>2 DEF RecordRevocation, TypeOK, bootstrap, login, history, Handler
<1>9. ASSUME NEW p \in Process, Crash(p) PROVE TypeOK'
  <2>1. op[p] \in Handler /\ Shaped(op[p])
    BY DEF TypeOK
  <2>2. op' \in [Process -> Handler] /\ \A q \in Process : Shaped(op'[q]) /\ IsFiniteSet(op'[q].seen)
    BY <1>9, ReturnTyped DEF Crash
  <2> QED BY <1>9, <2>1, <2>2 DEF Crash, TypeOK, bootstrap, login, history, Handler, Kinds
<1>10. ASSUME NEW p \in Process, Forget(p) PROVE TypeOK'
  <2>1. op[p] \in Handler /\ Shaped(op[p])
    BY DEF TypeOK
  <2>2. op' \in [Process -> Handler] /\ \A q \in Process : Shaped(op'[q]) /\ IsFiniteSet(op'[q].seen)
    BY <1>10, ReturnTyped DEF Forget
  <2>3. op[p].session \in Session
    BY <1>10, <2>1 DEF Forget, At, Shaped, Handler, Stages, Kinds, Idle
  <2> QED BY <1>10, <2>1, <2>2, <2>3 DEF Forget, TypeOK, bootstrap, login, history, Handler
<1>11. ASSUME NEW p \in Process, LoginRefuse(p) PROVE TypeOK'
  <2>1. op[p] \in Handler /\ Shaped(op[p])
    BY DEF TypeOK
  <2>2. op' \in [Process -> Handler] /\ \A q \in Process : Shaped(op'[q]) /\ IsFiniteSet(op'[q].seen)
    BY <1>11, ReturnTyped DEF LoginRefuse
  <2>3. Attempt(p) \in Try
    BY <2>1 DEF Attempt, Try, Handler, TypeOK
  <2>4. failures' \in SUBSET Try /\ guesses' \in SUBSET Try
    BY <1>11, <2>1, <2>3 DEF LoginRefuse, Pruned, Handler, TypeOK
  <2>5. IsFiniteSet(failures') /\ IsFiniteSet(guesses')
    <3>1. IsFiniteSet(op[p].seen) /\ IsFiniteSet(guesses)
      BY DEF TypeOK
    <3>2. IsFiniteSet(Pruned(op[p].seen))
      BY <3>1, FS_Subset DEF Pruned
    <3> QED BY <1>11, <3>1, <3>2, FS_AddElement DEF LoginRefuse
  <2>6. lockedUntil' \in Nat
    BY <1>11 DEF LoginRefuse, TypeOK
  <2> QED BY <1>11, <2>1, <2>2, <2>4, <2>5, <2>6 DEF LoginRefuse, TypeOK, bootstrap, login, history, Handler
<1>12. ASSUME NEW p \in Process, WriteFile(p) PROVE TypeOK'
  <2> DEFINE h == [op[p] EXCEPT !.at = "hash", !.secret = made.secrets + 1]
  <2>1. op[p] \in Handler /\ Shaped(op[p]) /\ IsFiniteSet(op[p].seen)
    BY DEF TypeOK
  <2>5. op[p].kind \in {"root", "secret"}
    BY <1>12, <2>1 DEF WriteFile, At, Shaped, Stages, Kinds, Idle
  <2>6. h \in Handler /\ h.kind = op[p].kind /\ h.at = "hash" /\ h.seen = op[p].seen
    <3>1. made.secrets + 1 \in Nat
      BY DEF TypeOK
    <3> QED BY <2>1, <3>1 DEF Handler
  <2>2. h \in Handler /\ Shaped(h) /\ h.seen = op[p].seen
    BY <2>5, <2>6 DEF Shaped, Stages, Kinds
  <2>3. op' = [op EXCEPT ![p] = h]
    BY <1>12 DEF WriteFile, TypeOK
  <2> HIDE DEF h
  <2>4. op' \in [Process -> Handler] /\ \A q \in Process : Shaped(op'[q]) /\ IsFiniteSet(op'[q].seen)
    BY <2>1, <2>2, <2>3, OpTyped
  <2> QED BY <1>12, <2>1, <2>4 DEF WriteFile, TypeOK, bootstrap, login, history, Handler
<1>13. ASSUME NEW p \in Process, WriteHash(p) PROVE TypeOK'
  <2>1. op[p] \in Handler /\ Shaped(op[p])
    BY DEF TypeOK
  <2>2. ASSUME op[p].kind = "root" PROVE op' \in [Process -> Handler] /\ \A q \in Process : Shaped(op'[q]) /\ IsFiniteSet(op'[q].seen)
    <3>1. "session" \in Stages(op[p].kind) /\ op[p].kind \in Kinds /\ Goto(p, "session")
      BY <1>13, <2>1, <2>2 DEF WriteHash, At, Shaped, Handler, Stages, Kinds, Idle
    <3>2. op' \in [Process -> Handler] /\ \A q \in Process : Shaped(op'[q]) /\ IsFiniteSet(op'[q].seen)
      BY <3>1, GotoTyped
    <3> QED BY <3>2
  <2>3. ASSUME ~(op[p].kind = "root") PROVE op' \in [Process -> Handler] /\ \A q \in Process : Shaped(op'[q]) /\ IsFiniteSet(op'[q].seen)
    <3>1. Return(p)
      BY <1>13, <2>1, <2>3 DEF WriteHash, At, Shaped, Handler, Stages, Kinds, Idle
    <3> QED BY <3>1, ReturnTyped
  <2>4. op' \in [Process -> Handler] /\ \A q \in Process : Shaped(op'[q]) /\ IsFiniteSet(op'[q].seen)
    BY <2>2, <2>3
  <2> QED BY <1>13, <2>1, <2>4, FS_EmptySet DEF WriteHash, TypeOK, bootstrap, login, history, Handler
<1>14. ASSUME NEW p \in Process, CreateSession(p) PROVE TypeOK'
  <2>1. op[p] \in Handler /\ Shaped(op[p])
    BY DEF TypeOK
  <2>2. ASSUME op[p].kind = "sessions" PROVE op' \in [Process -> Handler] /\ \A q \in Process : Shaped(op'[q]) /\ IsFiniteSet(op'[q].seen)
    <3>1. "forget" \in Stages(op[p].kind) /\ op[p].kind \in Kinds /\ Goto(p, "forget")
      BY <1>14, <2>1, <2>2 DEF CreateSession, At, Shaped, Handler, Stages, Kinds, Idle
    <3>2. op' \in [Process -> Handler] /\ \A q \in Process : Shaped(op'[q]) /\ IsFiniteSet(op'[q].seen)
      BY <3>1, GotoTyped
    <3> QED BY <3>2
  <2>3. ASSUME ~(op[p].kind = "sessions") PROVE op' \in [Process -> Handler] /\ \A q \in Process : Shaped(op'[q]) /\ IsFiniteSet(op'[q].seen)
    <3>1. Return(p)
      BY <1>14, <2>1, <2>3 DEF CreateSession, At, Shaped, Handler, Stages, Kinds, Idle
    <3> QED BY <3>1, ReturnTyped
  <2>4. op' \in [Process -> Handler] /\ \A q \in Process : Shaped(op'[q]) /\ IsFiniteSet(op'[q].seen)
    BY <2>2, <2>3
  <2>5. sessions' \in [Session -> {"none", "live", "dropped", "revoked", "over"}] /\ made' \in [roots : Nat, secrets : Nat, sessions : Nat, logins : Nat, crashes : Nat]
    BY <1>14 DEF CreateSession, TypeOK
  <2> QED BY <1>14, <2>1, <2>4, <2>5, FS_EmptySet DEF CreateSession, TypeOK, bootstrap, login, history, Handler
<1>15. ASSUME NEW p \in Process, Touch(p) PROVE TypeOK'
  <2>1. op[p].kind = "sessions" /\ op[p].session \in Session
    BY <1>15, Staged DEF Touch, At
  <2>2. op' \in [Process -> Handler] /\ \A q \in Process : Shaped(op'[q]) /\ IsFiniteSet(op'[q].seen)
    <3>1. \/ Return(p)
          \/ Goto(p, "session") /\ "session" \in Stages(op[p].kind) /\ op[p].kind \in Kinds
          \/ Goto(p, "forget") /\ "forget" \in Stages(op[p].kind) /\ op[p].kind \in Kinds
      BY <1>15, <2>1, Touches DEF Stages, Kinds
    <3> QED BY <3>1, ReturnTyped, GotoTyped
  <2> QED BY <1>15, <2>1, <2>2 DEF Touch, TypeOK, bootstrap, login, history
<1>16. ASSUME NEW s \in Session, Expire(s) PROVE TypeOK'
  BY <1>16 DEF Expire, TypeOK, bootstrap, login, history
<1>17. CASE Tick
  BY <1>17 DEF Tick, TypeOK, bootstrap, login, history
<1> QED BY <1>1, <1>2, <1>3, <1>4, <1>5, <1>6, <1>7, <1>8, <1>9, <1>10, <1>11, <1>12, <1>13, <1>14, <1>15, <1>16, <1>17 DEF Next, Starts

----------------------------------------------------------------------------
(* A kind that is not blurred is in the hands of one process.              *)

LEMMA BegunOne ==
    ASSUME TypeOK, OneAtATime, NEW p \in Process, NEW h \in Handler, h.kind \in Kinds, Begin(p, h)
    PROVE  OneAtATime'
<1>1. op[p].kind = "none" /\ op' = [op EXCEPT ![p] = h] /\ blurred \subseteq blurred'
  BY DEF Begin, Idle
<1>2. SUFFICES ASSUME NEW kind \in Kinds, kind \notin blurred', NEW q \in Process, NEW r \in Process,
                      op'[q].kind = kind, op'[r].kind = kind
               PROVE  q = r
  BY DEF OneAtATime
<1>3. CASE h.kind = kind
  <2>1. Others(p, kind) = {}
    BY <1>2, <1>3 DEF Begin, TypeOK
  <2>2. \A s \in Process : s # p => op[s].kind # kind
    BY <1>2, <2>1 DEF Others, Idle, Kinds
  <2> QED BY <1>1, <1>2, <2>2 DEF TypeOK
<1>4. CASE h.kind # kind
  BY <1>1, <1>2, <1>4 DEF OneAtATime, TypeOK
<1> QED BY <1>3, <1>4

\* No other step gives a handler a kind, or makes a kind less blurred.
Keeping == blurred \subseteq blurred' /\ \A p \in Process : op'[p].kind \in {op[p].kind, "none"}

LEMMA KeptOne ==
    ASSUME OneAtATime, Keeping
    PROVE  OneAtATime'
BY DEF OneAtATime, Keeping, Kinds

LEMMA OneSound ==
    ASSUME TypeOK, OneAtATime, [Next]_vars
    PROVE  OneAtATime'
<1>1. CASE UNCHANGED vars \/ Tick \/ \E s \in Session : Expire(s)
  BY <1>1 DEF vars, history, Tick, Expire, OneAtATime
<1>2. ASSUME NEW p \in Process,
             Starts(p)
      PROVE  OneAtATime'
  BY <1>2, Begins, BegunOne DEF Fresh
<1>3. ASSUME NEW p \in Process,
             \/ SetRoot(p) \/ SetEdge(p) \/ Mark(p) \/ RecordRoot(p) \/ RecordRevocation(p)
             \/ WriteFile(p) \/ WriteHash(p) \/ LoginWrite(p) \/ LoginRefuse(p) \/ CreateSession(p)
             \/ Touch(p) \/ Forget(p) \/ Crash(p)
      PROVE  OneAtATime'
  <2> SUFFICES Keeping
    BY KeptOne
  <2>0. op \in [Process -> Handler] /\ op[p] \in Handler /\ Shaped(op[p])
    BY DEF TypeOK
  <2>1. CASE SetRoot(p)
    BY <2>0, <2>1 DEF SetRoot, Goto, Return, Idle, history, Keeping, Handler
  <2>2. CASE SetEdge(p)
    BY <2>0, <2>2 DEF SetEdge, Goto, Return, Idle, history, Keeping, Handler
  <2>3. CASE Mark(p)
    BY <2>0, <2>3 DEF Mark, Goto, Return, Idle, history, Keeping, Handler
  <2>4. CASE RecordRoot(p)
    BY <2>0, <2>4 DEF RecordRoot, Goto, Return, Idle, history, Keeping, Handler
  <2>5. CASE RecordRevocation(p)
    BY <2>0, <2>5 DEF RecordRevocation, Goto, Return, Idle, history, Keeping, Handler
  <2>6. CASE WriteFile(p)
    BY <2>0, <2>6 DEF WriteFile, Goto, Return, Idle, history, Keeping, Handler
  <2>7. CASE WriteHash(p)
    BY <2>0, <2>7 DEF WriteHash, Goto, Return, Idle, history, Keeping, Handler
  <2>8. CASE LoginWrite(p)
    BY <2>0, <2>8 DEF LoginWrite, Goto, Return, Idle, history, Keeping, Handler
  <2>9. CASE LoginRefuse(p)
    BY <2>0, <2>9 DEF LoginRefuse, Goto, Return, Idle, history, Keeping, Handler
  <2>10. CASE CreateSession(p)
    BY <2>0, <2>10 DEF CreateSession, Goto, Return, Idle, history, Keeping, Handler
  <2>11. CASE Forget(p)
    BY <2>0, <2>11 DEF Forget, Goto, Return, Idle, history, Keeping, Handler
  <2>12. CASE Crash(p)
    BY <2>0, <2>12 DEF Crash, Goto, Return, Idle, history, Keeping, Handler
  <2>13. CASE Touch(p)
    <3>1. blurred' = blurred
      BY <2>13 DEF Touch, history
    <3>2. Return(p) \/ Goto(p, "session") \/ Goto(p, "forget")
      BY <2>13, Touches
    <3> QED BY <2>0, <3>1, <3>2 DEF Goto, Return, Idle, Keeping, Handler
  <2> QED BY <1>3, <2>1, <2>2, <2>3, <2>4, <2>5, <2>6, <2>7, <2>8, <2>9, <2>10, <2>11, <2>12, <2>13
<1> QED BY <1>1, <1>2, <1>3 DEF Next, Starts

----------------------------------------------------------------------------
(* What the steps do to the handlers.                                      *)

\* Only p's handler changes, and nothing becomes less blurred.
Only(p) ==
    /\ op' \in [Process -> Handler] /\ op[p] \in Handler /\ blurred \subseteq blurred'
    /\ \A q \in Process \ {p} : op'[q] = op[q]

\* What is true of a handler that begins.
LEMMA Started ==
    ASSUME TypeOK, TypeOK', NEW p \in Process, Starts(p)
    PROVE  /\ op[p] = Idle /\ Only(p)
           /\ \/ /\ op'[p].kind = "root" /\ op'[p].at = "setRoot" /\ op'[p].then = "edge"
                 /\ ~boot.init /\ ~boot.revoked
              \/ op'[p].kind = "root" /\ op'[p].at = "setRoot" /\ op'[p].then # "edge" /\ boot.init
              \/ op'[p].kind = "secret" /\ op'[p].at = "file" /\ creator.hash # 0
              \/ /\ op'[p].kind = "login" /\ op'[p].at = "verdict" /\ op'[p].seen = failures
                 /\ lockedUntil <= now /\ op'[p].step \in Step /\ (op'[p].good => CodeOk(op'[p].step))
              \/ /\ op'[p].kind = "sessions" /\ op'[p].at = "touch" /\ op'[p].session \in Session
                 /\ sessions[op'[p].session] = "live" /\ (op'[p].use = "serve" => ~boot.revoked)
<1>1. op \in [Process -> Handler] /\ op' \in [Process -> Handler] /\ op[p] \in Handler
  BY DEF TypeOK
<1>2. ASSUME NEW h, Begin(p, h)
      PROVE  op[p] = Idle /\ op'[p] = h /\ Only(p)
  BY <1>1, <1>2 DEF Begin, Only
<1>3. ASSUME Complete(p)
      PROVE  /\ op[p] = Idle /\ Only(p) /\ op'[p].kind = "root" /\ op'[p].at = "setRoot"
             /\ op'[p].then = "edge" /\ ~boot.init /\ ~boot.revoked
  <2> DEFINE h == [Idle EXCEPT !.kind = "root", !.at = "setRoot", !.then = "edge", !.root = made.roots + 1]
  <2>1. h.kind = "root" /\ h.at = "setRoot" /\ h.then = "edge"
    BY DEF Idle
  <2>2. Begin(p, h)
    BY <1>3 DEF Complete
  <2> HIDE DEF h
  <2>3. op[p] = Idle /\ op'[p] = h /\ Only(p)
    BY <2>2, <1>2
  <2> QED BY <1>3, <2>1, <2>3 DEF Complete
<1>4. ASSUME RotateRoot(p)
      PROVE  /\ op[p] = Idle /\ Only(p) /\ op'[p].kind = "root" /\ op'[p].at = "setRoot"
             /\ op'[p].then # "edge" /\ boot.init
  <2> DEFINE h == [Idle EXCEPT !.kind = "root", !.at = "setRoot", !.then = "record", !.root = made.roots + 1]
  <2>1. h.kind = "root" /\ h.at = "setRoot" /\ h.then # "edge"
    BY DEF Idle
  <2>2. Begin(p, h)
    BY <1>4 DEF RotateRoot
  <2> HIDE DEF h
  <2>3. op[p] = Idle /\ op'[p] = h /\ Only(p)
    BY <2>2, <1>2
  <2> QED BY <1>4, <2>1, <2>3 DEF RotateRoot
<1>5. ASSUME RevokeRoot(p)
      PROVE  /\ op[p] = Idle /\ Only(p) /\ op'[p].kind = "root" /\ op'[p].at = "setRoot"
             /\ op'[p].then # "edge" /\ boot.init
  <2> DEFINE h == [Idle EXCEPT !.kind = "root", !.at = "setRoot", !.then = "revoke"]
  <2>1. h.kind = "root" /\ h.at = "setRoot" /\ h.then # "edge"
    BY DEF Idle
  <2>2. Begin(p, h)
    BY <1>5 DEF RevokeRoot
  <2> HIDE DEF h
  <2>3. op[p] = Idle /\ op'[p] = h /\ Only(p)
    BY <2>2, <1>2
  <2> QED BY <1>5, <2>1, <2>3 DEF RevokeRoot
<1>6. ASSUME RotateSecret(p)
      PROVE  /\ op[p] = Idle /\ Only(p) /\ op'[p].kind = "secret" /\ op'[p].at = "file"
             /\ creator.hash # 0
  <2> DEFINE h == [Idle EXCEPT !.kind = "secret", !.at = "file"]
  <2>1. h.kind = "secret" /\ h.at = "file"
    BY DEF Idle
  <2>2. Begin(p, h)
    BY <1>6 DEF RotateSecret
  <2> HIDE DEF h
  <2>3. op[p] = Idle /\ op'[p] = h /\ Only(p)
    BY <2>2, <1>2
  <2> QED BY <1>6, <2>1, <2>3 DEF RotateSecret
<1>7. ASSUME NEW s \in Session, NEW use \in {"serve", "renew", "logout"}, Resolve(p, s, use)
      PROVE  /\ op[p] = Idle /\ Only(p) /\ op'[p].kind = "sessions" /\ op'[p].at = "touch"
             /\ op'[p].session = s /\ sessions[s] = "live" /\ (op'[p].use = "serve" => ~boot.revoked)
  <2> DEFINE h == [Idle EXCEPT !.kind = "sessions", !.at = "touch", !.session = s, !.use = use]
  <2>1. h.kind = "sessions" /\ h.at = "touch" /\ h.session = s /\ h.use = use
    BY DEF Idle
  <2>2. Begin(p, h)
    BY <1>7 DEF Resolve
  <2> HIDE DEF h
  <2>3. op[p] = Idle /\ op'[p] = h /\ Only(p)
    BY <2>2, <1>2
  <2> QED BY <1>7, <2>1, <2>3 DEF Resolve, Resolvable, Open
<1>8. ASSUME LoginRead(p)
      PROVE  /\ op[p] = Idle /\ Only(p) /\ op'[p].kind = "login" /\ op'[p].at = "verdict"
             /\ op'[p].seen = failures /\ lockedUntil <= now /\ (op'[p].good => CodeOk(op'[p].step))
  <2>1. PICK knows \in BOOLEAN, step \in (IF Totp THEN {s \in Step : Near(s, 2)} ELSE {0}) :
          Begin(p, [Idle EXCEPT !.kind = "login", !.at = "verdict", !.attempt = made.logins + 1,
                                !.good = knows /\ Right /\ CodeOk(step), !.step = step, !.seen = failures])
    BY <1>8 DEF LoginRead
  <2> DEFINE good == knows /\ Right /\ CodeOk(step)
             h == [Idle EXCEPT !.kind = "login", !.at = "verdict", !.attempt = made.logins + 1,
                               !.good = good, !.step = step, !.seen = failures]
  <2>2. Begin(p, h) /\ (good => CodeOk(step))
    BY <2>1
  <2> HIDE DEF good
  <2>3. h.kind = "login" /\ h.at = "verdict" /\ h.seen = failures /\ h.good = good /\ h.step = step
    BY DEF Idle
  <2> HIDE DEF h
  <2>4. op[p] = Idle /\ op'[p] = h /\ Only(p)
    BY <2>2, <1>2
  <2>5. lockedUntil <= now
    BY <1>8 DEF LoginRead
  <2> QED BY <2>2, <2>3, <2>4, <2>5
<1>9. op'[p].step \in Step
  BY <1>1 DEF Handler
<1> QED BY <1>3, <1>4, <1>5, <1>6, <1>7, <1>8, <1>9 DEF Starts

\* The other steps of a process.
Works(p) ==
    \/ SetRoot(p) \/ SetEdge(p) \/ Mark(p) \/ RecordRoot(p) \/ RecordRevocation(p) \/ WriteFile(p) \/ WriteHash(p)
    \/ LoginWrite(p) \/ LoginRefuse(p) \/ CreateSession(p) \/ Touch(p) \/ Forget(p) \/ Crash(p)
\* p's handler ends, or goes on with what it has in hand.
Goes(p) ==
    /\ Only(p)
    /\ \/ op'[p] = Idle
       \/ /\ op'[p].kind = op[p].kind /\ op'[p].session = op[p].session /\ op'[p].seen = op[p].seen
          /\ op'[p].good = op[p].good /\ op'[p].step = op[p].step /\ op'[p].then = op[p].then
          /\ op'[p].root = op[p].root /\ op'[p].use = op[p].use

LEMMA Worked ==
    ASSUME TypeOK, TypeOK', NEW p \in Process, Works(p)
    PROVE  Goes(p)
<1>1. op \in [Process -> Handler] /\ op' \in [Process -> Handler] /\ op[p] \in Handler
  BY DEF TypeOK
<1>2. ASSUME NEW at, Goto(p, at) \/ Return(p), blurred \subseteq blurred' PROVE Goes(p)
  <2>1. CASE Goto(p, at)
    BY <1>1, <1>2, <2>1 DEF Goto, Goes, Only, Handler
  <2>2. CASE Return(p)
    BY <1>1, <1>2, <2>2 DEF Return, Goes, Only
  <2> QED BY <1>2, <2>1, <2>2
<1>3. CASE SetRoot(p)
  BY <1>2, <1>3 DEF SetRoot, history
<1>4. CASE SetEdge(p)
  BY <1>2, <1>4 DEF SetEdge, history
<1>5. CASE Mark(p)
  BY <1>2, <1>5 DEF Mark, history
<1>6. CASE RecordRoot(p)
  BY <1>2, <1>6 DEF RecordRoot, history
<1>7. CASE RecordRevocation(p)
  BY <1>2, <1>7 DEF RecordRevocation, history
<1>8. CASE WriteFile(p)
  BY <1>1, <1>8 DEF WriteFile, Goes, Only, Handler, history
<1>9. CASE WriteHash(p)
  BY <1>2, <1>9 DEF WriteHash, history
<1>10. CASE LoginWrite(p)
  BY <1>2, <1>10 DEF LoginWrite, history
<1>11. CASE LoginRefuse(p)
  BY <1>2, <1>11 DEF LoginRefuse, history
<1>12. CASE CreateSession(p)
  BY <1>2, <1>12 DEF CreateSession, history
<1>13. CASE Touch(p)
  <2>1. blurred' = blurred
    BY <1>13 DEF Touch, history
  <2> QED BY <1>2, <1>13, <2>1, Touches
<1>14. CASE Forget(p)
  BY <1>2, <1>14 DEF Forget, history
<1>15. CASE Crash(p)
  BY <1>2, <1>15 DEF Crash, history
<1> QED BY <1>3, <1>4, <1>5, <1>6, <1>7, <1>8, <1>9, <1>10, <1>11, <1>12, <1>13, <1>14, <1>15 DEF Works

----------------------------------------------------------------------------
(* Sessions.                                                               *)

LEMMA SessionsKept ==
    ASSUME SessionsInv, UNCHANGED <<sessions, gone>>, made'.sessions = made.sessions, blurred \subseteq blurred',
           \A p \in Process : op'[p].kind = "sessions" =>
                op[p].kind = "sessions" /\ op'[p].session = op[p].session
    PROVE  SessionsInv'
BY DEF SessionsInv

LEMMA SessionsSound ==
    ASSUME TypeOK, TypeOK', OneAtATime, SessionsInv, [Next]_vars
    PROVE  SessionsInv'
<1> USE AccessAssumption
<1>1. CASE UNCHANGED vars \/ Tick
  BY <1>1, SessionsKept DEF vars, history, Tick
<1>2. ASSUME NEW s \in Session, Expire(s) PROVE SessionsInv'
  <2>1. UNCHANGED <<gone, made, op, blurred>> /\ sessions[s] = "live" /\ sessions' = [sessions EXCEPT ![s] = "over"]
    BY <1>2 DEF Expire, history
  <2>2. sessions \in [Session -> {"none", "live", "dropped", "revoked", "over"}] /\ gone \subseteq Session
    BY DEF TypeOK
  <2> QED BY <2>1, <2>2 DEF SessionsInv
<1>3. ASSUME NEW p \in Process, Starts(p) PROVE SessionsInv'
  <2>1. op[p] = Idle /\ Only(p) /\ UNCHANGED <<sessions, gone>> /\ made'.sessions = made.sessions
    BY <1>3, Started, StartsLeave
  <2>2. op'[p].kind = "sessions" => op'[p].session \in Session /\ sessions[op'[p].session] = "live"
    BY <1>3, Started
  <2>3. op'[p].kind = "sessions" =>
            /\ op'[p].session <= made.sessions
            /\ "sessions" \notin blurred => op'[p].session \notin gone
    BY <2>2 DEF SessionsInv
  <2> QED BY <2>1, <2>3 DEF SessionsInv, Only
<1>4. ASSUME NEW p \in Process, Works(p) PROVE SessionsInv'
  <2>1. Goes(p) /\ Idle.kind # "sessions"
    BY <1>4, Worked DEF Idle
  <2>2. ASSUME NEW q \in Process, op'[q].kind = "sessions"
        PROVE  op[q].kind = "sessions" /\ op'[q].session = op[q].session
    BY <2>1, <2>2 DEF Goes, Only
  <2>3. /\ sessions \in [Session -> {"none", "live", "dropped", "revoked", "over"}] /\ gone \subseteq Session
        /\ made \in [roots : Nat, secrets : Nat, sessions : Nat, logins : Nat, crashes : Nat]
        /\ blurred \subseteq blurred' /\ op[p] \in Handler
    BY <2>1 DEF TypeOK, Goes, Only
  <2>4. CASE \/ SetRoot(p) \/ SetEdge(p) \/ Mark(p) \/ RecordRoot(p) \/ RecordRevocation(p) \/ WriteHash(p)
             \/ LoginWrite(p) \/ LoginRefuse(p)
    <3>1. UNCHANGED <<sessions, gone, made>>
      BY <2>4 DEF SetRoot, SetEdge, Mark, RecordRoot, RecordRevocation, WriteHash, LoginWrite, LoginRefuse, history
    <3> QED BY <2>2, <2>3, <3>1, SessionsKept
  <2>5. CASE WriteFile(p) \/ Crash(p)
    <3>1. UNCHANGED <<sessions, gone>> /\ made'.sessions = made.sessions
      BY <2>3, <2>5 DEF WriteFile, Crash, history
    <3> QED BY <2>2, <2>3, <3>1, SessionsKept
  <2>6. CASE CreateSession(p)
    <3>1. UNCHANGED <<gone, blurred>>
      BY <2>6 DEF CreateSession, history
    <3>2. /\ made'.sessions \in {made.sessions, made.sessions + 1}
          /\ \A s \in Session : \/ sessions'[s] = sessions[s]
                                \/ sessions'[s] = "dropped" /\ sessions[s] # "none"
                                \/ s = made.sessions + 1 /\ s = made'.sessions
      <4>1. CASE made.sessions + 1 \in Session
        <5>1. /\ sessions' = [t \in Session |-> IF t = made.sessions + 1 THEN "live"
                       ELSE IF sessions[t] # "none" /\ t + KeepSessions <= made.sessions + 1 THEN "dropped" ELSE sessions[t]]
              /\ made' = [made EXCEPT !.sessions = made.sessions + 1]
          BY <4>1, <2>6 DEF CreateSession
        <5>2. made'.sessions = made.sessions + 1
          BY <5>1, <2>3
        <5> QED BY <5>1, <5>2
      <4>2. CASE made.sessions + 1 \notin Session
        BY <4>2, <2>6 DEF CreateSession
      <4> QED BY <4>1, <4>2
    <3>3. \A s \in Session : s \in Nat
      BY DEF Session
    <3>4. /\ made.sessions \in Nat /\ made'.sessions \in Nat /\ made.sessions <= made'.sessions
          /\ \A q \in Process : op'[q].kind = "sessions" => op'[q].session \in Nat
      BY <2>3, <3>2, Staged, <2>2, <3>3
    <3>5. \A s \in Session : sessions'[s] # "none" => s <= made'.sessions
      BY <3>2, <3>3, <3>4 DEF SessionsInv
    <3>6. \A s \in gone : s <= made'.sessions
      BY <2>3, <3>3, <3>4 DEF SessionsInv
    <3>7. \A q \in Process : op'[q].kind = "sessions" => op'[q].session <= made'.sessions
      BY <2>2, <3>4 DEF SessionsInv
    <3>8. "sessions" \notin blurred => \A s \in gone : sessions'[s] # "live"
      BY <2>3, <3>2, <3>3, <3>4 DEF SessionsInv
    <3> QED BY <2>2, <3>1, <3>5, <3>6, <3>7, <3>8 DEF SessionsInv
  <2>7. CASE Touch(p)
    <3>1. op[p].kind = "sessions" /\ op[p].session \in Session
      BY <2>7, Staged DEF Touch, At
    <3>2. /\ UNCHANGED <<gone, made, blurred>>
          /\ \A s \in Session : sessions'[s] = sessions[s] \/ s = op[p].session
      BY <2>3, <2>7 DEF Touch, history
    <3> QED BY <2>2, <2>3, <3>1, <3>2 DEF SessionsInv
  <2>8. CASE Forget(p)
    <3>1. op[p].kind = "sessions" /\ op[p].session \in Session
      BY <2>8, Staged DEF Forget, At
    <3>2. /\ UNCHANGED <<made, blurred>> /\ gone' = gone \cup {op[p].session}
          /\ sessions' = [sessions EXCEPT ![op[p].session] = IF @ = "dropped" THEN @ ELSE "revoked"]
      BY <2>8 DEF Forget
    <3>3. op'[p].kind # "sessions"
      BY <2>8, <2>1 DEF Forget, Return, Goes, Only, Idle, TypeOK
    <3>4. ASSUME "sessions" \notin blurred, NEW q \in Process, op'[q].kind = "sessions"
          PROVE  op'[q].session \notin gone'
      <4>1. q # p
        BY <3>3, <3>4
      <4>2. FALSE
        BY <4>1, <3>1, <3>4, <2>2 DEF OneAtATime, Kinds
      <4> QED BY <4>2
    <3>5. \A s \in Session : sessions'[s] # "none" => s <= made'.sessions
      BY <2>3, <3>1, <3>2 DEF SessionsInv
    <3>6. "sessions" \notin blurred => \A s \in gone' : sessions'[s] # "live"
      BY <2>3, <3>1, <3>2 DEF SessionsInv
    <3> QED BY <2>2, <3>1, <3>2, <3>4, <3>5, <3>6 DEF SessionsInv
  <2> QED BY <1>4, <2>4, <2>5, <2>6, <2>7, <2>8 DEF Works
<1> QED BY <1>1, <1>2, <1>3, <1>4 DEF Next, Starts, Works

----------------------------------------------------------------------------
(* The revocation of the root authority.                                   *)

LEMMA RevokedSound ==
    ASSUME TypeOK, TypeOK', OneAtATime, RevokedInv, [Next]_vars
    PROVE  RevokedInv'
<1>1. CASE UNCHANGED vars \/ Tick \/ \E s \in Session : Expire(s)
  BY <1>1 DEF vars, bootstrap, history, Tick, Expire, RevokedInv
<1>2. ASSUME NEW p \in Process, Starts(p) PROVE RevokedInv'
  <2>1. Only(p) /\ UNCHANGED <<closed, boot>>
    BY <1>2, Started, StartsLeave
  <2>2. Completing(op'[p]) => ~boot.revoked
    BY <1>2, Started DEF Completing
  <2> QED BY <2>1, <2>2 DEF RevokedInv, Only
<1>3. ASSUME NEW p \in Process, Works(p) PROVE RevokedInv'
  <2>1. Goes(p) /\ Idle.kind # "root"
    BY <1>3, Worked DEF Idle
  <2>2. \A q \in Process \ {p} : op'[q] = op[q]
    BY <2>1 DEF Goes, Only
  <2>3. blurred \subseteq blurred' /\ op \in [Process -> Handler] /\ op[p] \in Handler
    BY <2>1 DEF Goes, Only, TypeOK
  <2>4. ASSUME UNCHANGED <<closed, boot>>, Completing(op'[p]) => Completing(op[p]) PROVE RevokedInv'
    BY <2>2, <2>3, <2>4 DEF RevokedInv
  <2>5. ASSUME Return(p) PROVE ~Completing(op'[p])
    BY <2>3, <2>5 DEF Return, Completing, Idle
  <2>6. CASE SetRoot(p)
    <3>1. UNCHANGED <<closed, boot>> /\ op'[p].at = op[p].then /\ op'[p].kind = op[p].kind
      BY <2>3, <2>6 DEF SetRoot, Goto, history, Handler
    <3>2. op[p].at = "setRoot" /\ op[p].kind = "root" /\ op[p].then \in {"edge", "record", "revoke"}
      BY <2>6, Staged DEF SetRoot, At
    <3> QED BY <3>1, <3>2, <2>4 DEF Completing
  <2>7. CASE SetEdge(p)
    <3>1. UNCHANGED <<closed, boot>> /\ op[p].at = "edge" /\ op[p].kind = "root"
      BY <2>7, Staged DEF SetEdge, At, history
    <3> QED BY <3>1, <2>4 DEF Completing
  <2>8. CASE Mark(p)
    <3>1. UNCHANGED <<closed, blurred>> /\ op[p].at = "mark" /\ op[p].kind = "root" /\ op'[p].at = "file"
      BY <2>3, <2>8, Staged DEF Mark, At, Goto, history, Handler
    <3>2. ~Completing(op'[p])
      BY <3>1 DEF Completing
    <3>3. "root" \notin blurred => ~closed
      BY <3>1 DEF RevokedInv, Completing
    <3> QED BY <2>2, <3>1, <3>2, <3>3 DEF RevokedInv
  <2>9. CASE RecordRoot(p)
    <3>1. closed' = closed /\ boot'.revoked = boot.revoked /\ Return(p) /\ blurred' = blurred
      BY <2>9 DEF RecordRoot, history, TypeOK
    <3> QED BY <2>2, <2>5, <3>1 DEF RevokedInv
  <2>10. CASE RecordRevocation(p)
    <3>1. boot'.revoked /\ Return(p) /\ blurred' = blurred /\ op[p].kind = "root"
      BY <2>10, Staged DEF RecordRevocation, At, TypeOK
    <3>2. ASSUME "root" \notin blurred, NEW q \in Process, Completing(op'[q]) PROVE FALSE
      <4>1. q # p /\ op[q].kind = "root"
        BY <2>2, <2>5, <3>1, <3>2 DEF Completing
      <4> QED BY <4>1, <3>1, <3>2 DEF OneAtATime, Kinds
    <3> QED BY <3>1, <3>2 DEF RevokedInv
  <2>11. CASE WriteFile(p)
    <3>1. UNCHANGED <<closed, boot>> /\ op'[p].at = "hash"
      BY <2>3, <2>11 DEF WriteFile, bootstrap, history, Handler
    <3> QED BY <3>1, <2>4 DEF Completing
  <2>12. CASE WriteHash(p) \/ LoginWrite(p) \/ LoginRefuse(p) \/ CreateSession(p) \/ Forget(p) \/ Crash(p)
    <3>1. UNCHANGED <<closed, boot>>
      BY <2>12 DEF WriteHash, LoginWrite, LoginRefuse, CreateSession, Forget, Crash, bootstrap, history
    <3>2. Return(p) \/ Goto(p, "session") \/ Goto(p, "forget")
      BY <2>12 DEF WriteHash, LoginWrite, LoginRefuse, CreateSession, Forget, Crash
    <3>3. Goto(p, "session") \/ Goto(p, "forget") => ~Completing(op'[p])
      BY <2>3 DEF Goto, Completing, Handler
    <3> QED BY <3>1, <3>2, <3>3, <2>4, <2>5
  <2>13. CASE Touch(p)
    <3>1. UNCHANGED <<closed, boot>>
      BY <2>13 DEF Touch, bootstrap, history
    <3>2. Return(p) \/ Goto(p, "session") \/ Goto(p, "forget")
      BY <2>13, Touches
    <3>3. Goto(p, "session") \/ Goto(p, "forget") => ~Completing(op'[p])
      BY <2>3 DEF Goto, Completing, Handler
    <3> QED BY <3>1, <3>2, <3>3, <2>4, <2>5
  <2> QED BY <1>3, <2>6, <2>7, <2>8, <2>9, <2>10, <2>11, <2>12, <2>13 DEF Works
<1> QED BY <1>1, <1>2, <1>3 DEF Next, Starts, Works

----------------------------------------------------------------------------
(* The Creator's secret.                                                   *)

\* A step that writes no secret.
LEMMA SecretKept ==
    ASSUME SecretInv, NEW p \in Process, Goes(p), UNCHANGED <<env, creator>>, boot'.init = boot.init,
           ~Writing(op[p]), ~Writing(op'[p]), Completing(op'[p]) => Completing(op[p])
    PROVE  SecretInv'
<1>1. Idle.kind = "none" /\ Idle.at = "idle"
  BY DEF Idle
<1>2. /\ \A q \in Process : Writing(op'[q]) <=> Writing(op[q])
      /\ \A q \in Process : op'[q].kind \in {op[q].kind, "none"}
      /\ \A q \in Process : Writing(op'[q]) => op'[q] = op[q]
      /\ \A q \in Process : Completing(op'[q]) => Completing(op[q])
      /\ blurred \subseteq blurred' /\ (Right' <=> Right)
  BY <1>1 DEF Goes, Only, Right
<1>3. \A q \in Process : op'[q].at = "hash" => op'[q] = op[q]
  BY <1>2 DEF Writing
<1> QED BY <1>2, <1>3 DEF SecretInv

LEMMA SecretSound ==
    ASSUME TypeOK, TypeOK', OneAtATime, SecretInv, [Next]_vars
    PROVE  SecretInv'
<1>1. CASE UNCHANGED vars \/ Tick \/ \E s \in Session : Expire(s)
  BY <1>1 DEF vars, bootstrap, history, Tick, Expire, SecretInv, Right
<1>2. ASSUME NEW p \in Process, Starts(p) PROVE SecretInv'
  <2>1. op[p] = Idle /\ Only(p) /\ UNCHANGED <<env, creator, boot>> /\ Idle.at = "idle"
    BY <1>2, Started, StartsLeave DEF Idle
  <2>2. /\ op'[p].at \in {"setRoot", "file", "verdict", "touch"}
        /\ op'[p].kind = "root" => ~Writing(op'[p])
        /\ op'[p].kind = "secret" => creator.hash # 0
        /\ Completing(op'[p]) => ~boot.init
    BY <1>2, Started DEF Completing, Writing
  <2>3. Right' <=> Right
    BY <2>1 DEF Right
  <2>4. (\A q \in Process : ~Writing(op'[q])) => \A q \in Process : ~Writing(op[q])
    BY <2>1 DEF Only, Writing
  <2> QED BY <2>1, <2>2, <2>3, <2>4 DEF SecretInv, Only
<1>3. ASSUME NEW p \in Process, Works(p) PROVE SecretInv'
  <2>1. Goes(p) /\ Idle.kind = "none" /\ Idle.at = "idle"
    BY <1>3, Worked DEF Idle
  <2>2. /\ \A q \in Process \ {p} : op'[q] = op[q]
        /\ blurred \subseteq blurred' /\ op \in [Process -> Handler] /\ op[p] \in Handler
        /\ boot \in [init : BOOLEAN, root : Nat, revoked : BOOLEAN] /\ creator \in [file : Nat, hash : Nat]
        /\ made.secrets \in Nat
    BY <2>1 DEF Goes, Only, TypeOK
  <2>3. ASSUME NEW at, Goto(p, at) PROVE op'[p] = [op[p] EXCEPT !.at = at] /\ op'[p].at = at /\ op'[p].kind = op[p].kind
    BY <2>2, <2>3 DEF Goto, Handler
  <2>4. ASSUME Return(p) PROVE op'[p] = Idle
    BY <2>2, <2>4 DEF Return
  <2>5. CASE \/ SetRoot(p) \/ SetEdge(p) \/ RecordRoot(p) \/ RecordRevocation(p) \/ LoginWrite(p) \/ LoginRefuse(p)
             \/ CreateSession(p) \/ Touch(p) \/ Forget(p)
    <3>1. UNCHANGED <<env, creator>> /\ boot'.init = boot.init
      BY <2>2, <2>5 DEF SetRoot, SetEdge, RecordRoot, RecordRevocation, LoginWrite, LoginRefuse, CreateSession,
                        Touch, Forget, bootstrap
    <3>2. ~Writing(op[p])
      BY <2>5 DEF SetRoot, SetEdge, RecordRoot, RecordRevocation, LoginWrite, LoginRefuse, CreateSession,
                  Touch, Forget, At, Writing
    <3>3. \/ Return(p)
          \/ op[p].at = "setRoot" /\ Goto(p, op[p].then)
          \/ op[p].at = "edge" /\ Goto(p, "mark")
          \/ Goto(p, "session") \/ Goto(p, "forget")
      BY <2>5, Touches DEF SetRoot, SetEdge, RecordRoot, RecordRevocation, LoginWrite, LoginRefuse,
                           CreateSession, Forget, At
    <3>4. ~Writing(op'[p]) /\ (Completing(op'[p]) => Completing(op[p]))
      <4>1. CASE Return(p)
        BY <4>1, <2>1, <2>4 DEF Writing, Completing
      <4>2. CASE op[p].at = "setRoot" /\ Goto(p, op[p].then)
        <5>1. op[p].then \in {"edge", "record", "revoke"}
          BY <4>2, Staged
        <5> QED BY <4>2, <5>1, <2>3 DEF Writing, Completing
      <4>3. CASE op[p].at = "edge" /\ Goto(p, "mark")
        BY <4>3, <2>3 DEF Writing, Completing
      <4>4. CASE Goto(p, "session") \/ Goto(p, "forget")
        <5>1. op'[p].at \in {"session", "forget"}
          BY <4>4, <2>3
        <5> QED BY <5>1 DEF Writing, Completing
      <4> QED BY <3>3, <4>1, <4>2, <4>3, <4>4
    <3> QED BY <2>1, <3>1, <3>2, <3>4, SecretKept
  <2>6. CASE Crash(p)
    <3>1. UNCHANGED <<env, creator, boot>> /\ op'[p] = Idle
      BY <2>4, <2>6 DEF Crash, bootstrap
    <3>2. Writing(op[p]) => "secret" \in blurred'
      BY <2>6 DEF Crash, Writing
    <3>3. \A q \in Process : op'[q] = op[q] \/ op'[q] = Idle
      BY <2>2, <3>1
    <3>4. Right' <=> Right
      BY <3>1 DEF Right
    <3>5. "secret" \notin blurred' => ((\A q \in Process : ~Writing(op'[q])) => \A q \in Process : ~Writing(op[q]))
      BY <2>2, <3>2
    <3>6. ~Writing(Idle) /\ ~Completing(Idle)
      BY <2>1 DEF Writing, Completing
    <3> QED BY <2>1, <2>2, <3>1, <3>3, <3>4, <3>5, <3>6 DEF SecretInv
  <2>7. CASE Mark(p)
    <3>1. /\ UNCHANGED <<env, creator, blurred>> /\ op[p].at = "mark" /\ op[p].kind = "root"
          /\ op'[p].at = "file" /\ op'[p].kind = "root" /\ boot'.init = TRUE
      BY <2>3, <2>7, Staged DEF Mark, At, history
    <3>2. Completing(op[p]) /\ Writing(op'[p])
      BY <3>1 DEF Completing, Writing
    <3> QED BY <2>2, <3>1, <3>2 DEF SecretInv
  <2>8. CASE WriteFile(p)
    <3>1. /\ UNCHANGED <<env, boot, blurred>> /\ op[p].at = "file" /\ op[p].kind \in {"root", "secret"}
          /\ op'[p].at = "hash" /\ op'[p].kind = op[p].kind /\ op'[p].secret = made.secrets + 1
          /\ creator' = IF env.login THEN creator ELSE [creator EXCEPT !.file = made.secrets + 1]
      BY <2>2, <2>8, Staged DEF WriteFile, At, bootstrap, history, Handler
    <3>2. Writing(op[p]) /\ Writing(op'[p]) /\ ~Completing(op'[p])
      BY <3>1 DEF Completing, Writing
    <3>3. creator'.hash = creator.hash /\ (env.login \/ creator'.file = made.secrets + 1)
      BY <2>2, <3>1
    <3>4. ASSUME {"root", "secret"} \cap blurred = {}, NEW q \in Process, op'[q].at = "hash"
          PROVE  env.login \/ creator'.file = op'[q].secret
      <4>1. CASE q = p
        BY <4>1, <3>1, <3>3
      <4>2. CASE q # p
        <5>1. op[q].at = "hash" /\ op[q].kind \in {"root", "secret"} /\ Writing(op[q])
          BY <4>2, <3>4, <2>2, Staged DEF Writing
        <5>2. op[q].kind = op[p].kind
          BY <5>1, <3>1, <3>2, <3>4 DEF SecretInv
        <5> QED BY <4>2, <5>1, <5>2, <3>4 DEF OneAtATime, Kinds
      <4> QED BY <4>1, <4>2
    <3>5. op'[p].secret # 0
      BY <2>2, <3>1
    <3> QED BY <2>2, <3>1, <3>2, <3>3, <3>4, <3>5 DEF SecretInv
  <2>9. CASE WriteHash(p)
    <3>1. /\ UNCHANGED <<env, boot, blurred>> /\ op[p].at = "hash" /\ op[p].kind \in {"root", "secret"}
          /\ creator' = [creator EXCEPT !.hash = op[p].secret]
      BY <2>9, Staged DEF WriteHash, At, bootstrap
    <3>2. creator'.hash = op[p].secret /\ creator'.file = creator.file /\ creator'.hash # 0
      BY <2>2, <3>1 DEF SecretInv
    <3>3. op'[p] = Idle \/ op'[p].at = "session"
      BY <2>3, <2>4, <2>9 DEF WriteHash
    <3>4. ~Writing(op'[p]) /\ ~Completing(op'[p]) /\ op'[p].at # "hash" /\ Writing(op[p])
      BY <2>1, <3>1, <3>3 DEF Writing, Completing
    <3>5. boot.init
      BY <3>1, <3>4 DEF SecretInv
    <3>6. ASSUME "root" \notin blurred, NEW q \in Process, op'[q].kind = "root",
                 Completing(op'[q]) \/ Writing(op'[q])
          PROVE  FALSE
      <4>1. q # p /\ op'[q] = op[q] /\ creator.hash = 0
        BY <2>2, <3>4, <3>6 DEF SecretInv
      <4>2. op[p].kind = "root"
        BY <4>1, <3>1 DEF SecretInv
      <4> QED BY <4>1, <4>2, <3>6 DEF OneAtATime, Kinds
    <3>7. ASSUME {"root", "secret"} \cap blurred = {} PROVE Right'
      <4>1. env.login \/ creator.file = op[p].secret
        BY <3>1, <3>7 DEF SecretInv
      <4> QED BY <4>1, <3>1, <3>2 DEF Right
    <3> QED BY <2>2, <3>1, <3>2, <3>4, <3>5, <3>6, <3>7 DEF SecretInv
  <2> QED BY <1>3, <2>5, <2>6, <2>7, <2>8, <2>9 DEF Works
<1> QED BY <1>1, <1>2, <1>3 DEF Next, Starts, Works

----------------------------------------------------------------------------
(* Failed attempts.                                                        *)

LEMMA CaughtNat ==
    ASSUME TypeOK
    PROVE  IsFiniteSet(Pruned(guesses)) /\ Caught \in Nat /\ Threshold \in Nat /\ Threshold > 0
<1>1. Pruned(guesses) \in SUBSET guesses /\ IsFiniteSet(guesses)
  BY DEF Pruned, TypeOK
<1>2. IsFiniteSet(Pruned(guesses))
  BY <1>1, FS_Subset
<1> QED BY <1>2, FS_CardinalityType, AccessAssumption DEF Caught

\* No handler comes back to its verdict.
LEMMA WorkedOn ==
    ASSUME TypeOK, TypeOK', NEW p \in Process, Works(p)
    PROVE  op'[p].at # "verdict"
<1>1. Idle.at = "idle" /\ op \in [Process -> Handler] /\ op[p] \in Handler
  BY DEF TypeOK, Idle
<1>3. ASSUME NEW at, Goto(p, at) PROVE op'[p].at = at
  BY <1>1, <1>3 DEF Goto, Handler
<1>4. ASSUME Return(p) PROVE op'[p].at = "idle"
  BY <1>1, <1>4 DEF Return
<1>5. CASE WriteFile(p)
  BY <1>1, <1>5 DEF WriteFile, Handler
<1>6. CASE SetRoot(p)
  <2>1. op[p].then \in {"edge", "record", "revoke"} /\ Goto(p, op[p].then)
    BY <1>6, Staged DEF SetRoot, At
  <2>2. op'[p].at = op[p].then
    BY <2>1, <1>3
  <2> QED BY <2>1, <2>2
<1>7. CASE ~WriteFile(p) /\ ~SetRoot(p)
  <2>1. Return(p) \/ Goto(p, "mark") \/ Goto(p, "file") \/ Goto(p, "session") \/ Goto(p, "forget")
    BY <1>7, Touches DEF Works, SetEdge, Mark, RecordRoot, RecordRevocation, WriteHash, LoginWrite,
                               LoginRefuse, CreateSession, Forget, Crash
  <2>2. op'[p].at \in {"idle", "mark", "file", "session", "forget"}
    BY <2>1, <1>3, <1>4
  <2> QED BY <2>2
<1> QED BY <1>5, <1>6, <1>7

\* A step of no login.
LEMMA GuessKept ==
    ASSUME GuessInv, UNCHANGED <<now, guesses, failures, lockedUntil>>, blurred \subseteq blurred',
           \A p \in Process : op'[p].at = "verdict" => op[p].at = "verdict" /\ op'[p].seen = op[p].seen
    PROVE  GuessInv'
<1>1. Pruned(guesses)' = Pruned(guesses)
  BY DEF Pruned
<1>2. Caught' = Caught
  BY <1>1 DEF Caught
<1> QED BY <1>1, <1>2 DEF GuessInv

\* A step that forgets the failures.
LEMMA GuessCleared ==
    ASSUME guesses' = {}
    PROVE  GuessInv'
<1>1. Pruned(guesses)' = {}
  BY DEF Pruned
<1>2. Caught' = 0
  BY <1>1, FS_EmptySet DEF Caught
<1>3. Threshold \in Nat /\ 0 < Threshold
  BY AccessAssumption
<1> QED BY <1>1, <1>2, <1>3 DEF GuessInv

LEMMA GuessSound ==
    ASSUME TypeOK, TypeOK', OneAtATime, GuessInv, [Next]_vars
    PROVE  GuessInv'
<1>0. /\ IsFiniteSet(Pruned(guesses)) /\ Caught \in Nat /\ Threshold \in Nat /\ Threshold > 0
      /\ now \in Nat /\ guesses \in SUBSET Try /\ lockedUntil \in Nat
      /\ \A a \in guesses : a.at \in Nat
  BY CaughtNat DEF TypeOK, Try
<1>a. Period \in Nat /\ Period > 0
  BY AccessAssumption
<1>1. CASE UNCHANGED vars \/ \E s \in Session : Expire(s)
  BY <1>1, GuessKept DEF vars, login, history, Expire
<1>2. CASE Tick
  <2>1. now' = now + 1 /\ UNCHANGED <<guesses, failures, lockedUntil, op, blurred>>
    BY <1>2 DEF Tick, login, history
  <2>2. Pruned(guesses)' \subseteq Pruned(guesses)
    BY <2>1, <1>0, <1>a DEF Pruned
  <2>3. Caught' <= Caught /\ Caught' \in Nat
    <3>1. /\ IsFiniteSet(Pruned(guesses)') /\ Cardinality(Pruned(guesses)') <= Cardinality(Pruned(guesses))
      BY <2>2, <1>0, FS_Subset
    <3>2. Cardinality(Pruned(guesses)') \in Nat
      BY <3>1, FS_CardinalityType
    <3> QED BY <3>1, <3>2 DEF Caught
  <2>4. \A a \in guesses' : a.at <= now'
    BY <2>1, <1>0 DEF GuessInv
  <2>5. ASSUME "login" \notin blurred PROVE Caught' < Threshold \/ \A a \in guesses' : a.at + Period <= lockedUntil'
    BY <2>1, <2>3, <2>5, <1>0 DEF GuessInv
  <2>6. ASSUME "login" \notin blurred PROVE Caught' <= Threshold
    BY <2>3, <2>6, <1>0 DEF GuessInv
  <2>7. ASSUME "login" \notin blurred, NEW q \in Process, op'[q].at = "verdict"
        PROVE  Pruned(guesses)' \subseteq op'[q].seen /\ Caught' < Threshold
    <3>1. Pruned(guesses) \subseteq op[q].seen /\ Caught < Threshold
      BY <2>1, <2>7 DEF GuessInv
    <3> QED BY <3>1, <2>1, <2>2, <2>3, <1>0
  <2>8. "login" \notin blurred => Pruned(guesses)' \subseteq failures'
    BY <2>1, <2>2 DEF GuessInv
  <2> QED BY <2>1, <2>4, <2>5, <2>6, <2>7, <2>8 DEF GuessInv
<1>3. ASSUME NEW p \in Process, Starts(p) PROVE GuessInv'
  <2>1. op[p] = Idle /\ Only(p) /\ UNCHANGED <<now, guesses, failures, lockedUntil>>
    BY <1>3, Started, StartsLeave
  <2>2. op'[p].at = "verdict" => op'[p].seen = failures /\ lockedUntil <= now
    BY <1>3, Started
  <2>3. Pruned(guesses)' = Pruned(guesses)
    BY <2>1 DEF Pruned
  <2>4. Caught' = Caught
    BY <2>3 DEF Caught
  <2>5. ASSUME "login" \notin blurred, op'[p].at = "verdict"
        PROVE  Pruned(guesses) \subseteq op'[p].seen /\ Caught < Threshold
    <3>1. CASE \A a \in guesses : a.at + Period <= lockedUntil
      <4>1. \A a \in guesses : ~(now - a.at < Period)
        BY <3>1, <2>2, <2>5, <1>0, <1>a
      <4>2. Pruned(guesses) = {}
        BY <4>1 DEF Pruned
      <4> QED BY <4>2, <1>0, FS_EmptySet DEF Caught
    <3>2. CASE Caught < Threshold
      BY <3>2, <2>2, <2>5 DEF GuessInv
    <3> QED BY <2>5, <3>1, <3>2 DEF GuessInv
  <2> QED BY <2>1, <2>3, <2>4, <2>5 DEF GuessInv, Only
<1>4. ASSUME NEW p \in Process, Works(p) PROVE GuessInv'
  <2>1. Goes(p) /\ Idle.at = "idle"
    BY <1>4, Worked DEF Idle
  <2>2. /\ \A q \in Process \ {p} : op'[q] = op[q]
        /\ blurred \subseteq blurred' /\ op \in [Process -> Handler] /\ op[p] \in Handler
    BY <2>1 DEF Goes, Only, TypeOK
  <2>5. op'[p].at # "verdict"
    BY <1>4, WorkedOn
  <2>6. CASE WriteHash(p) \/ LoginWrite(p)
    <3>1. guesses' = {}
      BY <2>6 DEF WriteHash, LoginWrite
    <3> QED BY <3>1, GuessCleared
  <2>7. CASE LoginRefuse(p)
    <3>1. /\ op[p].at = "verdict" /\ op[p].kind = "login" /\ UNCHANGED <<now, blurred>>
          /\ failures' = Pruned(op[p].seen) \cup {Attempt(p)} /\ guesses' = guesses \cup {Attempt(p)}
          /\ lockedUntil' = IF Locked(Cardinality(failures')) THEN now + Period ELSE 0
      BY <2>7, Staged DEF LoginRefuse, At
    <3>2. Attempt(p).at = now
      BY DEF Attempt
    <3>3. \A a \in guesses' : a.at <= now
      BY <3>1, <3>2, <1>0 DEF GuessInv
    <3>4. Pruned(guesses)' \subseteq Pruned(guesses) \cup {Attempt(p)}
      BY <3>1 DEF Pruned
    <3>5. Caught' \in Nat /\ Caught' <= Caught + 1
      <4>1. /\ IsFiniteSet(Pruned(guesses) \cup {Attempt(p)})
            /\ Cardinality(Pruned(guesses) \cup {Attempt(p)}) <= Caught + 1
        BY <1>0, FS_AddElement DEF Caught
      <4>2. Cardinality(Pruned(guesses) \cup {Attempt(p)}) \in Nat
        BY <4>1, FS_CardinalityType
      <4>3. Caught' <= Cardinality(Pruned(guesses) \cup {Attempt(p)}) /\ Caught' \in Nat
        <5>1. /\ IsFiniteSet(Pruned(guesses)')
              /\ Cardinality(Pruned(guesses)') <= Cardinality(Pruned(guesses) \cup {Attempt(p)})
          BY <4>1, <3>4, FS_Subset
        <5>2. Cardinality(Pruned(guesses)') \in Nat
          BY <5>1, FS_CardinalityType
        <5> QED BY <5>1, <5>2 DEF Caught
      <4> QED BY <4>1, <4>2, <4>3, <1>0
    <3>6. ASSUME "login" \notin blurred PROVE Pruned(guesses)' \subseteq failures' /\ Caught' <= Threshold
      <4>1. Pruned(guesses) \subseteq op[p].seen /\ Caught < Threshold
        BY <3>1, <3>6 DEF GuessInv
      <4>2. Pruned(guesses) \subseteq Pruned(op[p].seen)
        BY <4>1 DEF Pruned
      <4>3. Pruned(guesses)' \subseteq failures'
        BY <3>1, <3>4, <4>2
      <4> QED BY <4>1, <4>3, <3>5, <1>0
    <3>7. ASSUME "login" \notin blurred
          PROVE  Caught' < Threshold \/ \A a \in guesses' : a.at + Period <= lockedUntil'
      <4>1. CASE Locked(Cardinality(failures'))
        <5>1. lockedUntil' = now + Period /\ \A a \in guesses' : a.at <= now /\ a.at \in Nat
          BY <3>1, <3>2, <3>3, <4>1, <1>0
        <5> QED BY <5>1, <1>0, <1>a
      <4>2. CASE ~Locked(Cardinality(failures'))
        <5>1. IsFiniteSet(failures')
          BY DEF TypeOK
        <5>2. Cardinality(failures') \in Nat /\ Cardinality(failures') < Threshold
          BY <4>2, <5>1, <1>0, FS_CardinalityType DEF Locked
        <5>3. Caught' <= Cardinality(failures')
          BY <5>1, <3>6, <3>7, FS_Subset DEF Caught
        <5> QED BY <5>2, <5>3, <3>5, <1>0
      <4> QED BY <4>1, <4>2
    <3>8. ASSUME "login" \notin blurred, NEW q \in Process, op'[q].at = "verdict" PROVE FALSE
      <4>1. q # p /\ op[q].at = "verdict"
        BY <2>2, <2>5, <3>8
      <4>2. op[q].kind = "login"
        BY <4>1, Staged
      <4> QED BY <4>1, <4>2, <3>1, <3>8 DEF OneAtATime, Kinds
    <3> QED BY <3>1, <3>3, <3>6, <3>7, <3>8 DEF GuessInv
  <2>8. CASE ~WriteHash(p) /\ ~LoginWrite(p) /\ ~LoginRefuse(p)
    <3>1. UNCHANGED <<now, guesses, failures, lockedUntil>>
      BY <1>4, <2>8 DEF Works, SetRoot, SetEdge, Mark, RecordRoot, RecordRevocation, WriteFile, CreateSession,
                        Touch, Forget, Crash, login, history
    <3> QED BY <2>2, <2>5, <3>1, GuessKept
  <2> QED BY <2>6, <2>7, <2>8
<1> QED BY <1>1, <1>2, <1>3, <1>4 DEF Next, Starts, Works

----------------------------------------------------------------------------
(* Codes of the second factor.                                             *)

LEMMA CodeKept ==
    ASSUME CodeInv, UNCHANGED <<env, now, used, accepted>>, blurred \subseteq blurred',
           \A p \in Process : op'[p].at = "verdict" =>
                op[p].at = "verdict" /\ op'[p].good = op[p].good /\ op'[p].step = op[p].step
    PROVE  CodeInv'
<1>1. \A step \in Step : CodeOk(step)' <=> CodeOk(step)
  BY DEF CodeOk, Totp, Near
<1> QED BY <1>1 DEF CodeInv, CodeOk, Totp, Near

LEMMA CodeSound ==
    ASSUME TypeOK, TypeOK', OneAtATime, CodeInv, [Next]_vars
    PROVE  CodeInv'
<1>0. /\ now \in Nat /\ accepted \in [Step -> Nat] /\ used \in SUBSET Step /\ \A s \in Step : s \in Nat
      /\ KeepSteps \in Nat /\ KeepSteps > 0
  <2>1. KeepSteps \in Nat \ {0} /\ MaxTime \in Nat
    BY AccessAssumption
  <2>2. \A s \in Step : s \in Nat
    BY DEF Step
  <2> QED BY <2>1, <2>2 DEF TypeOK
<1>1. CASE UNCHANGED vars \/ \E s \in Session : Expire(s)
  BY <1>1, CodeKept DEF vars, login, history, Expire
<1>2. CASE Tick
  <2>1. now' = now + 1 /\ UNCHANGED <<used, accepted, blurred>> /\ op' = op
    BY <1>2 DEF Tick, login, history
  <2>2. \A q \in Process : op'[q].at # "verdict"
    BY <1>2, <2>1 DEF Tick, Idle
  <2> QED BY <1>0, <2>1, <2>2 DEF CodeInv
<1>3. ASSUME NEW p \in Process, Starts(p) PROVE CodeInv'
  <2>1. op[p] = Idle /\ Only(p) /\ UNCHANGED <<env, now, used, accepted>>
    BY <1>3, Started, StartsLeave
  <2>2. op'[p].at = "verdict" /\ op'[p].good => CodeOk(op'[p].step)
    BY <1>3, Started
  <2>3. ASSUME NEW q \in Process, "login" \notin blurred', op'[q].at = "verdict", op'[q].good
        PROVE  CodeOk(op'[q].step)
    BY <2>1, <2>2, <2>3 DEF CodeInv, Only
  <2>4. ASSUME NEW q \in Process, CodeOk(op'[q].step) PROVE CodeOk(op[q].step)'
    BY <2>1, <2>4 DEF CodeOk, Totp, Near
  <2> QED BY <2>1, <2>3, <2>4 DEF CodeInv, Only
<1>4. ASSUME NEW p \in Process, Works(p) PROVE CodeInv'
  <2>1. Goes(p) /\ Idle.at = "idle"
    BY <1>4, Worked DEF Idle
  <2>2. /\ \A q \in Process \ {p} : op'[q] = op[q]
        /\ blurred \subseteq blurred' /\ op[p] \in Handler
    BY <2>1 DEF Goes, Only, TypeOK
  <2>3. op'[p].at # "verdict"
    BY <1>4, WorkedOn
  <2>4. CASE LoginWrite(p)
    <3>1. /\ op[p].at = "verdict" /\ op[p].kind = "login" /\ op[p].good /\ UNCHANGED <<env, now, blurred>>
          /\ used' = IF Totp THEN {s \in used \cup {op[p].step} : Remembered(s)} ELSE used
          /\ accepted' = [accepted EXCEPT ![op[p].step] = IF Totp THEN @ + 1 ELSE @]
      BY <2>4, Staged DEF LoginWrite, At
    <3>2. op[p].step \in Step
      BY <2>2 DEF Handler
    <3>3. ASSUME "login" \notin blurred, NEW q \in Process, op'[q].at = "verdict" PROVE FALSE
      <4>1. q # p /\ op[q].at = "verdict"
        BY <2>2, <2>3, <3>3
      <4>2. op[q].kind = "login"
        BY <4>1, Staged
      <4> QED BY <4>1, <4>2, <3>1, <3>3 DEF OneAtATime, Kinds
    <3>4. CASE ~Totp
      <4>1. UNCHANGED <<used, accepted>>
        BY <3>1, <3>2, <3>4, <1>0
      <4> QED BY <3>1, <3>3, <4>1 DEF CodeInv
    <3>5. CASE Totp /\ "login" \notin blurred
      <4>1. Near(op[p].step, 1) /\ op[p].step \notin used
        BY <3>1, <3>5 DEF CodeInv, CodeOk
      <4>2. op[p].step <= now + 1 /\ now <= op[p].step + 1
        BY <4>1, <3>2, <1>0 DEF Near
      <4>3. accepted[op[p].step] = 0
        <5>1. ~(op[p].step + KeepSteps < now)
          BY <4>2, <3>2, <1>0
        <5> QED BY <5>1, <4>1, <3>2, <3>5 DEF CodeInv
      <4>4. /\ accepted'[op[p].step] = 1
            /\ \A s \in Step : s # op[p].step => accepted'[s] = accepted[s]
        BY <3>1, <3>2, <3>5, <4>3, <1>0
      <4>5. \A s \in Step : accepted'[s] <= 1
        BY <4>4, <3>5 DEF CodeInv
      <4>6. ASSUME NEW s \in Step, accepted'[s] # 0
            PROVE  s <= now + 1 /\ (s \in used' \/ s + KeepSteps < now)
        <5>1. s <= now + 1 /\ (s \in used \cup {op[p].step} \/ s + KeepSteps < now)
          BY <4>2, <4>4, <4>6, <3>5 DEF CodeInv
        <5>2. Remembered(s) \/ s + KeepSteps < now
          BY <5>1, <1>0 DEF Remembered, Near
        <5> QED BY <5>1, <5>2, <3>1, <3>5
      <4> QED BY <3>1, <3>3, <4>5, <4>6 DEF CodeInv
    <3>6. CASE "login" \in blurred
      BY <3>1, <3>6 DEF CodeInv
    <3> QED BY <3>4, <3>5, <3>6
  <2>5. CASE ~LoginWrite(p)
    <3>1. UNCHANGED <<env, now, used, accepted>>
      BY <1>4, <2>5 DEF Works, SetRoot, SetEdge, Mark, RecordRoot, RecordRevocation, WriteFile, WriteHash,
                        LoginRefuse, CreateSession, Touch, Forget, Crash, login, history
    <3> QED BY <2>2, <2>3, <3>1, CodeKept
  <2> QED BY <2>4, <2>5
<1> QED BY <1>1, <1>2, <1>3, <1>4 DEF Next, Starts, Works

----------------------------------------------------------------------------
(* The theorems.                                                           *)

LEMMA InitSound == Init => IInv
<1> SUFFICES ASSUME Init PROVE IInv
  OBVIOUS
<1>1. /\ \A p \in Process : op[p] = Idle
      /\ Idle.kind = "none" /\ Idle.at = "idle" /\ Idle.seen = {}
  BY DEF Init, Idle
<1>2. TypeOK
  <2>1. op \in [Process -> Handler] /\ \A p \in Process : Shaped(op[p]) /\ IsFiniteSet(op[p].seen)
    BY IdleTyped DEF Init
  <2>2. /\ boot \in [init : BOOLEAN, root : Nat, revoked : BOOLEAN]
        /\ root \in Nat /\ delegated \in BOOLEAN /\ creator \in [file : Nat, hash : Nat]
    <3>1. \/ boot = [init |-> FALSE, root |-> 0, revoked |-> FALSE] /\ root = 0 /\ delegated = FALSE
          \/ boot = [init |-> TRUE, root |-> 1, revoked |-> FALSE] /\ root = 1 /\ delegated = TRUE
      BY DEF Init
    <3>2. creator \in {[file |-> 0, hash |-> 0], [file |-> 0, hash |-> 1], [file |-> 1, hash |-> 1]}
      BY DEF Init
    <3>3. creator \in [file : Nat, hash : Nat]
      BY <3>2
    <3>4. boot \in [init : BOOLEAN, root : Nat, revoked : BOOLEAN]
      <4>1. CASE boot = [init |-> FALSE, root |-> 0, revoked |-> FALSE]
        BY <4>1
      <4>2. CASE boot = [init |-> TRUE, root |-> 1, revoked |-> FALSE]
        BY <4>2
      <4> QED BY <3>1, <4>1, <4>2
    <3>5. root \in Nat /\ delegated \in BOOLEAN
      <4>1. root \in {0, 1}
        BY <3>1
      <4>2. root \in Nat
        BY <4>1
      <4>3. delegated \in BOOLEAN
        BY <3>1, Zenon
      <4> QED BY <4>2, <4>3
    <3> QED BY <3>3, <3>4, <3>5
  <2>3. made \in [roots : Nat, secrets : Nat, sessions : Nat, logins : Nat, crashes : Nat]
    BY <2>2 DEF Init
  <2> QED BY <2>1, <2>2, <2>3, FS_EmptySet DEF Init, TypeOK
<1>3. OneAtATime
  BY <1>1 DEF OneAtATime, Kinds
<1>4. SessionsInv
  BY <1>1 DEF Init, SessionsInv
<1>5. RevokedInv
  BY <1>1 DEF Init, RevokedInv, Completing
<1>6. SecretInv
  BY <1>1 DEF Init, SecretInv, Completing, Writing, Right
<1>7. GuessInv
  <2>1. guesses = {} /\ Pruned(guesses) = {} /\ Threshold \in Nat /\ Threshold > 0
    BY AccessAssumption DEF Init, Pruned
  <2>2. Caught = 0
    BY <2>1, FS_EmptySet DEF Caught
  <2> QED BY <1>1, <2>1, <2>2 DEF GuessInv
<1>8. CodeInv
  BY <1>1 DEF Init, CodeInv
<1> QED BY <1>2, <1>3, <1>4, <1>5, <1>6, <1>7, <1>8 DEF IInv

LEMMA NextSound == IInv /\ [Next]_vars => IInv'
BY TypeSound, OneSound, SessionsSound, RevokedSound, SecretSound, GuessSound, CodeSound DEF IInv

\* No step of a handler belongs to a process that has none.
LEMMA Idles ==
    ASSUME NEW p \in Process, op[p] = Idle, Works(p)
    PROVE  FALSE
BY DEF Works, SetRoot, SetEdge, Mark, RecordRoot, RecordRevocation, WriteFile, WriteHash, LoginWrite, LoginRefuse,
       CreateSession, Touch, Forget, Crash, At, Idle

THEOREM Invariance == Spec => []IInv
BY InitSound, NextSound, PTL DEF Spec

\* An initialized system has a secret the Creator can log in with, unless a
\* bootstrap or a rotation was cut off or ran twice at a time.
THEOREM Prepared == Spec => []LoginPrepared
<1>1. IInv => LoginPrepared
  <2> SUFFICES ASSUME IInv, boot.init, ~Busy("root"), ~Busy("secret"), blurred \cap {"root", "secret"} = {}
               PROVE  Right
    BY DEF LoginPrepared
  <2>1. \A p \in Process : ~Writing(op[p])
    <3>1. \A p \in Process : op[p].kind # "root" /\ op[p].kind # "secret"
      BY DEF Busy, Idle
    <3> QED BY <3>1, Staged DEF IInv, Writing
  <2> QED BY <2>1 DEF IInv, SecretInv
<1> QED BY <1>1, Invariance, PTL

\* The lock bounds the failed attempts of a window, and a code of the second
\* factor is accepted once, as long as logins do not overlap.
THEOREM Bounded == Spec => []LoginsBounded
<1>1. IInv => LoginsBounded
  BY DEF IInv, GuessInv, CodeInv, LoginsBounded, Caught
<1> QED BY <1>1, Invariance, PTL

\* A session that is gone resolves no more, and the guard lets nothing in
\* after a revocation.
THEOREM StaysClosed == Spec => ClosedForGood
<1> DEFINE A(p) == op[p] = Idle /\ op'[p] # Idle /\ op'[p].at = "touch" =>
                      /\ op'[p].session \notin gone \/ "sessions" \in blurred
                      /\ closed /\ op'[p].use = "serve" => "root" \in blurred
<1>1. IInv /\ IInv' /\ [Next]_vars => [\A p \in Process : A(p)]_vars
  <2> SUFFICES ASSUME IInv, IInv', Next, NEW p \in Process, op[p] = Idle, op'[p] # Idle, op'[p].at = "touch"
               PROVE  /\ op'[p].session \notin gone \/ "sessions" \in blurred
                      /\ closed /\ op'[p].use = "serve" => "root" \in blurred
    OBVIOUS
  <2>1. Idle.at = "idle" /\ TypeOK /\ TypeOK'
    BY DEF Idle, IInv
  <2>2. ASSUME NEW q \in Process, Works(q) PROVE FALSE
    <3>1. Goes(q)
      BY <2>1, <2>2, Worked
    <3>2. q = p
      BY <3>1 DEF Goes, Only
    <3>3. op[p].at = "idle"
      BY <2>1
    <3> QED BY <2>2, <3>2, <3>3, Idles
  <2>3. ~Tick /\ ~\E s \in Session : Expire(s)
    BY DEF Tick, Expire
  <2>4. PICK q \in Process : Starts(q)
    BY <2>2, <2>3 DEF Next, Starts, Works
  <2>5. q = p
    <3>1. Only(q)
      BY <2>1, <2>4, Started
    <3> QED BY <3>1 DEF Only
  <2>6. sessions[op'[p].session] = "live" /\ (op'[p].use = "serve" => ~boot.revoked)
    BY <2>1, <2>4, <2>5, Started
  <2> QED BY <2>6 DEF IInv, SessionsInv, RevokedInv
<1>2. IInv /\ [Next]_vars => IInv'
  BY NextSound
<1> QED BY <1>1, <1>2, Invariance, PTL DEF Spec, ClosedForGood
==============================================================================
