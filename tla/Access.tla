------------------------------- MODULE Access -------------------------------
(***************************************************************************)
(* Bootstrap, the Creator's login and browser sessions: bootstrap.ts,      *)
(* creator-auth.ts, totp.ts, session.ts, app/api/auth/route.ts, and the    *)
(* guard of every other route (api/guard.ts, api/api-gate.ts).             *)
(*                                                                         *)
(* A handler is synchronous, so what can come between two of its accesses  *)
(* to the stores is another server process on the same storage root, or    *)
(* the end of this one.  op names the access a handler makes next.         *)
(*                                                                         *)
(* Secrets, root authorities and sessions are numbers in the order they    *)
(* are made.  The clock ticks in TOTP periods; Period ticks stand for the  *)
(* 15 minutes of LOCKOUT_WINDOW_MS and LOCKOUT_DURATION_MS.                *)
(***************************************************************************)
EXTENDS Naturals, FiniteSets, TLC

CONSTANTS
    Process,
    Threshold,      \* LOCKOUT_THRESHOLD (5)
    Period,
    KeepSteps,      \* how far a used step may be from now to be kept (4)
    KeepSessions,   \* sessions the store keeps (200)
    Exercises,      \* what is asked of the server: sets of "root", "secret",
                    \* "login" and "session", and "totp" when a second factor is
                    \* configured; a behaviour takes one of them
    MaxTime, MaxRoots, MaxSecrets, MaxSessions, MaxLogins, MaxCrashes   \* bounds

ASSUME AccessAssumption ==
    /\ {Threshold, Period, KeepSteps, KeepSessions} \subseteq Nat \ {0}
    /\ {MaxTime, MaxRoots, MaxSecrets, MaxSessions, MaxLogins, MaxCrashes} \subseteq Nat

Session == 1..MaxSessions

VARIABLES
    env,        \* configuration: is there a login secret; the calls exercised
    now,
    boot,       \* store "bootstrap": initialized, root, revoked
    root, delegated,     \* store "authority": rootAuthorityId, and an edge of the Creator
    creator,    \* the file creator-token, and the hash of the secret
    failures, lockedUntil, used,     \* store "creator-auth": the failed attempts with their times, in any order
    sessions,   \* state of each session
    op,         \* of each process: the handler's next access
    made,       \* roots, secrets, sessions made; logins tried; crashes
    closed,     \* history: revokeRoot has returned
    gone,       \* history: sessions whose logout or renewal has returned
    guesses,    \* history: the failed attempts since the last good one
    accepted,   \* history: how often the code of each step was accepted
    blurred     \* history: "root", "secret", "login", "sessions": two handlers
                \* worked on them at a time, or one was cut off

bootstrap == <<boot, root, delegated>>
login == <<failures, lockedUntil, used>>
history == <<closed, gone, guesses, accepted, blurred>>
vars == <<env, now, bootstrap, creator, login, sessions, op, made, history>>

\* The access a handler makes next, its kind, and what it has in hand.
Idle == [at |-> "idle", kind |-> "none", then |-> "none", root |-> 0, secret |-> 0,
         attempt |-> 0, good |-> FALSE, step |-> 0, seen |-> {}, session |-> 0, use |-> "none"]
Step == 0..(MaxTime + 1)

\* A fresh installation, or one that is already in use.  The bootstrap secret
\* is the one of the environment: nothing calls ensureBootstrapSecret.
Init ==
    /\ env \in [login : BOOLEAN, calls : Exercises] /\ now = 1
    /\ \/ /\ boot = [init |-> FALSE, root |-> 0, revoked |-> FALSE] /\ root = 0 /\ delegated = FALSE
          /\ creator = [file |-> 0, hash |-> 0]
       \/ /\ boot = [init |-> TRUE, root |-> 1, revoked |-> FALSE] /\ root = 1 /\ delegated = TRUE
          /\ creator = IF env.login THEN [file |-> 0, hash |-> 1] ELSE [file |-> 1, hash |-> 1]
    /\ failures = {} /\ lockedUntil = 0 /\ used = {}
    /\ sessions = [s \in Session |-> "none"]
    /\ op = [p \in Process |-> Idle]
    /\ made = [roots |-> boot.root, secrets |-> creator.hash, sessions |-> 0, logins |-> 0, crashes |-> 0]
    /\ closed = FALSE /\ gone = {} /\ guesses = {} /\ accepted = [s \in Step |-> 0] /\ blurred = {}

\* Handlers of one kind, of all processes but p.
Others(p, kind) == {q \in Process \ {p} : op[q] # Idle /\ op[q].kind = kind}
Begin(p, o) ==
    /\ op[p] = Idle /\ op' = [op EXCEPT ![p] = o]
    /\ blurred' = IF Others(p, o.kind) = {} THEN blurred ELSE blurred \cup {o.kind}
At(p, at) == op[p].at = at
Goto(p, at) == op' = [op EXCEPT ![p].at = at]
Return(p) == op' = [op EXCEPT ![p] = Idle]

----------------------------------------------------------------------------
(* Bootstrap, and what changes the root authority.                         *)

\* completeBootstrap, with the right secret, up to its first write.
Complete(p) ==
    /\ "root" \in env.calls /\ ~boot.init /\ ~boot.revoked /\ made.roots < MaxRoots
    /\ Begin(p, [Idle EXCEPT !.kind = "root", !.at = "setRoot", !.then = "edge", !.root = made.roots + 1])
    /\ made' = [made EXCEPT !.roots = @ + 1]
    /\ UNCHANGED <<env, now, bootstrap, creator, login, sessions, closed, gone, guesses, accepted>>

\* rotateRoot and revokeRoot.
RotateRoot(p) ==
    /\ "root" \in env.calls /\ boot.init /\ made.roots < MaxRoots
    /\ Begin(p, [Idle EXCEPT !.kind = "root", !.at = "setRoot", !.then = "record", !.root = made.roots + 1])
    /\ made' = [made EXCEPT !.roots = @ + 1]
    /\ UNCHANGED <<env, now, bootstrap, creator, login, sessions, closed, gone, guesses, accepted>>

RevokeRoot(p) ==
    /\ "root" \in env.calls /\ boot.init
    /\ Begin(p, [Idle EXCEPT !.kind = "root", !.at = "setRoot", !.then = "revoke"])
    /\ UNCHANGED <<env, now, bootstrap, creator, login, sessions, made, closed, gone, guesses, accepted>>

\* setRootAuthority: the authority store comes first.
SetRoot(p) ==
    /\ At(p, "setRoot")
    /\ root' = op[p].root /\ Goto(p, op[p].then)
    /\ UNCHANGED <<env, now, boot, delegated, creator, login, sessions, made, history>>

\* addAuthorityEdge and the delegations that follow it.
SetEdge(p) ==
    /\ At(p, "edge")
    /\ delegated' = TRUE /\ Goto(p, "mark")
    /\ UNCHANGED <<env, now, boot, root, creator, login, sessions, made, history>>

\* The bootstrap store is written whole, whatever it says by now.
Mark(p) ==
    /\ At(p, "mark")
    /\ boot' = [init |-> TRUE, root |-> op[p].root, revoked |-> FALSE]
    /\ Goto(p, "file")
    /\ UNCHANGED <<env, now, root, delegated, creator, login, sessions, made, history>>

RecordRootOpening(p) ==    \* mutant: a new root takes the revocation back
    /\ At(p, "record")
    /\ boot' = [boot EXCEPT !.root = op[p].root, !.revoked = FALSE] /\ Return(p)
    /\ UNCHANGED <<env, now, root, delegated, creator, login, sessions, made, history>>

RecordRoot(p) ==
    /\ At(p, "record")
    /\ boot' = [boot EXCEPT !.root = op[p].root] /\ Return(p)
    /\ UNCHANGED <<env, now, root, delegated, creator, login, sessions, made, history>>

RecordRevocation(p) ==
    /\ At(p, "revoke")
    /\ boot' = [boot EXCEPT !.revoked = TRUE] /\ closed' = TRUE /\ Return(p)
    /\ UNCHANGED <<env, now, root, delegated, creator, login, sessions, made, gone, guesses, accepted, blurred>>

----------------------------------------------------------------------------
(* The Creator's secret.                                                   *)

\* rotateCreatorSecret.
RotateSecret(p) ==
    /\ "secret" \in env.calls /\ creator.hash # 0 /\ made.secrets < MaxSecrets
    /\ Begin(p, [Idle EXCEPT !.kind = "secret", !.at = "file"])
    /\ UNCHANGED <<env, now, bootstrap, creator, login, sessions, made, closed, gone, guesses, accepted>>

WriteFileOnce(p) ==    \* mutant: a file that is there is kept
    /\ At(p, "file") /\ made.secrets < MaxSecrets
    /\ creator' = IF env.login \/ creator.file # 0 THEN creator ELSE [creator EXCEPT !.file = made.secrets + 1]
    /\ made' = [made EXCEPT !.secrets = @ + 1]
    /\ op' = [op EXCEPT ![p].at = "hash", ![p].secret = made.secrets + 1]
    /\ UNCHANGED <<env, now, bootstrap, login, sessions, history>>

\* initializeCreatorSecret: the file comes first, unless the environment holds
\* the secret.
WriteFile(p) ==
    /\ At(p, "file") /\ made.secrets < MaxSecrets
    /\ creator' = IF env.login THEN creator ELSE [creator EXCEPT !.file = made.secrets + 1]
    /\ made' = [made EXCEPT !.secrets = @ + 1]
    /\ op' = [op EXCEPT ![p].at = "hash", ![p].secret = made.secrets + 1]
    /\ UNCHANGED <<env, now, bootstrap, login, sessions, history>>

WriteHash(p) ==
    /\ At(p, "hash")
    /\ creator' = [creator EXCEPT !.hash = op[p].secret]
    /\ failures' = {} /\ lockedUntil' = 0 /\ guesses' = {}
    /\ IF op[p].kind = "root" THEN Goto(p, "session") ELSE Return(p)
    /\ UNCHANGED <<env, now, bootstrap, used, sessions, made, closed, gone, accepted, blurred>>

----------------------------------------------------------------------------
(* Login.                                                                  *)

Totp == "totp" \in env.calls
Right == env.login \/ (creator.hash # 0 /\ creator.file = creator.hash)
Pruned(attempts) == {a \in attempts : now - a.at < Period}
Near(step, distance) == IF step > now THEN step - now <= distance ELSE now - step <= distance

\* verifyTotpCode: the code of a step not used, at most one period away.
CodeOk(step) == Totp => Near(step, 1) /\ step \notin used

\* verifyCreatorLogin, up to its update: an attempt with the Creator's secret
\* (of the file or the environment) or without it, and the code of a step.
LoginRead(p) ==
    /\ "login" \in env.calls /\ boot.init /\ ~boot.revoked
    /\ lockedUntil <= now /\ (env.login \/ creator.hash # 0)
    /\ made.logins < MaxLogins /\ made' = [made EXCEPT !.logins = @ + 1]
    /\ \E knows \in BOOLEAN, step \in (IF Totp THEN {s \in Step : Near(s, 2)} ELSE {0}) :
          Begin(p, [Idle EXCEPT !.kind = "login", !.at = "verdict", !.attempt = made.logins + 1,
                                !.good = knows /\ Right /\ CodeOk(step), !.step = step, !.seen = failures])
    /\ UNCHANGED <<env, now, bootstrap, creator, login, sessions, closed, gone, guesses, accepted>>

RememberedNow(step) == Near(step, 0)    \* mutant: only the code of this moment
Remembered(step) == Near(step, KeepSteps)

LoginWrite(p) ==
    /\ At(p, "verdict") /\ op[p].good
    /\ failures' = {} /\ lockedUntil' = 0 /\ guesses' = {}
    /\ used' = IF Totp THEN {s \in used \cup {op[p].step} : Remembered(s)} ELSE used
    /\ accepted' = [accepted EXCEPT ![op[p].step] = IF Totp THEN @ + 1 ELSE @]
    /\ Goto(p, "session")
    /\ UNCHANGED <<env, now, bootstrap, creator, sessions, made, closed, gone, blurred>>

Locked(count) == count >= Threshold

Attempt(p) == [n |-> op[p].attempt, at |-> now]

\* The failures that were read, and this one; a lock that is not due is taken
\* off.
LoginRefuse(p) ==
    /\ At(p, "verdict") /\ ~op[p].good
    /\ failures' = Pruned(op[p].seen) \cup {Attempt(p)}
    /\ lockedUntil' = IF Locked(Cardinality(failures')) THEN now + Period ELSE 0
    /\ guesses' = guesses \cup {Attempt(p)}
    /\ Return(p)
    /\ UNCHANGED <<env, now, bootstrap, creator, used, sessions, made, closed, gone, accepted, blurred>>

----------------------------------------------------------------------------
(* Sessions.                                                               *)

\* createSession; it drops the oldest when the store holds too many.  Renewal
\* then revokes the session it replaces.
CreateSession(p) ==
    /\ At(p, "session")
    /\ LET s == made.sessions + 1 IN
       \/ /\ s \in Session
          /\ sessions' = [t \in Session |-> IF t = s THEN "live"
                                            ELSE IF sessions[t] # "none" /\ t + KeepSessions <= s THEN "dropped" ELSE sessions[t]]
          /\ made' = [made EXCEPT !.sessions = s]
       \/ s \notin Session /\ UNCHANGED <<sessions, made>>
    /\ IF op[p].kind = "sessions" THEN Goto(p, "forget") ELSE Return(p)
    /\ UNCHANGED <<env, now, bootstrap, creator, login, history>>

\* requireInitialized.
Open == ~boot.revoked /\ boot.init /\ root # 0 /\ delegated

Resolvable(s) == sessions[s] = "live"

\* resolveSession, up to its update: for a route behind the guard (serve), or
\* for the auth route, which asks the bootstrap state nothing (renew, logout).
Resolve(p, s, use) ==
    /\ "session" \in env.calls /\ Resolvable(s) /\ (use = "serve" => Open)
    /\ use = "renew" => made.sessions < MaxSessions
    /\ Begin(p, [Idle EXCEPT !.kind = "sessions", !.at = "touch", !.session = s, !.use = use])
    /\ UNCHANGED <<env, now, bootstrap, creator, login, sessions, made, closed, gone, guesses, accepted>>

\* Its update puts the session back as it was read.
Touch(p) ==
    /\ At(p, "touch")
    /\ sessions' = [sessions EXCEPT ![op[p].session] = IF @ = "dropped" THEN @ ELSE "live"]
    /\ CASE op[p].use = "serve" -> Return(p)
         [] op[p].use = "renew" -> Goto(p, "session")
         [] op[p].use = "logout" -> Goto(p, "forget")
    /\ UNCHANGED <<env, now, bootstrap, creator, login, made, history>>

\* revokeSession.
Forget(p) ==
    /\ At(p, "forget")
    /\ sessions' = [sessions EXCEPT ![op[p].session] = IF @ = "dropped" THEN @ ELSE "revoked"]
    /\ gone' = gone \cup {op[p].session} /\ Return(p)
    /\ UNCHANGED <<env, now, bootstrap, creator, login, made, closed, guesses, accepted, blurred>>

----------------------------------------------------------------------------
\* The eight hours are over; no handler is about to write the session back.
Expire(s) ==
    /\ sessions[s] = "live" /\ \A p \in Process : op[p] # Idle => op[p].kind # "sessions"
    /\ sessions' = [sessions EXCEPT ![s] = "over"]
    /\ UNCHANGED <<env, now, bootstrap, creator, login, op, made, history>>

\* No handler takes as long as a period.
Tick ==
    /\ now < MaxTime /\ \A p \in Process : op[p] = Idle
    /\ now' = now + 1
    /\ UNCHANGED <<env, bootstrap, creator, login, sessions, op, made, history>>

Crash(p) ==
    /\ op[p] # Idle /\ made.crashes < MaxCrashes
    /\ made' = [made EXCEPT !.crashes = @ + 1]
    /\ blurred' = blurred \cup {op[p].kind} \cup (IF op[p].at \in {"file", "hash"} THEN {"secret"} ELSE {})
    /\ Return(p)
    /\ UNCHANGED <<env, now, bootstrap, creator, login, sessions, closed, gone, guesses, accepted>>

Next ==
    \/ \E p \in Process :
          \/ Complete(p) \/ RotateRoot(p) \/ RevokeRoot(p) \/ SetRoot(p) \/ SetEdge(p) \/ Mark(p)
          \/ RecordRoot(p) \/ RecordRevocation(p) \/ RotateSecret(p) \/ WriteFile(p) \/ WriteHash(p)
          \/ LoginRead(p) \/ LoginWrite(p) \/ LoginRefuse(p) \/ CreateSession(p) \/ Touch(p) \/ Forget(p) \/ Crash(p)
          \/ \E s \in Session, use \in {"serve", "renew", "logout"} : Resolve(p, s, use)
    \/ (\E s \in Session : Expire(s)) \/ Tick

Spec == Init /\ [][Next]_vars

Symmetry == Permutations(Process)

----------------------------------------------------------------------------
(* Properties.                                                             *)

Busy(kind) == \E p \in Process : op[p] # Idle /\ op[p].kind = kind

\* A session that was logged out or renewed resolves no more, unless another
\* process was resolving it meanwhile and wrote it back (session.ts:79-83);
\* and once revokeRoot has returned the guard lets no request in, also when a
\* rotation sets a root authority afterwards (bootstrap.ts:179-213,
\* requireInitialized), unless two bootstraps at a time take that back.
ClosedForGood ==
    [][\A p \in Process : op[p] = Idle /\ op'[p] # Idle /\ op'[p].at = "touch" =>
          /\ op'[p].session \notin gone \/ "sessions" \in blurred
          /\ closed /\ op'[p].use = "serve" => "root" \in blurred]_vars

\* An initialized system has a secret the Creator can log in with, unless
\* bootstrap or rotation was cut off or ran twice at a time
\* (bootstrap.ts:152-161, initializeCreatorSecret).
LoginPrepared ==
    boot.init /\ ~Busy("root") /\ ~Busy("secret") /\ blurred \cap {"root", "secret"} = {} => Right

\* As long as logins do not overlap, for overlapping ones lose failures and used
\* codes: in the 15 minutes up to now no more than LOCKOUT_THRESHOLD attempts
\* failed without a good one in between, since the lock outlasts the failures it
\* counts (creator-auth.ts:157-159, 259-264); and a code of the second factor is
\* accepted once, since it is remembered until it is no longer valid
\* (creator-auth.ts:229, totp.ts:83-90).
LoginsBounded ==
    "login" \in blurred \/ (Cardinality(Pruned(guesses)) <= Threshold /\ \A s \in Step : accepted[s] <= 1)
==============================================================================
