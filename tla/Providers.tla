----------------------------- MODULE Providers -----------------------------
(***************************************************************************)
(* The provider fabric (provider-fabric.ts) and its route                  *)
(* (app/api/providers/route.ts).                                           *)
(*                                                                         *)
(* A call is synchronous, but it goes to the store several times, and      *)
(* between two of its accesses another process may go there, or the        *)
(* process may end.  mutate() reads the whole payload and writes it whole; *)
(* bindings are added and deactivated by update().                         *)
(*                                                                         *)
(* Of the bindings of a provider remains whether one is active; approvals, *)
(* capabilities, telemetry and the limit of 500 are left out.  EVALUATING, *)
(* AUTHORIZED and CONNECTING are like DISCOVERED to this code.             *)
(***************************************************************************)
EXTENDS Sequences, Naturals, TLC

CONSTANTS
    Process,
    Provider,
    MaxCalls    \* bound

VARIABLES
    fabric,     \* the store "providers": of each provider its lifecycle, whether it is enabled and bound
    request,    \* of each process the call under way: what is left to do, and what mutate() has read
    calls,
    overlapped  \* history: two processes had a call under way at the same time

vars == <<fabric, request, calls, overlapped>>

Lifecycle == {"DISCOVERED", "CONNECTED", "DEGRADED", "BLOCKED", "DISCONNECTED", "REVOKED"}
Nothing == <<>>
Idle == [id |-> "none", todo |-> <<>>, to |-> "none", read |-> Nothing]

Init ==
    /\ fabric = [id \in Provider |-> [life |-> "DISCOVERED", enabled |-> FALSE, bound |-> FALSE]]
    /\ request = [p \in Process |-> Idle]
    /\ calls = 0 /\ overlapped = FALSE

\* A call on provider id begins: what it has still to do, and the lifecycle it
\* leads to.
Begin(p, id, todo, to) ==
    /\ calls < MaxCalls /\ request[p] = Idle
    /\ calls' = calls + 1
    /\ request' = [request EXCEPT ![p] = [Idle EXCEPT !.id = id, !.todo = todo, !.to = to]]
    /\ overlapped' = (overlapped \/ \E q \in Process : request[q] # Idle)
    /\ UNCHANGED fabric

Connect(p, id) == fabric[id].life # "REVOKED" /\ Begin(p, id, <<"enable", "state">>, "CONNECTED")

\* disconnectProvider and revokeProvider.
WithdrawalReversed == <<"disable", "deactivate", "state">>    \* mutant: the bindings are deactivated last
Withdrawal == <<"deactivate", "disable", "state">>
Withdraw(p, id, to) == Begin(p, id, Withdrawal, to)

SetState(p, id, to) == Begin(p, id, <<"state">>, to)
Heartbeat(p, id, health) == Begin(p, id, <<"heartbeat">>, health)
Bind(p, id) == fabric[id].enabled /\ fabric[id].life = "CONNECTED" /\ Begin(p, id, <<"bind">>, "none")

----------------------------------------------------------------------------
Left(p) == request[p].todo # <<>>
Step(p) == Head(request[p].todo)
Done(p) ==
    LET rest == Tail(request[p].todo) IN
    request' = [request EXCEPT ![p] = IF rest = <<>> THEN Idle ELSE [@ EXCEPT !.todo = rest, !.read = Nothing]]

\* update(): the payload is read and written under the lock.
Update(p) ==
    /\ Left(p) /\ Step(p) \in {"deactivate", "bind"}
    /\ fabric' = [fabric EXCEPT ![request[p].id].bound = Step(p) = "bind"]
    /\ Done(p)
    /\ UNCHANGED <<calls, overlapped>>

Healed(life, health) ==
    CASE health = "HEALTHY" /\ life \notin {"REVOKED", "DISCONNECTED"} -> "CONNECTED"
      [] health = "DEGRADED" /\ life = "CONNECTED" -> "DEGRADED"
      [] health = "UNHEALTHY" /\ life \notin {"REVOKED", "DISCONNECTED"} -> "BLOCKED"
      [] OTHER -> life

Changed(provider, step, to) ==
    CASE step = "enable" -> [provider EXCEPT !.life = to, !.enabled = TRUE]
      [] step = "disable" -> [provider EXCEPT !.life = to, !.enabled = FALSE]
      [] step = "state" -> [provider EXCEPT !.life = to]
      [] step = "heartbeat" -> [provider EXCEPT !.life = Healed(@, to)]

\* mutate().
Mutates(p) == Left(p) /\ Step(p) \notin {"deactivate", "bind"}
MutateRead(p) ==
    /\ Mutates(p) /\ request[p].read = Nothing
    /\ request' = [request EXCEPT ![p].read = fabric]
    /\ UNCHANGED <<fabric, calls, overlapped>>
MutateWrite(p) ==
    /\ Mutates(p) /\ request[p].read # Nothing
    /\ fabric' = [request[p].read EXCEPT ![request[p].id] = Changed(@, Step(p), request[p].to)]
    /\ Done(p)
    /\ UNCHANGED <<calls, overlapped>>

\* The process ends in the middle of a call.
Crash(p) ==
    /\ request[p] # Idle
    /\ request' = [request EXCEPT ![p] = Idle]
    /\ UNCHANGED <<fabric, calls, overlapped>>

Next ==
    \E p \in Process :
       \/ Update(p) \/ MutateRead(p) \/ MutateWrite(p) \/ Crash(p)
       \/ \E id \in Provider :
             \/ Connect(p, id) \/ Bind(p, id)
             \/ \E to \in {"DISCONNECTED", "REVOKED"} : Withdraw(p, id, to)
             \/ \E to \in Lifecycle : SetState(p, id, to)
             \/ \E health \in {"HEALTHY", "DEGRADED", "UNHEALTHY"} : Heartbeat(p, id, health)

Spec == Init /\ [][Next]_vars

Symmetry == Permutations(Process) \cup Permutations(Provider)

----------------------------------------------------------------------------
(* Properties.                                                             *)

\* A provider that is not enabled has no active binding
\* (provider-fabric.ts:100,169-188): in whatever order it is connected, bound,
\* disconnected and revoked, and wherever a process ends in the middle of it,
\* unless the calls of two processes overlapped.
BoundIsEnabled == overlapped \/ \A id \in Provider : fabric[id].bound => fabric[id].enabled
=============================================================================
