-------------------------- MODULE CapabilityTokens --------------------------
(***************************************************************************)
(* Capability tokens and the authority graph of lib/authority.ts.          *)
(*                                                                         *)
(* Several processes share the store "authority".  A read followed by an   *)
(* update that does not look again is two steps: revokeCapabilityToken     *)
(* writes back the token it read, with the uses it had then (draft).  What *)
(* update decides inside its mutator, as consumeCapabilityToken does, is   *)
(* one step.                                                               *)
(*                                                                         *)
(* Token ids are numbers in the order of issue.  A capability set stands   *)
(* for what it covers, wildcards resolved; the edge of an id always has    *)
(* the same shape.                                                         *)
(***************************************************************************)
EXTENDS Naturals, FiniteSets

CONSTANTS
    Process,     \* server processes on one storage root
    MaxTokens,   \* bound on the tokens ever issued
    KeepTokens,  \* how many tokens the store keeps (1000 in the code)
    MaxUses,     \* MAX_TOKEN_USES
    Principal, Creator, Worker,  \* issuers and subjects; SYSTEM-WORKER
    Task, Capability,
    Edge, EdgeOf \* edge ids, and the shape of each

Risks == 0..4    \* riskRank
Token == 1..MaxTokens

ASSUME TokenAssumption ==
    /\ MaxTokens \in Nat /\ KeepTokens \in Nat \ {0} /\ MaxUses \in Nat
    /\ {Creator, Worker} \subseteq Principal /\ Task # {}
    /\ EdgeOf \in [Edge -> [from : Principal, to : Principal,
                            caps : SUBSET Capability, risk : Risks]]

VARIABLES
    edges,    \* state of each delegation edge
    tokens,   \* the token of each id, once issued
    revoked,  \* revokedTokens: survives the token itself
    life,     \* of each token: its lifetime
    draft,    \* of each process: the token it is about to write back
    begun     \* history: executions begun under each token

tokenVars == <<edges, tokens, revoked, life, draft, begun>>

NoToken == [listed |-> FALSE, subject |-> Creator, task |-> CHOOSE t \in Task : TRUE,
            caps |-> {}, risk |-> 0, max |-> 0, uses |-> 0, revoked |-> FALSE]
NoDraft == [token |-> 0, uses |-> 0]

TokenTypeOK ==
    /\ edges \in [Edge -> {"absent", "live", "revoked", "expired"}]
    /\ tokens \in [Token -> [listed : BOOLEAN, subject : Principal, task : Task,
                             caps : SUBSET Capability, risk : Risks, max : 0..MaxUses,
                             uses : 0..MaxUses, revoked : BOOLEAN]]
    /\ revoked \in SUBSET Token
    /\ life \in [Token -> {"unissued", "running", "over"}]
    /\ draft \in [Process -> [token : Token \cup {0}, uses : 0..MaxUses]]
    /\ begun \in [Token -> Nat]

TokenInit ==
    /\ edges = [e \in Edge |-> "absent"]
    /\ tokens = [t \in Token |-> NoToken]
    /\ revoked = {}
    /\ life = [t \in Token |-> "unissued"]
    /\ draft = [p \in Process |-> NoDraft]
    /\ begun = [t \in Token |-> 0]

----------------------------------------------------------------------------
(* The authority graph.                                                    *)

EdgesTo(principal) == {e \in Edge : edges[e] = "live" /\ EdgeOf[e].to = principal}

\* One edge must cover all capabilities, but the risk may come from another.
MayDelegate(principal, caps, risk) ==
    /\ \E e \in EdgesTo(principal) : caps \subseteq EdgeOf[e].caps
    /\ \E e \in EdgesTo(principal) : risk <= EdgeOf[e].risk

\* addAuthorityEdge.
AddEdge(e) ==
    /\ edges[e] = "absent"
    /\ EdgeOf[e].from # EdgeOf[e].to /\ EdgeOf[e].caps # {}
    /\ EdgeOf[e].from # Creator => MayDelegate(EdgeOf[e].from, EdgeOf[e].caps, EdgeOf[e].risk)
    /\ edges' = [edges EXCEPT ![e] = "live"]
    /\ UNCHANGED <<tokens, revoked, life, draft, begun>>

\* revokeAuthorityEdge: tokens and edges that rest on it stay.
RevokeEdge(e) ==
    /\ edges[e] # "absent"
    /\ edges' = [edges EXCEPT ![e] = "revoked"]
    /\ UNCHANGED <<tokens, revoked, life, draft, begun>>

----------------------------------------------------------------------------
(* Issue, reuse, consume, revoke.                                          *)

Issued == {t \in Token : life[t] # "unissued"}
Listed == {t \in Token : tokens[t].listed}

\* issueCapabilityToken: the oldest token goes when the store holds too many.
Issue(t, by, subject, task, caps, risk, max) ==
    /\ Issued = 1..(t - 1)
    /\ by # subject /\ caps # {} /\ max \in 1..MaxUses
    /\ by # Creator => MayDelegate(by, caps, risk)
    /\ tokens' = [u \in Token |->
           IF u = t THEN [listed |-> TRUE, subject |-> subject, task |-> task, caps |-> caps,
                          risk |-> risk, max |-> max, uses |-> 0, revoked |-> FALSE]
           ELSE IF u + KeepTokens <= t THEN [tokens[u] EXCEPT !.listed = FALSE]
           ELSE tokens[u]]
    /\ life' = [life EXCEPT ![t] = "running"]
    /\ UNCHANGED <<edges, revoked, draft, begun>>

\* evaluateCapabilityToken with checkUsage; ensureExecutionCapability hands
\* such a token out again before it issues another.
Valid(t, subject, task, caps, risk) ==
    /\ t \in Listed \ revoked /\ ~tokens[t].revoked
    /\ life[t] = "running"
    /\ caps \subseteq tokens[t].caps
    /\ tokens[t].subject = subject /\ tokens[t].task = task
    /\ risk <= tokens[t].risk
    /\ tokens[t].uses < tokens[t].max

\* Variants: the uses, or the revocation, are left to validateCapabilityToken.
CanConsumeUncounted(t) == t \in Listed \ revoked /\ ~tokens[t].revoked
CanConsumeRevoked(t) == t \in Listed /\ tokens[t].uses < tokens[t].max

\* Neither the expiry nor the bindings are looked at again.
CanConsume(t) == t \in Listed \ revoked /\ ~tokens[t].revoked /\ tokens[t].uses < tokens[t].max

\* consumeCapabilityToken.
Consume(t) ==
    /\ CanConsume(t)
    /\ tokens' = [tokens EXCEPT ![t].uses = @ + 1]
    /\ begun' = [begun EXCEPT ![t] = @ + 1]
    /\ UNCHANGED <<edges, revoked, life, draft>>

\* revokeCapabilityToken, up to its update.
RevokeRead(p, t) ==
    /\ draft[p] = NoDraft /\ t \in Listed
    /\ draft' = [draft EXCEPT ![p] = [token |-> t, uses |-> tokens[t].uses]]
    /\ UNCHANGED <<edges, tokens, revoked, life, begun>>

\* Its update.
RevokeWrite(p) ==
    /\ draft[p] # NoDraft
    /\ LET t == draft[p].token IN
       /\ tokens' = IF tokens[t].listed
                    THEN [tokens EXCEPT ![t].revoked = TRUE, ![t].uses = draft[p].uses]
                    ELSE tokens
       /\ revoked' = revoked \cup {t}
    /\ draft' = [draft EXCEPT ![p] = NoDraft]
    /\ UNCHANGED <<edges, life, begun>>

----------------------------------------------------------------------------
(* Time, and a killed process.                                             *)

TokenExpires(t) ==
    /\ life[t] = "running"
    /\ life' = [life EXCEPT ![t] = "over"]
    /\ UNCHANGED <<edges, tokens, revoked, draft, begun>>

EdgeExpires(e) ==
    /\ edges[e] = "live"
    /\ edges' = [edges EXCEPT ![e] = "expired"]
    /\ UNCHANGED <<tokens, revoked, life, draft, begun>>

TokenForget(p) ==
    /\ draft' = [draft EXCEPT ![p] = NoDraft]
    /\ UNCHANGED <<edges, tokens, revoked, life, begun>>

\* What any number of processes do to the store.
TokenNext ==
    \/ \E e \in Edge : AddEdge(e) \/ RevokeEdge(e) \/ EdgeExpires(e)
    \/ \E t \in Token, by, subject \in Principal, task \in Task, caps \in SUBSET Capability,
          risk \in Risks, max \in 1..MaxUses : Issue(t, by, subject, task, caps, risk, max)
    \/ \E t \in Token : Consume(t) \/ TokenExpires(t)
    \/ \E p \in Process : RevokeWrite(p) \/ TokenForget(p) \/ \E t \in Token : RevokeRead(p, t)

TokenSpec == TokenInit /\ [][TokenNext]_tokenVars

----------------------------------------------------------------------------
(* Properties.                                                             *)

\* No more executions begin under a token than it was granted, whatever
\* processes consume and revoke it at the same time and although a
\* revocation may take uses back (revokeCapabilityToken, consumeCapabilityToken).
NoOveruse == \A t \in Token : begun[t] <= tokens[t].max

\* Why: uses count the executions begun until the token is revoked, a draft is
\* never ahead of them, and what was revoked is never consumed again.
UsesHonest ==
    /\ \A t \in Token : /\ begun[t] <= tokens[t].max
                        /\ tokens[t].revoked \/ tokens[t].uses = begun[t]
                        /\ tokens[t].revoked => t \in revoked
                        /\ life[t] = "unissued" => ~tokens[t].listed /\ begun[t] = 0
    /\ \A p \in Process : draft[p].token \in Token => life[draft[p].token] # "unissued"

\* A revocation that has returned is final: nothing begins under the token any
\* more, also when it was dropped from the list in between.
RevokedForGood == [][\A t \in revoked : t \in revoked' /\ begun'[t] = begun[t]]_tokenVars
==============================================================================
