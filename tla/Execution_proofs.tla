-------------------------- MODULE Execution_proofs --------------------------
(***************************************************************************)
(* What is proved of the capability tokens and of the executions they      *)
(* authorize, for any number of processes, tokens, uses, delegations,      *)
(* tasks, agents, computers and approvals.                                 *)
(*                                                                         *)
(* 1. Tokens.  None is used more often than it was granted, and none after *)
(*    it was revoked.  A revocation may take uses back, so the uses alone  *)
(*    do not bound the executions begun; the invariant says why this does  *)
(*    no harm: the uses are wrong only on a token that is revoked.         *)
(* 2. Executions.  The broker, the gate and the Creator's commands change  *)
(*    the tokens by the operations of CapabilityTokens only: Execution     *)
(*    implements it, and what is proved of every TokenSpec carries over.   *)
(* 3. Governance.  While one process serves the Creator, what it has read  *)
(*    is what the store says, so that its switches, its decisions and the  *)
(*    stops it confirmed hold.                                             *)
(***************************************************************************)
EXTENDS Execution, TLAPS

----------------------------------------------------------------------------
(* Tokens.                                                                 *)

TokenRecord == [listed : BOOLEAN, subject : Principal, task : Task, caps : SUBSET Capability, risk : Risks,
                max : 0..MaxUses, uses : 0..MaxUses, revoked : BOOLEAN]

\* What holds of one token.
Honest(t) ==
    /\ begun[t] <= tokens[t].max
    /\ tokens[t].revoked \/ tokens[t].uses = begun[t]
    /\ tokens[t].revoked => t \in revoked
    /\ life[t] = "unissued" => ~tokens[t].listed /\ begun[t] = 0

Named == \A p \in Process : draft[p] # NoDraft => draft[p].token \in Token /\ life[draft[p].token] # "unissued"

IInv == TokenTypeOK /\ Named /\ \A t \in Token : Honest(t)

LEMMA InitHolds == TokenInit => IInv
<1> SUFFICES ASSUME TokenInit PROVE IInv
  OBVIOUS
<1> USE TokenAssumption
<1>1. NoToken \in TokenRecord
  <2>1. (CHOOSE t \in Task : TRUE) \in Task
    OBVIOUS
  <2>2. Creator \in Principal
    OBVIOUS
  <2>3. 0 \in Risks /\ 0 \in 0..MaxUses
    BY DEF Risks
  <2> QED BY <2>1, <2>2, <2>3 DEF NoToken, TokenRecord
<1>2. tokens \in [Token -> TokenRecord]
  BY <1>1 DEF TokenInit
<1>3. draft \in [Process -> [token : Token \cup {0}, uses : 0..MaxUses]]
  BY DEF TokenInit, NoDraft
<1>4. TokenTypeOK
  BY <1>2, <1>3 DEF TokenInit, TokenTypeOK, TokenRecord
<1>5. Named
  BY DEF TokenInit, Named
<1>6. \A t \in Token : Honest(t)
  BY DEF TokenInit, Honest, NoToken
<1> QED BY <1>4, <1>5, <1>6 DEF IInv

LEMMA IssueKeeps ==
    ASSUME IInv, NEW t \in Token, NEW by \in Principal, NEW subject \in Principal, NEW task \in Task,
           NEW caps \in SUBSET Capability, NEW risk \in Risks, NEW max \in 1..MaxUses,
           Issue(t, by, subject, task, caps, risk, max)
    PROVE  IInv'
<1> USE TokenAssumption
<1> DEFINE new == [listed |-> TRUE, subject |-> subject, task |-> task, caps |-> caps,
                   risk |-> risk, max |-> max, uses |-> 0, revoked |-> FALSE]
<1>1. tokens \in [Token -> TokenRecord] /\ life \in [Token -> {"unissued", "running", "over"}] /\ begun \in [Token -> Nat]
  BY DEF IInv, TokenTypeOK, TokenRecord
<1>2. life[t] = "unissued"
  <2>1. t \notin 1..(t - 1)
    BY DEF Token
  <2> QED BY <2>1 DEF Issue, Issued
<1>3. tokens' = [u \in Token |-> IF u = t THEN new
                                 ELSE IF u + KeepTokens <= t THEN [tokens[u] EXCEPT !.listed = FALSE]
                                 ELSE tokens[u]]
  BY DEF Issue
<1>4. new \in TokenRecord
  BY DEF TokenRecord
<1>5. ASSUME NEW u \in Token PROVE [tokens[u] EXCEPT !.listed = FALSE] \in TokenRecord
  <2>1. tokens[u] \in TokenRecord
    BY <1>1
  <2> QED BY <2>1 DEF TokenRecord
<1>6. tokens' \in [Token -> TokenRecord]
  <2> HIDE DEF new
  <2> QED BY <1>1, <1>3, <1>4, <1>5
<1>7. life' = [life EXCEPT ![t] = "running"] /\ life' \in [Token -> {"unissued", "running", "over"}]
  BY <1>1 DEF Issue
<1>8. revoked' = revoked /\ draft' = draft /\ begun' = begun /\ edges' = edges
  BY DEF Issue
<1>9. TokenTypeOK'
  BY <1>6, <1>7, <1>8 DEF IInv, TokenTypeOK, TokenRecord
<1>10. Named'
  BY <1>1, <1>7, <1>8 DEF IInv, Named
<1>11. ASSUME NEW u \in Token PROVE Honest(u)'
  <2>1. Honest(u)
    BY DEF IInv
  <2>2. CASE u = t
    <3>1. tokens'[u] = new /\ life'[u] = "running" /\ begun'[u] = 0
      BY <2>1, <2>2, <1>1, <1>2, <1>3, <1>7, <1>8 DEF Honest
    <3> QED BY <3>1 DEF Honest
  <2>3. CASE u # t
    <3>1. tokens'[u] \in {tokens[u], [tokens[u] EXCEPT !.listed = FALSE]}
      BY <2>3, <1>3
    <3>2. /\ tokens'[u].max = tokens[u].max /\ tokens'[u].uses = tokens[u].uses /\ tokens'[u].revoked = tokens[u].revoked
          /\ tokens[u].listed = FALSE => tokens'[u].listed = FALSE
      BY <3>1, <1>1 DEF TokenRecord
    <3>3. life'[u] = life[u]
      BY <2>3, <1>1, <1>7
    <3>4. tokens[u].listed \in BOOLEAN /\ tokens'[u].listed \in BOOLEAN
      BY <1>1, <1>6 DEF TokenRecord
    <3> QED BY <2>1, <3>2, <3>3, <3>4, <1>8 DEF Honest
  <2> QED BY <2>2, <2>3
<1> QED BY <1>9, <1>10, <1>11 DEF IInv

LEMMA ConsumeKeeps ==
    ASSUME IInv, NEW t \in Token, Consume(t)
    PROVE  IInv'
<1> USE TokenAssumption
<1>1. tokens \in [Token -> TokenRecord] /\ begun \in [Token -> Nat]
  BY DEF IInv, TokenTypeOK, TokenRecord
<1>2. /\ tokens[t].listed /\ t \notin revoked /\ ~tokens[t].revoked /\ tokens[t].uses < tokens[t].max
      /\ tokens' = [tokens EXCEPT ![t].uses = @ + 1] /\ begun' = [begun EXCEPT ![t] = @ + 1]
      /\ edges' = edges /\ revoked' = revoked /\ life' = life /\ draft' = draft
  BY DEF Consume, CanConsume, Listed
<1>3. tokens[t].uses \in 0..MaxUses /\ tokens[t].max \in 0..MaxUses
  BY <1>1 DEF TokenRecord
<1>4. tokens[t].uses + 1 \in 0..MaxUses
  BY <1>2, <1>3
<1>5. tokens'[t] = [tokens[t] EXCEPT !.uses = @ + 1] /\ \A u \in Token \ {t} : tokens'[u] = tokens[u]
  BY <1>1, <1>2
<1>6. [tokens[t] EXCEPT !.uses = @ + 1] \in TokenRecord
  BY <1>1, <1>4 DEF TokenRecord
<1>7. tokens' \in [Token -> TokenRecord]
  <2>1. tokens' = [tokens EXCEPT ![t] = [tokens[t] EXCEPT !.uses = @ + 1]]
    BY <1>2
  <2> QED BY <2>1, <1>1, <1>6
<1>8. begun' \in [Token -> Nat]
  BY <1>1, <1>2
<1>9. TokenTypeOK'
  BY <1>2, <1>7, <1>8 DEF IInv, TokenTypeOK, TokenRecord
<1>10. Named'
  BY <1>2 DEF IInv, Named
<1>11. ASSUME NEW u \in Token PROVE Honest(u)'
  <2>1. Honest(u)
    BY DEF IInv
  <2>2. CASE u = t
    <3>1. begun[t] = tokens[t].uses
      BY <1>2, <2>1, <2>2 DEF Honest
    <3>2. begun'[t] = begun[t] + 1
      BY <1>1, <1>2
    <3>3. tokens'[t].uses = tokens[t].uses + 1 /\ tokens'[t].max = tokens[t].max /\ tokens'[t].revoked = tokens[t].revoked
      BY <1>1, <1>5 DEF TokenRecord
    <3>4. begun'[t] <= tokens'[t].max
      BY <3>1, <3>2, <3>3, <1>2, <1>3
    <3>5. life[t] # "unissued"
      BY <2>1, <2>2, <1>2 DEF Honest
    <3> QED BY <2>2, <3>1, <3>2, <3>3, <3>4, <3>5, <1>2 DEF Honest
  <2>3. CASE u # t
    <3>1. tokens'[u] = tokens[u] /\ begun'[u] = begun[u]
      BY <2>3, <1>1, <1>2, <1>5
    <3> QED BY <3>1, <2>1, <1>2 DEF Honest
  <2> QED BY <2>2, <2>3
<1> QED BY <1>9, <1>10, <1>11 DEF IInv

LEMMA RevokeReadKeeps ==
    ASSUME IInv, NEW p \in Process, NEW t \in Token, RevokeRead(p, t)
    PROVE  IInv'
<1>1. tokens[t].uses \in 0..MaxUses /\ draft \in [Process -> [token : Token \cup {0}, uses : 0..MaxUses]]
  BY DEF IInv, TokenTypeOK
<1>2. /\ tokens[t].listed /\ draft' = [draft EXCEPT ![p] = [token |-> t, uses |-> tokens[t].uses]]
      /\ UNCHANGED <<edges, tokens, revoked, life, begun>>
  BY DEF RevokeRead, Listed
<1>3. draft' \in [Process -> [token : Token \cup {0}, uses : 0..MaxUses]]
  BY <1>1, <1>2
<1>4. TokenTypeOK'
  BY <1>2, <1>3 DEF IInv, TokenTypeOK
<1>5. life[t] # "unissued"
  BY <1>2 DEF IInv, Honest
<1>6. Named'
  <2> SUFFICES ASSUME NEW q \in Process, draft'[q] # NoDraft
               PROVE  draft'[q].token \in Token /\ life'[draft'[q].token] # "unissued"
    BY DEF Named
  <2>1. CASE q = p
    BY <2>1, <1>1, <1>2, <1>5
  <2>2. CASE q # p
    <3>1. draft'[q] = draft[q]
      BY <2>2, <1>1, <1>2
    <3> QED BY <3>1, <1>2 DEF IInv, Named
  <2> QED BY <2>1, <2>2
<1>7. ASSUME NEW u \in Token PROVE Honest(u)'
  BY <1>2 DEF IInv, Honest
<1> QED BY <1>4, <1>6, <1>7 DEF IInv

LEMMA ForgetKeeps ==
    ASSUME IInv, NEW p \in Process, TokenForget(p)
    PROVE  IInv'
<1> USE TokenAssumption
<1>1. draft \in [Process -> [token : Token \cup {0}, uses : 0..MaxUses]]
  BY DEF IInv, TokenTypeOK
<1>2. draft' = [draft EXCEPT ![p] = NoDraft] /\ UNCHANGED <<edges, tokens, revoked, life, begun>>
  BY DEF TokenForget
<1>3. NoDraft \in [token : Token \cup {0}, uses : 0..MaxUses]
  BY DEF NoDraft
<1>4. TokenTypeOK'
  BY <1>1, <1>2, <1>3 DEF IInv, TokenTypeOK
<1>5. Named'
  <2> SUFFICES ASSUME NEW q \in Process, draft'[q] # NoDraft
               PROVE  draft'[q].token \in Token /\ life'[draft'[q].token] # "unissued"
    BY DEF Named
  <2>1. draft'[q] = draft[q]
    BY <1>1, <1>2
  <2> QED BY <2>1, <1>2 DEF IInv, Named
<1>6. ASSUME NEW u \in Token PROVE Honest(u)'
  BY <1>2 DEF IInv, Honest
<1> QED BY <1>4, <1>5, <1>6 DEF IInv

LEMMA RevokeWriteKeeps ==
    ASSUME IInv, NEW p \in Process, RevokeWrite(p)
    PROVE  IInv'
<1> USE TokenAssumption
<1> DEFINE t == draft[p].token
           new == [tokens[t] EXCEPT !.revoked = TRUE, !.uses = draft[p].uses]
<1>1. tokens \in [Token -> TokenRecord] /\ draft \in [Process -> [token : Token \cup {0}, uses : 0..MaxUses]]
  BY DEF IInv, TokenTypeOK, TokenRecord
<1>2. t \in Token
  BY DEF RevokeWrite, IInv, Named
<1>3. /\ tokens' = IF tokens[t].listed THEN [tokens EXCEPT ![t] = new] ELSE tokens
      /\ revoked' = revoked \cup {t} /\ draft' = [draft EXCEPT ![p] = NoDraft]
      /\ edges' = edges /\ life' = life /\ begun' = begun
  BY DEF RevokeWrite
<1>4. tokens[t] \in TokenRecord /\ draft[p].uses \in 0..MaxUses
  BY <1>1, <1>2
<1>5. new \in TokenRecord /\ new.revoked = TRUE /\ new.max = tokens[t].max /\ new.listed = tokens[t].listed
  BY <1>4 DEF TokenRecord
<1> HIDE DEF t, new
<1>6. tokens' \in [Token -> TokenRecord]
  BY <1>1, <1>2, <1>3, <1>5
<1>7. NoDraft \in [token : Token \cup {0}, uses : 0..MaxUses]
  BY DEF NoDraft
<1>8. TokenTypeOK'
  BY <1>1, <1>2, <1>3, <1>6, <1>7 DEF IInv, TokenTypeOK, TokenRecord
<1>9. Named'
  <2> SUFFICES ASSUME NEW q \in Process, draft'[q] # NoDraft
               PROVE  draft'[q].token \in Token /\ life'[draft'[q].token] # "unissued"
    BY DEF Named
  <2>1. draft'[q] = draft[q]
    BY <1>1, <1>3
  <2> QED BY <2>1, <1>3 DEF IInv, Named
<1>10. ASSUME NEW u \in Token PROVE Honest(u)'
  <2>1. Honest(u)
    BY DEF IInv
  <2>2. CASE tokens'[u] = tokens[u]
    BY <2>1, <2>2, <1>3 DEF Honest
  <2>3. CASE tokens'[u] # tokens[u]
    <3>1. u = t /\ tokens'[u] = new
      BY <2>3, <1>1, <1>3
    <3> QED BY <3>1, <2>1, <1>3, <1>5 DEF Honest
  <2> QED BY <2>2, <2>3
<1> QED BY <1>8, <1>9, <1>10 DEF IInv

\* The remaining steps touch neither a token nor a draft.
LEMMA EdgesKeep ==
    ASSUME IInv, NEW e \in Edge, AddEdge(e) \/ RevokeEdge(e) \/ EdgeExpires(e)
    PROVE  IInv'
<1>1. edges \in [Edge -> {"absent", "live", "revoked", "expired"}]
  BY DEF IInv, TokenTypeOK
<1>2. UNCHANGED <<tokens, revoked, life, draft, begun>>
  BY DEF AddEdge, RevokeEdge, EdgeExpires
<1>3. edges' \in [Edge -> {"absent", "live", "revoked", "expired"}]
  BY <1>1 DEF AddEdge, RevokeEdge, EdgeExpires
<1>4. TokenTypeOK'
  BY <1>2, <1>3 DEF IInv, TokenTypeOK
<1>5. Named' /\ \A u \in Token : Honest(u)'
  BY <1>2 DEF IInv, Named, Honest
<1> QED BY <1>4, <1>5 DEF IInv

LEMMA ExpiryKeeps ==
    ASSUME IInv, NEW t \in Token, TokenExpires(t)
    PROVE  IInv'
<1>1. life \in [Token -> {"unissued", "running", "over"}]
  BY DEF IInv, TokenTypeOK
<1>2. /\ life[t] = "running" /\ life' = [life EXCEPT ![t] = "over"]
      /\ UNCHANGED <<edges, tokens, revoked, draft, begun>>
  BY DEF TokenExpires
<1>3. TokenTypeOK'
  BY <1>1, <1>2 DEF IInv, TokenTypeOK
<1>4. \A u \in Token : life'[u] = "unissued" <=> life[u] = "unissued"
  BY <1>1, <1>2
<1>5. Named'
  BY <1>2, <1>4 DEF IInv, Named
<1>6. \A u \in Token : Honest(u)'
  BY <1>2, <1>4 DEF IInv, Honest
<1> QED BY <1>3, <1>5, <1>6 DEF IInv

LEMMA StutterKeeps == IInv /\ UNCHANGED tokenVars => IInv'
BY DEF IInv, TokenTypeOK, Named, Honest, tokenVars

LEMMA TokenStepKeeps == IInv /\ [TokenNext]_tokenVars => IInv'
<1> SUFFICES ASSUME IInv, TokenNext PROVE IInv'
  BY StutterKeeps
<1>1. CASE \E e \in Edge : AddEdge(e) \/ RevokeEdge(e) \/ EdgeExpires(e)
  BY <1>1, EdgesKeep
<1>2. CASE \E t \in Token, by, subject \in Principal, task \in Task, caps \in SUBSET Capability,
              risk \in Risks, max \in 1..MaxUses : Issue(t, by, subject, task, caps, risk, max)
  BY <1>2, IssueKeeps
<1>3. CASE \E t \in Token : Consume(t) \/ TokenExpires(t)
  BY <1>3, ConsumeKeeps, ExpiryKeeps
<1>4. CASE \E p \in Process : RevokeWrite(p) \/ TokenForget(p) \/ \E t \in Token : RevokeRead(p, t)
  BY <1>4, RevokeWriteKeeps, ForgetKeeps, RevokeReadKeeps
<1> QED BY <1>1, <1>2, <1>3, <1>4 DEF TokenNext

\* What every step keeps: the types, the drafts, and the uses of each token.
THEOREM TokensHonest == TokenSpec => []IInv
<1>1. TokenInit => IInv
  BY InitHolds
<1>2. IInv /\ [TokenNext]_tokenVars => IInv'
  BY TokenStepKeeps
<1> QED BY <1>1, <1>2, PTL DEF TokenSpec

\* No more executions begin under a token than it was granted
\* (consumeCapabilityToken against revokeCapabilityToken).
THEOREM NeverOverused == TokenSpec => []NoOveruse
<1>1. IInv => NoOveruse
  BY DEF IInv, Honest, NoOveruse
<1> QED BY <1>1, TokensHonest, PTL

LEMMA RevocationStands ==
    ASSUME IInv, [TokenNext]_tokenVars, NEW t \in revoked
    PROVE  t \in revoked' /\ begun'[t] = begun[t]
<1>1. t \in Token /\ begun \in [Token -> Nat]
  BY DEF IInv, TokenTypeOK
<1>2. CASE \E e \in Edge : AddEdge(e) \/ RevokeEdge(e) \/ EdgeExpires(e)
  BY <1>2 DEF AddEdge, RevokeEdge, EdgeExpires
<1>3. ASSUME NEW u \in Token, NEW by \in Principal, NEW subject \in Principal, NEW task \in Task,
             NEW caps \in SUBSET Capability, NEW risk \in Risks, NEW max \in 1..MaxUses,
             Issue(u, by, subject, task, caps, risk, max)
      PROVE  t \in revoked' /\ begun'[t] = begun[t]
  BY <1>3 DEF Issue
<1>4. ASSUME NEW u \in Token, Consume(u) PROVE t \in revoked' /\ begun'[t] = begun[t]
  <2>1. u # t /\ begun' = [begun EXCEPT ![u] = @ + 1] /\ revoked' = revoked
    BY <1>4 DEF Consume, CanConsume
  <2> QED BY <2>1, <1>1
<1>5. ASSUME NEW u \in Token, TokenExpires(u) PROVE t \in revoked' /\ begun'[t] = begun[t]
  BY <1>5 DEF TokenExpires
<1>6. CASE \E p \in Process : RevokeWrite(p) \/ TokenForget(p) \/ \E u \in Token : RevokeRead(p, u)
  BY <1>6 DEF RevokeWrite, TokenForget, RevokeRead
<1>7. CASE UNCHANGED tokenVars
  BY <1>7 DEF tokenVars
<1> QED BY <1>2, <1>3, <1>4, <1>5, <1>6, <1>7 DEF TokenNext

\* A revocation that has returned is final (revokeCapabilityToken, revokedTokens).
THEOREM RevocationFinal == TokenSpec => RevokedForGood
<1>1. IInv /\ [TokenNext]_tokenVars => [\A t \in revoked : t \in revoked' /\ begun'[t] = begun[t]]_tokenVars
  BY RevocationStands
<1> QED BY <1>1, TokensHonest, PTL DEF TokenSpec, RevokedForGood

----------------------------------------------------------------------------
(* Executions.                                                             *)

LEMMA IssueIsTokenStep ==
    ASSUME NEW t \in Token, NEW by \in Principal, NEW task \in Task, NEW max \in 1..MaxUses,
           Issue(t, by, AssignedTo[task], task, Capability, 1, max)
    PROVE  TokenNext
<1>1. AssignedTo[task] \in Principal
  BY ExecutionAssumption
<1>2. 1 \in Risks /\ Capability \in SUBSET Capability
  BY DEF Risks
<1>3. \E u \in Token, b, subject \in Principal, k \in Task, caps \in SUBSET Capability,
         risk \in Risks, m \in 1..MaxUses : Issue(u, b, subject, k, caps, risk, m)
  BY <1>1, <1>2
<1> QED BY <1>3 DEF TokenNext

\* One step of the system is one of the tokens, or leaves them alone.
LEMMA ExecStepIsTokenStep == [ExecNext]_vars => [TokenNext]_tokenVars
<1> SUFFICES ASSUME ExecNext PROVE TokenNext \/ UNCHANGED tokenVars
  BY DEF vars
<1>1. ASSUME NEW p \in Process,
             SwitchWrite(p) \/ DelegationWrite(p) \/ ResolveWrite(p) \/ Replayed(p)
      PROVE  UNCHANGED tokenVars
  BY <1>1 DEF SwitchWrite, DelegationWrite, ResolveWrite, Replayed
<1>2. ASSUME NEW p \in Process, RevokeTokenWrite(p) PROVE TokenNext
  BY <1>2 DEF RevokeTokenWrite, TokenNext
<1>3. ASSUME NEW p \in Process, Begin(p) PROVE TokenNext
  <2>1. Consume(thread[p].token)
    BY <1>3 DEF Begin
  <2>2. thread[p].token \in Token
    BY <2>1 DEF Consume, CanConsume, Listed
  <2> QED BY <2>1, <2>2 DEF TokenNext
<1>4. ASSUME NEW p \in Process, Restart(p) PROVE TokenNext
  BY <1>4 DEF Restart, TokenNext
<1>5. ASSUME NEW p \in Process, NEW b \in BOOLEAN, SetLockdown(p, b) \/ \E s \in Switch : SwitchRead(p, s, b)
      PROVE  UNCHANGED tokenVars
  BY <1>5 DEF SetLockdown, SwitchRead
<1>6. ASSUME NEW p \in Process, \/ \E d \in Delegation : DelegationRead(p, d)
                                \/ \E a \in CentreId, status \in {"GRANTED", "DENIED"} : ResolveRead(p, a, status)
                                \/ \E a \in ControlId : ResolveControl(p, a)
      PROVE  UNCHANGED tokenVars
  BY <1>6 DEF DelegationRead, ResolveRead, ResolveControl
<1>7. ASSUME NEW p \in Process, NEW c \in Computer,
             \/ StartComputer(p, c) \/ ReleaseComputer(p, c)
             \/ \E b \in BOOLEAN : AuthorizeComputer(p, c, b)
             \/ \E task \in Task : AllocateComputer(p, c, task)
      PROVE  UNCHANGED tokenVars
  BY <1>7 DEF StartComputer, ReleaseComputer, AuthorizeComputer, AllocateComputer
<1>8. ASSUME NEW p \in Process, NEW e \in Edge, Delegate(p, e) PROVE TokenNext
  BY <1>8 DEF Delegate, TokenNext
<1>9. ASSUME NEW p \in Process, NEW t \in Token, RevokeTokenRead(p, t) PROVE TokenNext
  BY <1>9 DEF RevokeTokenRead, TokenNext
<1>10. ASSUME NEW p \in Process, NEW t \in Token, NEW task \in Task,
              \/ EnsureCapability(p, t, task) \/ SystemCapability(p, t, task)
              \/ \E max \in 1..MaxUses : CreatorIssues(p, t, task, max)
       PROVE  TokenNext
  <2>1. Creator \in Principal /\ Worker \in Principal
    BY TokenAssumption
  <2>2. CASE EnsureCapability(p, t, task) \/ SystemCapability(p, t, task)
    <3>1. Issue(t, Worker, AssignedTo[task], task, Capability, 1, 1)
      BY <2>2 DEF EnsureCapability, SystemCapability
    <3>2. 1 \in 1..MaxUses
      BY <3>1 DEF Issue
    <3> QED BY <2>1, <3>1, <3>2, IssueIsTokenStep
  <2>3. CASE \E max \in 1..MaxUses : CreatorIssues(p, t, task, max)
    BY <2>1, <2>3, IssueIsTokenStep DEF CreatorIssues
  <2> QED BY <1>10, <2>2, <2>3
<1>11. ASSUME NEW p \in Process, NEW t \in Token,
              \E task \in Task, a \in CentreId \cup ControlId \cup {None}, c \in Computer \cup {None} :
                  Authorize(p, t, task, Capability, 1, a, c)
       PROVE  UNCHANGED tokenVars
  BY <1>11 DEF Authorize
<1>12. ASSUME \E r \in running, ok \in BOOLEAN : Finish(r, ok) PROVE UNCHANGED tokenVars
  BY <1>12 DEF Finish
<1>13. ASSUME \E t \in Token : TokenExpires(t) /\ UNCHANGED execVars PROVE TokenNext
  BY <1>13 DEF TokenNext
<1> QED
  BY <1>1, <1>2, <1>3, <1>4, <1>5, <1>6, <1>7, <1>8, <1>9, <1>10, <1>11, <1>12, <1>13 DEF ExecNext

\* Everything that executes goes by the tokens (execution-broker.ts over
\* authority.ts).
THEOREM ExecutionUsesTokens == ExecSpec => TokenSpec
<1>1. ExecInit => TokenInit
  BY DEF ExecInit
<1> QED BY <1>1, ExecStepIsTokenStep, PTL DEF ExecSpec, TokenSpec

\* No more executions begin under a token than it was granted, whatever the
\* Creator, the worker and other processes do in between.
THEOREM ExecutionsCounted == ExecSpec => []NoOveruse
BY ExecutionUsesTokens, NeverOverused, PTL

\* Nothing begins under a token whose revocation has returned.
THEOREM ExecutionsEndWithRevocation == ExecSpec => RevokedForGood
BY ExecutionUsesTokens, RevocationFinal, PTL
----------------------------------------------------------------------------
(* The Creator's word: switches, stops and decisions, as long as one        *)
(* process serves it.                                                       *)

Payload == [on : SUBSET Switch, delegations : SUBSET Delegation]
Decision == {"PENDING", "GRANTED", "DENIED"}
Thread ==
    {Free} \cup [at : {"switch"}, payload : Payload, s : Switch, on : BOOLEAN]
           \cup [at : {"delegation"}, payload : Payload]
           \cup [at : {"resolve"}, payload : [CentreId -> Decision]]
           \cup [at : {"authorized"}, token : Token, task : Task, computer : Computer \cup {None}]

GovernanceTyped ==
    /\ governance \in Payload /\ centre \in [CentreId -> Decision]
    /\ plane \in [Process -> [locked : BOOLEAN, granted : SUBSET ControlId]]
    /\ control \in [locked : BOOLEAN, granted : SUBSET ControlId]
    /\ thread \in [Process -> Thread] /\ pressed \in SUBSET Switch

\* What a process is in the middle of rests on what the stores still say.
Current(p) ==
    /\ thread[p].at = "switch" => thread[p].payload = WithSwitch(governance, thread[p].s, thread[p].on)
    /\ thread[p].at = "delegation" => thread[p].payload.on = governance.on
    /\ thread[p].at = "resolve" => \A a \in CentreId : centre[a] # "PENDING" => thread[p].payload[a] = centre[a]
    /\ thread[p].at \in {"switch", "delegation", "resolve"} => p \in Governing
    /\ thread[p].at = "authorized" /\ p \in Governing => ~plane[p].locked /\ ~Killed(thread[p].task)

GovernanceInv == GovernanceTyped /\ SwitchesHold /\ \A p \in Process : Current(p)

Sole == \A p, q \in Governing : p = q

LEMMA GovernanceBegins == ExecInit => GovernanceInv
<1> SUFFICES ASSUME ExecInit PROVE GovernanceInv
  OBVIOUS
<1>1. Free \in Thread
  BY DEF Thread
<1>2. GovernanceTyped
  BY <1>1 DEF ExecInit, GovernanceTyped, Payload, Decision
<1>3. SwitchesHold
  BY DEF ExecInit, SwitchesHold
<1>4. \A p \in Process : Current(p)
  BY DEF ExecInit, Current, Free
<1> QED BY <1>2, <1>3, <1>4 DEF GovernanceInv

\* A step that leaves the stores alone and gives up at most one thread.
LEMMA GivesUp ==
    ASSUME GovernanceInv, UNCHANGED <<governance, centre, plane, control, pressed>>, NEW p \in Process,
           thread' = thread \/ thread' = [thread EXCEPT ![p] = Free]
    PROVE  GovernanceInv'
<1> USE DEF GovernanceInv
<1>1. \A q \in Process : thread'[q] = thread[q] \/ thread'[q] = Free
  BY DEF GovernanceTyped
<1>2. thread' \in [Process -> Thread]
  BY DEF GovernanceTyped, Thread
<1>3. GovernanceTyped'
  BY <1>2 DEF GovernanceTyped
<1>4. SwitchesHold'
  BY DEF SwitchesHold
<1>5. ASSUME NEW q \in Process PROVE Current(q)'
  <2>1. CASE thread'[q] = Free
    BY <2>1 DEF Current, Free
  <2>2. CASE thread'[q] = thread[q]
    BY <2>2 DEF Current, WithSwitch, Killed
  <2> QED BY <1>1, <2>1, <2>2
<1> QED BY <1>3, <1>4, <1>5

\* A process starts something: what it found is so.
LEMMA TakesUp ==
    ASSUME GovernanceInv, UNCHANGED <<governance, centre, plane, control, pressed>>, NEW p \in Process,
           NEW new \in Thread, thread' = [thread EXCEPT ![p] = new], Current(p)'
    PROVE  GovernanceInv'
<1> USE DEF GovernanceInv
<1>1. GovernanceTyped'
  BY DEF GovernanceTyped
<1>2. SwitchesHold'
  BY DEF SwitchesHold
<1>3. ASSUME NEW q \in Process, q # p PROVE Current(q)'
  <2>1. thread'[q] = thread[q]
    BY <1>3 DEF GovernanceTyped
  <2> QED BY <2>1 DEF Current, WithSwitch, Killed
<1> QED BY <1>1, <1>2, <1>3

LEMMA ReadsKeep ==
    ASSUME GovernanceInv, NEW p \in Process,
           \/ \E s \in Switch, on \in BOOLEAN : SwitchRead(p, s, on)
           \/ \E d \in Delegation : DelegationRead(p, d)
           \/ \E a \in CentreId, status \in {"GRANTED", "DENIED"} : ResolveRead(p, a, status)
    PROVE  GovernanceInv'
<1> USE DEF GovernanceInv
<1>1. p \in Governing /\ governance \in Payload /\ centre \in [CentreId -> Decision] /\ thread \in [Process -> Thread]
  BY DEF SwitchRead, DelegationRead, ResolveRead, Command, Admitted, GovernanceTyped
<1>2. ASSUME NEW s \in Switch, NEW on \in BOOLEAN, SwitchRead(p, s, on) PROVE GovernanceInv'
  <2> DEFINE new == [at |-> "switch", payload |-> WithSwitch(governance, s, on), s |-> s, on |-> on]
  <2>1. WithSwitch(governance, s, on) \in Payload
    BY <1>1 DEF WithSwitch, Payload
  <2>2. new \in Thread
    BY <2>1 DEF Thread
  <2>3. thread' = [thread EXCEPT ![p] = new] /\ UNCHANGED <<governance, centre, plane, control, pressed>>
    BY <1>2 DEF SwitchRead
  <2>4. thread'[p] = new
    BY <1>1, <2>3
  <2>5. Current(p)'
    BY <1>1, <2>3, <2>4 DEF Current, WithSwitch
  <2> QED BY <2>2, <2>3, <2>5, TakesUp
<1>3. ASSUME NEW d \in Delegation, DelegationRead(p, d) PROVE GovernanceInv'
  <2> DEFINE new == [at |-> "delegation", payload |-> [governance EXCEPT !.delegations = @ \ {d}]]
  <2>1. [governance EXCEPT !.delegations = @ \ {d}] \in Payload /\ new.payload.on = governance.on
    BY <1>1 DEF Payload
  <2>2. new \in Thread
    BY <2>1 DEF Thread
  <2>3. thread' = [thread EXCEPT ![p] = new] /\ UNCHANGED <<governance, centre, plane, control, pressed>>
    BY <1>3 DEF DelegationRead
  <2>4. thread'[p] = new
    BY <1>1, <2>3
  <2>5. Current(p)'
    BY <1>1, <2>1, <2>3, <2>4 DEF Current
  <2> QED BY <2>2, <2>3, <2>5, TakesUp
<1>4. ASSUME NEW a \in CentreId, NEW status \in {"GRANTED", "DENIED"}, ResolveRead(p, a, status) PROVE GovernanceInv'
  <2> DEFINE new == [at |-> "resolve", payload |-> [centre EXCEPT ![a] = status]]
  <2>1. /\ [centre EXCEPT ![a] = status] \in [CentreId -> Decision]
        /\ \A b \in CentreId : centre[b] # "PENDING" => new.payload[b] = centre[b]
    BY <1>1, <1>4 DEF Decision, ResolveRead
  <2>2. new \in Thread
    BY <2>1 DEF Thread
  <2>3. thread' = [thread EXCEPT ![p] = new] /\ UNCHANGED <<governance, centre, plane, control, pressed>>
    BY <1>4 DEF ResolveRead
  <2>4. thread'[p] = new
    BY <1>1, <2>3
  <2>5. Current(p)'
    BY <1>1, <2>1, <2>3, <2>4 DEF Current
  <2> QED BY <2>2, <2>3, <2>5, TakesUp
<1> QED BY <1>2, <1>3, <1>4

\* The gate was open, and stays so while the process has the thread.
LEMMA AuthorizeKeeps ==
    ASSUME GovernanceInv, NEW p \in Process, NEW t \in Token, NEW task \in Task, NEW a, NEW c \in Computer \cup {None},
           Authorize(p, t, task, Capability, 1, a, c)
    PROVE  GovernanceInv'
<1> DEFINE new == [at |-> "authorized", token |-> t, task |-> task, computer |-> c]
<1>1. new \in Thread
  BY DEF Thread
<1>2. thread' = [thread EXCEPT ![p] = new] /\ UNCHANGED <<governance, centre, plane, control, pressed>>
  BY DEF Authorize
<1>3. thread'[p] = new
  BY <1>2 DEF GovernanceInv, GovernanceTyped
<1>4. ~plane[p].locked /\ ~Killed(task)
  BY DEF Authorize, Authorized, GateOpen
<1>5. Current(p)'
  BY <1>2, <1>3, <1>4 DEF Current, Killed
<1> QED BY <1>1, <1>2, <1>5, TakesUp

\* A command that writes the control state: its process is in the middle of
\* nothing, and no other one governs.
LEMMA ControlKeeps ==
    ASSUME Sole, GovernanceInv, NEW p \in Process, Admitted(p), UNCHANGED <<governance, centre, thread, pressed>>,
           NEW state \in [locked : BOOLEAN, granted : SUBSET ControlId], SetControl(p, state)
    PROVE  GovernanceInv'
<1> USE DEF GovernanceInv
<1>1. GovernanceTyped'
  BY DEF GovernanceTyped, SetControl
<1>2. SwitchesHold'
  BY DEF SwitchesHold
<1>3. ASSUME NEW q \in Process PROVE Current(q)'
  <2>1. CASE q = p
    BY <2>1 DEF Current, Admitted, Idle, Free
  <2>2. CASE q # p
    <3>1. plane'[q] = plane[q] /\ q \notin Governing
      BY <2>2 DEF Sole, Admitted, SetControl, GovernanceTyped
    <3> QED BY <3>1 DEF Current
  <2> QED BY <2>1, <2>2
<1> QED BY <1>1, <1>2, <1>3

\* A write puts back what nobody changed meanwhile, but for the change.
LEMMA WritesKeep ==
    ASSUME Sole, GovernanceInv, NEW p \in Process, SwitchWrite(p) \/ DelegationWrite(p) \/ ResolveWrite(p)
    PROVE  GovernanceInv' /\ \A a \in CentreId : centre[a] # "PENDING" => centre'[a] = centre[a]
<1> USE DEF GovernanceInv
<1>1. /\ thread[p] \in Thread /\ p \in Governing /\ Current(p)
      /\ thread' = [thread EXCEPT ![p] = Free] /\ UNCHANGED <<plane, control>>
  BY DEF SwitchWrite, DelegationWrite, ResolveWrite, GovernanceTyped, Current
<1>2. thread' \in [Process -> Thread] /\ thread'[p] = Free
  BY <1>1 DEF GovernanceTyped, Thread
<1>3. ASSUME NEW q \in Process PROVE Current(q)'
  <2>1. CASE q = p
    BY <1>2, <2>1 DEF Current, Free
  <2>2. CASE q # p
    <3>1. q \notin Governing /\ thread'[q] = thread[q]
      BY <1>1, <2>2 DEF Sole, GovernanceTyped
    <3> QED BY <3>1 DEF Current
  <2> QED BY <2>1, <2>2
<1>4. CASE SwitchWrite(p)
  <2> DEFINE w == thread[p]
  <2>1. w.at = "switch" /\ governance' = w.payload /\ UNCHANGED centre
    BY <1>4 DEF SwitchWrite
  <2>2. w.payload \in Payload /\ w.s \in Switch /\ w.on \in BOOLEAN
    BY <1>1, <2>1 DEF Thread, Free
  <2>3. pressed' = IF w.on THEN pressed \cup {w.s} ELSE pressed \ {w.s}
    BY <1>4 DEF SwitchWrite
  <2>4. governance'.on = IF w.on THEN governance.on \cup {w.s} ELSE governance.on \ {w.s}
    BY <1>1, <2>1, <2>2 DEF Current, WithSwitch, GovernanceTyped, Payload
  <2>5. SwitchesHold'
    BY <2>2, <2>3, <2>4 DEF SwitchesHold
  <2>6. GovernanceTyped'
    BY <1>1, <1>2, <2>1, <2>2, <2>3 DEF GovernanceTyped
  <2> QED BY <1>3, <2>1, <2>5, <2>6
<1>5. CASE DelegationWrite(p)
  <2>1. thread[p].at = "delegation" /\ governance' = thread[p].payload /\ UNCHANGED <<centre, pressed>>
    BY <1>5 DEF DelegationWrite
  <2>2. thread[p].payload \in Payload /\ thread[p].payload.on = governance.on
    BY <1>1, <2>1 DEF Thread, Free, Current
  <2>3. SwitchesHold'
    BY <2>1, <2>2 DEF SwitchesHold
  <2>4. GovernanceTyped'
    BY <1>1, <1>2, <2>1, <2>2 DEF GovernanceTyped
  <2> QED BY <1>3, <2>1, <2>3, <2>4
<1>6. CASE ResolveWrite(p)
  <2>1. thread[p].at = "resolve" /\ centre' = thread[p].payload /\ UNCHANGED <<governance, pressed>>
    BY <1>6 DEF ResolveWrite
  <2>2. thread[p].payload \in [CentreId -> Decision] /\ \A a \in CentreId : centre[a] # "PENDING" => centre'[a] = centre[a]
    BY <1>1, <2>1 DEF Thread, Free, Current
  <2>3. SwitchesHold'
    BY <2>1 DEF SwitchesHold
  <2>4. GovernanceTyped'
    BY <1>1, <1>2, <2>1, <2>2 DEF GovernanceTyped
  <2> QED BY <1>3, <2>2, <2>3, <2>4
<1> QED BY <1>4, <1>5, <1>6

LEMMA RestartKeeps ==
    ASSUME GovernanceInv, NEW p \in Process, Restart(p)
    PROVE  GovernanceInv'
<1> USE DEF GovernanceInv
<1>1. /\ UNCHANGED <<control, governance, centre, pressed>> /\ thread' = [thread EXCEPT ![p] = Free]
      /\ plane' = [plane EXCEPT ![p] = control]
  BY DEF Restart
<1>2. thread' \in [Process -> Thread] /\ thread'[p] = Free
  BY <1>1 DEF GovernanceTyped, Thread
<1>3. GovernanceTyped'
  BY <1>1, <1>2 DEF GovernanceTyped
<1>4. SwitchesHold'
  BY <1>1 DEF SwitchesHold
<1>5. ASSUME NEW q \in Process PROVE Current(q)'
  <2>1. CASE q = p
    BY <1>2, <2>1 DEF Current, Free
  <2>2. CASE q # p
    <3>1. thread'[q] = thread[q] /\ plane'[q] = plane[q]
      BY <1>1, <2>2 DEF GovernanceTyped
    <3> QED BY <1>1, <3>1 DEF Current, WithSwitch, Killed
  <2> QED BY <2>1, <2>2
<1> QED BY <1>3, <1>4, <1>5

\* What every other step leaves alone.
LEMMA OthersKeep ==
    ASSUME GovernanceInv, UNCHANGED <<control, plane, governance, centre, thread, pressed>>
    PROVE  GovernanceInv'
BY DEF GovernanceInv, GovernanceTyped, SwitchesHold, Current, WithSwitch, Killed

LEMMA GovernanceStep ==
    ASSUME Sole, GovernanceInv, [ExecNext]_vars
    PROVE  GovernanceInv' /\ \A a \in CentreId : centre[a] # "PENDING" => centre'[a] = centre[a]
<1>0. SUFFICES ASSUME ExecNext
               PROVE  GovernanceInv' /\ \A a \in CentreId : centre[a] # "PENDING" => centre'[a] = centre[a]
  BY OthersKeep DEF vars, execVars
<1>1. ASSUME NEW p \in Process, SwitchWrite(p) \/ DelegationWrite(p) \/ ResolveWrite(p)
      PROVE  GovernanceInv' /\ \A a \in CentreId : centre[a] # "PENDING" => centre'[a] = centre[a]
  BY <1>1, WritesKeep
<1>2. ASSUME NEW p \in Process, RevokeTokenWrite(p) PROVE GovernanceInv' /\ centre' = centre
  BY <1>2, OthersKeep DEF RevokeTokenWrite, execVars
<1>3. ASSUME NEW p \in Process, Begin(p) \/ Replayed(p) PROVE GovernanceInv' /\ centre' = centre
  BY <1>3, GivesUp DEF Begin, Replayed
<1>4. ASSUME NEW p \in Process, Restart(p) PROVE GovernanceInv' /\ centre' = centre
  BY <1>4, RestartKeeps DEF Restart
<1>5. ASSUME NEW p \in Process, NEW b \in BOOLEAN, SetLockdown(p, b) PROVE GovernanceInv' /\ centre' = centre
  <2>1. [plane[p] EXCEPT !.locked = b] \in [locked : BOOLEAN, granted : SUBSET ControlId]
    BY DEF GovernanceInv, GovernanceTyped
  <2> QED BY <1>5, <2>1, ControlKeeps DEF SetLockdown, Command
<1>6. ASSUME NEW p \in Process, \/ \E s \in Switch, on \in BOOLEAN : SwitchRead(p, s, on)
                                \/ \E d \in Delegation : DelegationRead(p, d)
                                \/ \E a \in CentreId, status \in {"GRANTED", "DENIED"} : ResolveRead(p, a, status)
      PROVE  GovernanceInv' /\ centre' = centre
  BY <1>6, ReadsKeep DEF SwitchRead, DelegationRead, ResolveRead
<1>7. ASSUME NEW p \in Process, NEW a \in ControlId, ResolveControl(p, a) PROVE GovernanceInv' /\ centre' = centre
  <2>1. [plane[p] EXCEPT !.granted = @ \cup {a}] \in [locked : BOOLEAN, granted : SUBSET ControlId]
    BY DEF GovernanceInv, GovernanceTyped
  <2> QED BY <1>7, <2>1, ControlKeeps DEF ResolveControl, Command
<1>8. ASSUME NEW p \in Process, NEW c \in Computer,
             \/ StartComputer(p, c) \/ ReleaseComputer(p, c)
             \/ \E b \in BOOLEAN : AuthorizeComputer(p, c, b)
             \/ \E task \in Task : AllocateComputer(p, c, task)
      PROVE  GovernanceInv' /\ centre' = centre
  BY <1>8, OthersKeep DEF StartComputer, ReleaseComputer, AuthorizeComputer, AllocateComputer
<1>9. ASSUME NEW p \in Process, NEW e \in Edge, Delegate(p, e) PROVE GovernanceInv' /\ centre' = centre
  BY <1>9, OthersKeep DEF Delegate
<1>10. ASSUME NEW p \in Process, NEW t \in Token,
              \/ RevokeTokenRead(p, t)
              \/ \E task \in Task : \/ EnsureCapability(p, t, task) \/ SystemCapability(p, t, task)
                                    \/ \E max \in 1..MaxUses : CreatorIssues(p, t, task, max)
       PROVE  GovernanceInv' /\ centre' = centre
  BY <1>10, OthersKeep DEF RevokeTokenRead, EnsureCapability, SystemCapability, CreatorIssues, execVars
<1>11. ASSUME NEW p \in Process, NEW t \in Token,
              \E task \in Task, a \in CentreId \cup ControlId \cup {None}, c \in Computer \cup {None} :
                  Authorize(p, t, task, Capability, 1, a, c)
       PROVE  GovernanceInv' /\ centre' = centre
  BY <1>11, AuthorizeKeeps DEF Authorize
<1>12. ASSUME \E r \in running, ok \in BOOLEAN : Finish(r, ok) PROVE GovernanceInv' /\ centre' = centre
  BY <1>12, OthersKeep DEF Finish
<1>13. ASSUME \E t \in Token : TokenExpires(t) /\ UNCHANGED execVars PROVE GovernanceInv' /\ centre' = centre
  BY <1>13, OthersKeep DEF execVars
<1> QED
  BY <1>0, <1>1, <1>2, <1>3, <1>4, <1>5, <1>6, <1>7, <1>8, <1>9, <1>10, <1>11, <1>12, <1>13 DEF ExecNext

LEMMA GovernanceSound == ASSUME Sole PROVE ExecSpec => []GovernanceInv
<1>1. GovernanceInv /\ [ExecNext]_vars => GovernanceInv'
  BY GovernanceStep
<1> QED BY <1>1, GovernanceBegins, PTL DEF ExecSpec

\* A pressed switch stays on until it is released (governance.ts:12), for any
\* number of processes of which one serves the Creator.
THEOREM SwitchesStay == ASSUME Sole PROVE ExecSpec => []SwitchesHold
<1>1. GovernanceInv => SwitchesHold
  BY DEF GovernanceInv
<1> QED BY <1>1, GovernanceSound, PTL

\* A decision on an approval is never taken back (approvals.ts:15), while one
\* process takes them.
THEOREM DecisionsStay == ASSUME Sole PROVE ExecSpec => DecisionsFinal
<1>1. GovernanceInv /\ [ExecNext]_vars => [\A a \in CentreId : centre[a] # "PENDING" => centre'[a] = centre[a]]_vars
  BY GovernanceStep
<1> QED BY <1>1, GovernanceSound, PTL DEF ExecSpec, DecisionsFinal

\* Only Begin starts a command, and what the gate saw still holds then.
LEMMA BeginsOpen ==
    ASSUME GovernanceInv, ExecNext, NEW p \in Governing, NEW r \in Begins(p)
    PROVE  ~plane[p].locked /\ {"SYSTEM", r.task, AssignedTo[r.task]} \cap pressed = {}
<1>1. r \in running' /\ r \notin running /\ r.by = p
  BY DEF Begins
<1>2. \E q \in Process : Begin(q)
  <2>1. ASSUME NEW q \in Process, \/ SwitchWrite(q) \/ DelegationWrite(q) \/ ResolveWrite(q) \/ Replayed(q)
                                  \/ \E b \in BOOLEAN : SetLockdown(q, b) \/ \E s \in Switch : SwitchRead(q, s, b)
                                  \/ \E d \in Delegation : DelegationRead(q, d)
                                  \/ \E a \in CentreId, status \in {"GRANTED", "DENIED"} : ResolveRead(q, a, status)
                                  \/ \E a \in ControlId : ResolveControl(q, a)
        PROVE  FALSE
    BY <1>1, <2>1 DEF SwitchWrite, DelegationWrite, ResolveWrite, Replayed, SetLockdown, SwitchRead, DelegationRead,
                      ResolveRead, ResolveControl
  <2>2. ASSUME NEW q \in Process, RevokeTokenWrite(q) \/ \E e \in Edge : Delegate(q, e) PROVE FALSE
    BY <1>1, <2>2 DEF RevokeTokenWrite, Delegate, execVars
  <2>3. ASSUME NEW q \in Process, NEW c \in Computer,
               \/ StartComputer(q, c) \/ ReleaseComputer(q, c)
               \/ \E b \in BOOLEAN : AuthorizeComputer(q, c, b)
               \/ \E task \in Task : AllocateComputer(q, c, task)
        PROVE  FALSE
    BY <1>1, <2>3 DEF StartComputer, ReleaseComputer, AuthorizeComputer, AllocateComputer
  <2>4. ASSUME NEW q \in Process, NEW t \in Token,
               \/ RevokeTokenRead(q, t)
               \/ \E task \in Task : \/ EnsureCapability(q, t, task) \/ SystemCapability(q, t, task)
                                     \/ \E max \in 1..MaxUses : CreatorIssues(q, t, task, max)
               \/ \E task \in Task, a \in CentreId \cup ControlId \cup {None}, c \in Computer \cup {None} :
                     Authorize(q, t, task, Capability, 1, a, c)
        PROVE  FALSE
    BY <1>1, <2>4 DEF RevokeTokenRead, EnsureCapability, SystemCapability, CreatorIssues, Authorize, execVars
  <2>5. ASSUME NEW q \in Process, Restart(q) PROVE FALSE
    BY <1>1, <2>5 DEF Restart
  <2>6. ASSUME \E s \in running, ok \in BOOLEAN : Finish(s, ok) PROVE FALSE
    BY <1>1, <2>6 DEF Finish
  <2>7. ASSUME \E t \in Token : TokenExpires(t) /\ UNCHANGED execVars PROVE FALSE
    BY <1>1, <2>7 DEF execVars
  <2> QED BY <2>1, <2>2, <2>3, <2>4, <2>5, <2>6, <2>7 DEF ExecNext
<1>3. PICK q \in Process : Begin(q)
  BY <1>2
<1>4. r = Run(q) /\ q = p /\ thread[q].at = "authorized"
  BY <1>1, <1>3 DEF Begin, Run
<1>5. Current(q) /\ SwitchesHold
  BY DEF GovernanceInv
<1>6. ~plane[p].locked /\ ~Killed(r.task)
  BY <1>4, <1>5 DEF Current, Run
<1> QED BY <1>5, <1>6 DEF Killed, SwitchesHold

\* Nothing begins in the process that serves the Creator once it has confirmed
\* a lockdown or a kill switch (execution-broker.ts:391): nothing can close the
\* gate between the check and the start.
THEOREM StopsHold == ASSUME Sole PROVE ExecSpec => StopHolds
<1>1. GovernanceInv /\ [ExecNext]_vars =>
        [\A p \in Governing : \A r \in Begins(p) :
            ~plane[p].locked /\ {"SYSTEM", r.task, AssignedTo[r.task]} \cap pressed = {}]_vars
  BY BeginsOpen
<1> QED BY <1>1, GovernanceSound, PTL DEF ExecSpec, StopHolds
==============
