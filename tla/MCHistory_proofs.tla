--------------------------- MODULE MCHistory_proofs ---------------------------
(***************************************************************************)
(* Records, isolation, apps, offline mode and incidents: an inductive      *)
(* invariant of each, for any processes, bounds of retention, modules and  *)
(* tests, and what follows from those of the last four when they move      *)
(* beside each other.                                                      *)
(***************************************************************************)
EXTENDS MCHistory, FiniteSetTheorems, WellFoundedInduction, TLAPS

----------------------------------------------------------------------------
(* Records.  What the accesses ahead of a process keep to, and what the logs  *)
(* and the logs that were read keep to.                                       *)

ANode == {"none", "long", "event", "artifact", "item", "run", "sandbox", "workshop", "output"} \X Nat
Access(n) == [do : {"append"}, by : {"observe"}, cause : 0..n, parent : {FALSE}]
             \cup [do : {"append"}, by : {"workshop"}, cause : 0..n, parent : BOOLEAN]
             \cup [do : {"node"}, id : ANode] \cup [do : {"edge"}, from : ANode, to : ANode]
             \cup [do : {"audit"}, named : BOOLEAN]
             \cup [do : {"artifact", "notify", "repairEvents", "repairAudit"}] \cup [do : {"resolve"}, item : Nat]
Openers == {"resolve", "repairEvents", "repairAudit"}

Named(a) == a.do = "audit" /\ a.named = TRUE

\* The audit record of the last event comes before the next event.
Pends(s) == \E j \in DOMAIN s : Named(s[j]) /\ \A k \in 1..j : s[k].do # "append"

\* Every event of observe is followed by its audit record.
Closes(s) ==
    \A i \in DOMAIN s : s[i].do = "append" /\ s[i].by = "observe" =>
       \E j \in DOMAIN s : j > i /\ Named(s[j]) /\ \A k \in (i + 1)..j : s[k].do # "append"

NoAppend(s) == \A i \in DOMAIN s : s[i].do # "append"
Unnamed(s, g) == \A i \in DOMAIN s : i > Len(s) - g => ~Named(s[i])
Follows(s, n) == s \in Seq(Access(n)) /\ Closes(s) /\ \A i \in DOMAIN s : s[i].do \notin Openers

\* Sequences, one after the other.
LEMMA Joined ==
    ASSUME NEW S, NEW s \in Seq(S), NEW t \in Seq(S)
    PROVE  /\ s \o t \in Seq(S) /\ Len(s \o t) = Len(s) + Len(t) /\ Len(s) \in Nat /\ Len(t) \in Nat
           /\ \A i \in DOMAIN s : i \in DOMAIN (s \o t) /\ (s \o t)[i] = s[i]
           /\ \A i \in DOMAIN t : Len(s) + i \in DOMAIN (s \o t) /\ (s \o t)[Len(s) + i] = t[i]
           /\ \A i \in DOMAIN (s \o t) : i \in DOMAIN s \/ (i > Len(s) /\ i - Len(s) \in DOMAIN t /\ (s \o t)[i] = t[i - Len(s)])
           /\ DOMAIN s = 1..Len(s) /\ DOMAIN t = 1..Len(t) /\ DOMAIN (s \o t) = 1..(Len(s) + Len(t))
OBVIOUS

LEMMA Tailed ==
    ASSUME NEW S, NEW s \in Seq(S), s # <<>>
    PROVE  /\ Tail(s) \in Seq(S) /\ Len(Tail(s)) = Len(s) - 1 /\ Len(s) \in Nat \ {0}
           /\ DOMAIN s = 1..Len(s) /\ DOMAIN Tail(s) = 1..(Len(s) - 1)
           /\ \A i \in DOMAIN Tail(s) : Tail(s)[i] = s[i + 1]
           /\ Head(s) = s[1] /\ s[1] \in S
OBVIOUS

LEMMA AccessWiden == ASSUME NEW n \in Nat PROVE \A s : s \in Seq(Access(n)) => s \in Seq(Access(n + 1))
<1>1. 0..n \subseteq 0..(n + 1)
  OBVIOUS
<1>2. Access(n) \subseteq Access(n + 1)
  BY <1>1 DEF Access
<1> QED BY <1>2

LEMMA ClosesJoined ==
    ASSUME NEW n, NEW s \in Seq(Access(n)), NEW t \in Seq(Access(n)), Closes(s), Closes(t)
    PROVE  Closes(s \o t)
<1> DEFINE u == s \o t
<1>1. /\ Len(s) \in Nat /\ Len(t) \in Nat
      /\ DOMAIN s = 1..Len(s) /\ DOMAIN t = 1..Len(t) /\ DOMAIN u = 1..(Len(s) + Len(t))
      /\ \A i \in DOMAIN s : u[i] = s[i]
      /\ \A i \in DOMAIN t : u[Len(s) + i] = t[i]
      /\ \A i \in DOMAIN u : i \in DOMAIN s \/ (i > Len(s) /\ i - Len(s) \in DOMAIN t /\ u[i] = t[i - Len(s)])
  BY Joined
<1> HIDE DEF u
<1>2. ASSUME NEW i \in DOMAIN u, u[i].do = "append", u[i].by = "observe"
      PROVE  \E j \in DOMAIN u : j > i /\ Named(u[j]) /\ \A k \in (i + 1)..j : u[k].do # "append"
  <2>1. CASE i \in DOMAIN s
    <3>1. PICK j \in DOMAIN s : j > i /\ Named(s[j]) /\ \A k \in (i + 1)..j : s[k].do # "append"
      BY <1>1, <1>2, <2>1 DEF Closes
    <3>2. j \in DOMAIN u /\ \A k \in (i + 1)..j : k \in DOMAIN s
      BY <1>1, <2>1
    <3> QED BY <1>1, <3>1, <3>2
  <2>2. CASE i \notin DOMAIN s
    <3>1. i \in Nat /\ i > Len(s) /\ i - Len(s) \in DOMAIN t /\ u[i] = t[i - Len(s)]
      BY <1>1, <2>2
    <3>2. PICK j \in DOMAIN t : j > i - Len(s) /\ Named(t[j]) /\ \A k \in (i - Len(s) + 1)..j : t[k].do # "append"
      BY <1>2, <3>1 DEF Closes
    <3>3. Len(s) + j \in DOMAIN u /\ Len(s) + j > i /\ u[Len(s) + j] = t[j]
      BY <1>1, <3>1, <3>2
    <3>4. ASSUME NEW k \in (i + 1)..(Len(s) + j) PROVE u[k].do # "append"
      <4>1. k \in DOMAIN u /\ k \notin DOMAIN s /\ k - Len(s) \in (i - Len(s) + 1)..j
        BY <1>1, <3>1, <3>2
      <4>2. u[k] = t[k - Len(s)]
        BY <1>1, <4>1
      <4> QED BY <3>2, <4>1, <4>2
    <3> QED BY <3>2, <3>3, <3>4
  <2> QED BY <2>1, <2>2
<1> QED BY <1>2 DEF Closes, u

LEMMA FollowsJoined ==
    ASSUME NEW n, NEW s, NEW t, Follows(s, n), Follows(t, n)
    PROVE  Follows(s \o t, n)
<1>1. s \in Seq(Access(n)) /\ t \in Seq(Access(n))
  BY DEF Follows
<1>2. Closes(s \o t)
  BY <1>1, ClosesJoined DEF Follows
<1>3. s \o t \in Seq(Access(n)) /\ \A i \in DOMAIN (s \o t) : (s \o t)[i].do \notin Openers
  BY <1>1, Joined DEF Follows
<1> QED BY <1>2, <1>3 DEF Follows

LEMMA NoAppendJoined ==
    ASSUME NEW n, NEW s \in Seq(Access(n)), NEW t \in Seq(Access(n)), NoAppend(s), NoAppend(t)
    PROVE  NoAppend(s \o t)
BY Joined DEF NoAppend

LEMMA UnnamedJoined ==
    ASSUME NEW n, NEW s \in Seq(Access(n)), NEW t \in Seq(Access(n)), NEW g \in Nat, Unnamed(s, g), Unnamed(t, Len(t))
    PROVE  Unnamed(s \o t, g + Len(t))
<1> DEFINE u == s \o t
<1>1. /\ Len(s) \in Nat /\ Len(t) \in Nat /\ Len(u) = Len(s) + Len(t)
      /\ DOMAIN s = 1..Len(s) /\ DOMAIN t = 1..Len(t) /\ DOMAIN u = 1..(Len(s) + Len(t))
      /\ \A i \in DOMAIN s : u[i] = s[i]
      /\ \A i \in DOMAIN u : i \in DOMAIN s \/ (i > Len(s) /\ i - Len(s) \in DOMAIN t /\ u[i] = t[i - Len(s)])
  BY Joined
<1> HIDE DEF u
<1>2. ASSUME NEW i \in DOMAIN u, i > Len(u) - (g + Len(t)) PROVE ~Named(u[i])
  <2>1. CASE i \in DOMAIN s
    <3>1. i > Len(s) - g
      BY <1>1, <1>2, <2>1
    <3> QED BY <1>1, <2>1, <3>1 DEF Unnamed
  <2>2. CASE i \notin DOMAIN s
    <3>1. i - Len(s) \in DOMAIN t /\ u[i] = t[i - Len(s)] /\ i - Len(s) > Len(t) - Len(t)
      BY <1>1, <2>2
    <3> QED BY <3>1 DEF Unnamed
  <2> QED BY <2>1, <2>2
<1> QED BY <1>2 DEF Unnamed, u

\* What is left of a program after its first access.
LEMMA ClosesTail ==
    ASSUME NEW n, NEW s \in Seq(Access(n)), s # <<>>, Closes(s)
    PROVE  /\ Closes(Tail(s))
           /\ s[1].do = "append" /\ s[1].by = "observe" => Pends(Tail(s))
           /\ Pends(s) => s[1].do # "append" /\ (Named(s[1]) \/ Pends(Tail(s)))
<1> DEFINE t == Tail(s)
           m == Len(s)
<1>1. /\ m \in Nat \ {0} /\ DOMAIN s = 1..m /\ DOMAIN t = 1..(m - 1) /\ \A i \in DOMAIN t : t[i] = s[i + 1]
  BY Tailed
<1> HIDE DEF t, m
<1>2. Closes(t)
  <2> SUFFICES ASSUME NEW i \in DOMAIN t, t[i].do = "append", t[i].by = "observe"
               PROVE  \E j \in DOMAIN t : j > i /\ Named(t[j]) /\ \A k \in (i + 1)..j : t[k].do # "append"
    BY DEF Closes
  <2>1. i + 1 \in DOMAIN s /\ s[i + 1] = t[i] /\ i \in Nat
    BY <1>1
  <2>2. PICK j \in DOMAIN s : j > i + 1 /\ Named(s[j]) /\ \A k \in (i + 2)..j : s[k].do # "append"
    BY <2>1 DEF Closes
  <2>3. j - 1 \in DOMAIN t /\ j - 1 > i /\ t[j - 1] = s[j]
    BY <1>1, <2>1, <2>2
  <2>4. ASSUME NEW k \in (i + 1)..(j - 1) PROVE t[k].do # "append"
    <3>1. k \in DOMAIN t /\ k + 1 \in (i + 2)..j
      BY <1>1, <2>1, <2>2
    <3> QED BY <1>1, <2>2, <3>1
  <2> QED BY <2>2, <2>3, <2>4
<1>3. ASSUME s[1].do = "append", s[1].by = "observe" PROVE Pends(t)
  <2>1. 1 \in DOMAIN s
    BY <1>1
  <2>2. PICK j \in DOMAIN s : j > 1 /\ Named(s[j]) /\ \A k \in (1 + 1)..j : s[k].do # "append"
    BY <1>3, <2>1 DEF Closes
  <2>3. j - 1 \in DOMAIN t /\ t[j - 1] = s[j]
    BY <1>1, <2>2
  <2>4. ASSUME NEW k \in 1..(j - 1) PROVE t[k].do # "append"
    <3>1. k \in DOMAIN t /\ k + 1 \in (1 + 1)..j
      BY <1>1, <2>2
    <3> QED BY <1>1, <2>2, <3>1
  <2> QED BY <2>2, <2>3, <2>4 DEF Pends
<1>4. ASSUME Pends(s) PROVE s[1].do # "append" /\ (Named(s[1]) \/ Pends(t))
  <2>1. PICK j \in DOMAIN s : Named(s[j]) /\ \A k \in 1..j : s[k].do # "append"
    BY <1>4 DEF Pends
  <2>2. j \in Nat /\ 1 \in 1..j
    BY <1>1
  <2>3. CASE j = 1
    BY <2>1, <2>2, <2>3
  <2>4. CASE j # 1
    <3>1. j - 1 \in DOMAIN t /\ t[j - 1] = s[j]
      BY <1>1, <2>2, <2>4
    <3>2. ASSUME NEW k \in 1..(j - 1) PROVE t[k].do # "append"
      <4>1. k \in DOMAIN t /\ k + 1 \in 1..j
        BY <1>1, <2>2
      <4> QED BY <1>1, <2>1, <4>1
    <3>3. Pends(t)
      BY <2>1, <3>1, <3>2 DEF Pends
    <3> QED BY <2>1, <2>2, <3>3
  <2> QED BY <2>3, <2>4
<1> QED BY <1>2, <1>3, <1>4 DEF t

----------------------------------------------------------------------------
\* What the programs are made of.
LEMMA Single ==
    ASSUME NEW n, NEW a \in Access(n)
    PROVE  /\ <<a>> \in Seq(Access(n)) /\ Len(<<a>>) = 1 /\ DOMAIN <<a>> = {1} /\ <<a>>[1] = a
           /\ a.do # "append" => NoAppend(<<a>>) /\ Closes(<<a>>)
           /\ ~Named(a) => Unnamed(<<a>>, 1)
           /\ a.do # "append" /\ a.do \notin Openers => Follows(<<a>>, n)
<1>1. <<a>> \in Seq(Access(n)) /\ Len(<<a>>) = 1 /\ DOMAIN <<a>> = {1} /\ <<a>>[1] = a
  OBVIOUS
<1> HIDE DEF Access
<1>2. a.do # "append" => NoAppend(<<a>>) /\ Closes(<<a>>)
  BY <1>1 DEF NoAppend, Closes
<1>3. ~Named(a) => Unnamed(<<a>>, 1)
  BY <1>1 DEF Unnamed
<1>4. a.do # "append" /\ a.do \notin Openers => Follows(<<a>>, n)
  BY <1>1, <1>2 DEF Follows
<1> QED BY <1>1, <1>2, <1>3, <1>4

Quiet(s, n) == Follows(s, n) /\ NoAppend(s)

LEMMA QuietJoined == ASSUME NEW n, NEW s, NEW t, Quiet(s, n), Quiet(t, n) PROVE Quiet(s \o t, n)
BY FollowsJoined, NoAppendJoined DEF Quiet, Follows

LEMMA Pieces ==
    ASSUME NEW n
    PROVE  /\ Quiet(<<>>, n)
           /\ \A a \in ANode : Quiet(Node(a), n) /\ Len(Node(a)) = 1 /\ Unnamed(Node(a), 1)
           /\ \A a, b \in ANode : Quiet(Edge(a, b), n) /\ Len(Edge(a, b)) = 1 /\ Unnamed(Edge(a, b), 1)
           /\ \A b \in BOOLEAN : Quiet(Audit(b), n) /\ Len(Audit(b)) = 1
           /\ Unnamed(Audit(FALSE), 1)
           /\ \A w \in {"artifact", "notify"} : Quiet(Do(w), n) /\ Len(Do(w)) = 1 /\ Unnamed(Do(w), 1)
<1>1. Quiet(<<>>, n)
  BY DEF Quiet, Follows, NoAppend, Closes
<1>2. ASSUME NEW a \in ANode PROVE Quiet(Node(a), n) /\ Len(Node(a)) = 1 /\ Unnamed(Node(a), 1)
  <2> DEFINE x == [do |-> "node", id |-> a]
  <2>1. x \in Access(n) /\ x.do \notin Openers /\ x.do # "append" /\ ~Named(x)
    BY DEF Access, Openers, Named
  <2> HIDE DEF x
  <2>2. Node(a) = <<x>>
    BY DEF Node, x
  <2> QED BY <2>1, <2>2, Single DEF Quiet
<1>3. ASSUME NEW a \in ANode, NEW b \in ANode PROVE Quiet(Edge(a, b), n) /\ Len(Edge(a, b)) = 1 /\ Unnamed(Edge(a, b), 1)
  <2> DEFINE x == [do |-> "edge", from |-> a, to |-> b]
  <2>1. x \in Access(n) /\ x.do \notin Openers /\ x.do # "append" /\ ~Named(x)
    BY DEF Access, Openers, Named
  <2> HIDE DEF x
  <2>2. Edge(a, b) = <<x>>
    BY DEF Edge, x
  <2> QED BY <2>1, <2>2, Single DEF Quiet
<1>4. ASSUME NEW b \in BOOLEAN PROVE Quiet(Audit(b), n) /\ Len(Audit(b)) = 1 /\ (b = FALSE => Unnamed(Audit(b), 1))
  <2> DEFINE x == [do |-> "audit", named |-> b]
  <2>1. x \in Access(n) /\ x.do \notin Openers /\ x.do # "append" /\ (b = FALSE => ~Named(x))
    BY DEF Access, Openers, Named
  <2> HIDE DEF x
  <2>2. Audit(b) = <<x>>
    BY DEF Audit, x
  <2> QED BY <2>1, <2>2, Single DEF Quiet
<1>5. ASSUME NEW w \in {"artifact", "notify"} PROVE Quiet(Do(w), n) /\ Len(Do(w)) = 1 /\ Unnamed(Do(w), 1)
  <2> DEFINE x == [do |-> w]
  <2>1. x \in Access(n) /\ x.do \notin Openers /\ x.do # "append" /\ ~Named(x)
    BY DEF Access, Openers, Named
  <2> HIDE DEF x
  <2>2. Do(w) = <<x>>
    BY DEF Do, x
  <2> QED BY <2>1, <2>2, Single DEF Quiet
<1> QED BY <1>1, <1>2, <1>3, <1>4, <1>5

LEMMA NodesThere ==
    /\ None \in ANode /\ TooLong \in ANode /\ TheEvent \in ANode /\ TheArtifact \in ANode /\ TheItem \in ANode
    /\ Run \in ANode /\ Sandbox \in ANode /\ Item \in ANode /\ Output \in ANode
BY DEF None, TooLong, TheEvent, TheArtifact, TheItem, Run, Sandbox, Item, Output, ANode

\* An event of the workshop needs no audit record of its own.
LEMMA WorkshopFollows ==
    ASSUME NEW n \in Nat, NEW b \in BOOLEAN
    PROVE  Follows(WorkshopEvent(b), n) /\ Len(WorkshopEvent(b)) = 3 /\ Unnamed(WorkshopEvent(b), 3)
<1> DEFINE x == [do |-> "append", by |-> "workshop", cause |-> 0, parent |-> b]
           s == Event("workshop", 0, b)
           t == Node(TheEvent)
           u == Edge(TheEvent, Run)
<1>1. x \in Access(n) /\ x.do \notin Openers /\ x.by # "observe" /\ ~Named(x)
  BY DEF Access, Openers, Named
<1>2. s = <<x>>
  BY DEF Event
<1> HIDE DEF x
<1>3. Follows(s, n) /\ Len(s) = 1 /\ Unnamed(s, 1)
  <2>1. <<x>> \in Seq(Access(n)) /\ Len(<<x>>) = 1 /\ DOMAIN <<x>> = {1} /\ <<x>>[1] = x /\ Unnamed(<<x>>, 1)
    BY <1>1, Single
  <2>2. Closes(<<x>>) /\ \A i \in DOMAIN <<x>> : <<x>>[i].do \notin Openers
    BY <1>1, <2>1 DEF Closes
  <2> QED BY <1>2, <2>1, <2>2 DEF Follows
<1>4. Follows(t, n) /\ Len(t) = 1 /\ Unnamed(t, 1) /\ Follows(u, n) /\ Len(u) = 1 /\ Unnamed(u, 1)
  BY Pieces, NodesThere DEF Quiet
<1>5. WorkshopEvent(b) = (s \o t) \o u
  BY DEF WorkshopEvent
<1> HIDE DEF s, t, u
<1>6. s \in Seq(Access(n)) /\ t \in Seq(Access(n)) /\ u \in Seq(Access(n))
  BY <1>3, <1>4 DEF Follows
<1>7. Follows(s \o t, n) /\ s \o t \in Seq(Access(n)) /\ Len(s \o t) = 2
  BY <1>3, <1>4, <1>6, FollowsJoined, Joined
<1>8. Unnamed(s \o t, 1 + 1)
  BY <1>3, <1>4, <1>6, UnnamedJoined
<1> DEFINE v == s \o t
<1>9. Follows(v, n) /\ v \in Seq(Access(n)) /\ Len(v) = 2 /\ Unnamed(v, 2)
  BY <1>7, <1>8
<1> HIDE DEF v
<1>10. Follows(v \o u, n) /\ Len(v \o u) = 3
  <2>1. Follows(v \o u, n)
    BY <1>4, <1>9, FollowsJoined
  <2>2. v \in Seq(Access(n)) /\ u \in Seq(Access(n))
    BY <1>6, <1>9
  <2>3. Len(v \o u) = Len(v) + Len(u)
    BY <2>2
  <2> QED BY <1>4, <1>9, <2>1, <2>3
<1>11. Unnamed(v \o u, 2 + 1)
  BY <1>4, <1>6, <1>9, UnnamedJoined
<1> QED BY <1>5, <1>10, <1>11 DEF v

\* observe: its event, what names it, and its audit record.
LEMMA ObservedFollows ==
    ASSUME NEW n \in Nat, NEW resource \in ANode, NEW r \in ANode, NEW link, link = <<>> \/ link \in ANode \X ANode, NEW c \in 0..n
    PROVE  Follows(Observed(resource, r, link, c), n)
<1> DEFINE x == [do |-> "append", by |-> "observe", cause |-> c, parent |-> FALSE]
           s1 == Node(TheEvent)
           s2 == IF resource = None THEN <<>> ELSE Node(resource) \o Edge(TheEvent, resource)
           s3 == IF r = None THEN <<>> ELSE Node(r) \o Edge(TheEvent, r)
           s4 == IF link = <<>> THEN <<>> ELSE Edge(link[1], link[2])
           s5 == Audit(TRUE)
<1>1. x \in Access(n) /\ x.do = "append" /\ x.do \notin Openers
  BY DEF Access, Openers
<1>2. Event("observe", c, FALSE) = <<x>>
  BY DEF Event
<1>3. Quiet(s1, n)
  BY Pieces, NodesThere
<1>4. Quiet(s2, n)
  BY Pieces, NodesThere, QuietJoined
<1>5. Quiet(s3, n)
  BY Pieces, NodesThere, QuietJoined
<1>6. Quiet(s4, n)
  <2>1. CASE link = <<>>
    BY <2>1, Pieces
  <2>2. CASE link # <<>>
    <3>1. link[1] \in ANode /\ link[2] \in ANode
      BY <2>2
    <3> QED BY <2>2, <3>1, Pieces
  <2> QED BY <2>1, <2>2
<1>7. Observed(resource, r, link, c) = ((((<<x>> \o s1) \o s2) \o s3) \o s4) \o s5
  BY <1>2 DEF Observed
<1>8. s5 = <<[do |-> "audit", named |-> TRUE]>> /\ Quiet(s5, n)
  BY Pieces DEF Audit
<1> HIDE DEF x, s1, s2, s3, s4, s5
\* An append, and then none.
<1> DEFINE First(s) == s \in Seq(Access(n)) /\ s # <<>> /\ \A i \in DOMAIN s : s[i].do \notin Openers /\ (i > 1 => s[i].do # "append")
<1>9. ASSUME NEW s, NEW t, First(s), Quiet(t, n) PROVE First(s \o t)
  <2>1. s \in Seq(Access(n)) /\ t \in Seq(Access(n)) /\ s # <<>>
    BY <1>9 DEF Quiet, Follows
  <2>2. Len(s) \in Nat \ {0}
    BY <2>1
  <2> DEFINE u == s \o t
  <2>3. /\ u \in Seq(Access(n)) /\ Len(u) = Len(s) + Len(t) /\ Len(t) \in Nat /\ DOMAIN s = 1..Len(s)
        /\ \A i \in DOMAIN s : u[i] = s[i]
        /\ \A i \in DOMAIN u : i \in DOMAIN s \/ (i > Len(s) /\ i - Len(s) \in DOMAIN t /\ u[i] = t[i - Len(s)])
    BY <2>1, Joined
  <2> HIDE DEF u
  <2>4. u # <<>>
    BY <2>2, <2>3
  <2>5. ASSUME NEW i \in DOMAIN u PROVE u[i].do \notin Openers /\ (i > 1 => u[i].do # "append")
    BY <1>9, <2>3 DEF Quiet, Follows, NoAppend
  <2> QED BY <2>3, <2>4, <2>5 DEF u
<1>10. First(<<x>>)
  <2>1. <<x>> \in Seq(Access(n)) /\ DOMAIN <<x>> = {1} /\ <<x>>[1] = x
    BY <1>1, Single
  <2> QED BY <1>1, <2>1
<1> HIDE DEF First
<1> DEFINE s == (((<<x>> \o s1) \o s2) \o s3) \o s4
<1>11. First(s)
  BY <1>3, <1>4, <1>5, <1>6, <1>9, <1>10
<1> HIDE DEF s
<1>12. s \in Seq(Access(n)) /\ s5 \in Seq(Access(n)) /\ Len(s5) = 1 /\ DOMAIN s5 = {1} /\ Named(s5[1])
  BY <1>8, <1>11 DEF First, Quiet, Follows, Named
<1> DEFINE u == s \o s5
           m == Len(s)
<1>13. /\ u \in Seq(Access(n)) /\ m \in Nat /\ DOMAIN s = 1..m /\ DOMAIN u = 1..(m + 1)
       /\ \A i \in DOMAIN s : u[i] = s[i]
       /\ u[m + 1] = s5[1]
  BY <1>12, Joined
<1>14. s5[1].do = "audit"
  BY <1>12 DEF Named
<1> HIDE DEF u, m
<1>15. ASSUME NEW i \in DOMAIN u PROVE u[i].do \notin Openers /\ (i > 1 => u[i].do # "append")
  <2>1. CASE i = m + 1
    BY <1>13, <1>14, <2>1 DEF Openers
  <2>2. CASE i # m + 1
    <3>1. i \in DOMAIN s
      BY <1>13, <2>2
    <3> QED BY <1>11, <1>13, <3>1 DEF First
  <2> QED BY <2>1, <2>2
<1>16. Closes(u)
  <2> SUFFICES ASSUME NEW i \in DOMAIN u, u[i].do = "append"
               PROVE  \E j \in DOMAIN u : j > i /\ Named(u[j]) /\ \A k \in (i + 1)..j : u[k].do # "append"
    BY DEF Closes
  <2>1. i \in Nat /\ i >= 1 /\ i < m + 1
    BY <1>13, <1>14
  <2>2. m + 1 \in DOMAIN u /\ m + 1 > i /\ Named(u[m + 1])
    BY <1>12, <1>13, <2>1
  <2>3. \A k \in (i + 1)..(m + 1) : k \in DOMAIN u /\ k > 1
    BY <1>13, <2>1
  <2> QED BY <1>15, <2>2, <2>3
<1> QED BY <1>7, <1>13, <1>15, <1>16 DEF Follows, u, s

----------------------------------------------------------------------------
\* A process and what is ahead of it, when n events have been made.
Ahead(q, n) ==
    /\ DOMAIN q = {"todo", "rescue", "guarded", "event", "first", "artifact", "item", "seen"}
    /\ q.todo \in Seq(Access(n)) /\ Closes(q.todo) /\ Follows(q.rescue, n)
    /\ q.event \in 0..n /\ q.first \in 0..n /\ q.guarded \in Nat
    /\ q.rescue # <<>> => Unnamed(q.todo, q.guarded)
    /\ \A i \in DOMAIN q.todo : q.todo[i].do \in Openers => i = 1 /\ q.event = 0

LEMMA EvidenceQuiet ==
    ASSUME NEW n \in Nat, NEW anchor \in ANode
    PROVE  Quiet(Evidence(anchor), n) /\ Unnamed(Evidence(anchor), 4)
<1> DEFINE s == Do("artifact")
           t == Node(TheArtifact)
           u == Edge(anchor, TheArtifact)
           v == Audit(FALSE)
<1>1. /\ Quiet(s, n) /\ Len(s) = 1 /\ Unnamed(s, 1) /\ Quiet(t, n) /\ Len(t) = 1 /\ Unnamed(t, 1)
      /\ Quiet(u, n) /\ Len(u) = 1 /\ Unnamed(u, 1) /\ Quiet(v, n) /\ Len(v) = 1 /\ Unnamed(v, 1)
  BY Pieces, NodesThere
<1>2. Evidence(anchor) = ((s \o t) \o u) \o v
  BY DEF Evidence
<1> HIDE DEF s, t, u, v
<1>3. s \in Seq(Access(n)) /\ t \in Seq(Access(n)) /\ u \in Seq(Access(n)) /\ v \in Seq(Access(n))
  BY <1>1 DEF Quiet, Follows
<1>4. Quiet(s \o t, n) /\ s \o t \in Seq(Access(n))
  BY <1>1, QuietJoined DEF Quiet, Follows
<1>5. Unnamed(s \o t, 1 + 1)
  BY <1>1, <1>3, UnnamedJoined
<1>6. Quiet((s \o t) \o u, n) /\ (s \o t) \o u \in Seq(Access(n))
  BY <1>1, <1>4, QuietJoined DEF Quiet, Follows
<1>7. Unnamed((s \o t) \o u, 3)
  <2>1. Unnamed(s \o t, 2)
    BY <1>5
  <2>2. Unnamed((s \o t) \o u, 2 + 1)
    BY <1>1, <1>3, <1>4, <2>1, UnnamedJoined
  <2> QED BY <2>2
<1>8. Quiet(((s \o t) \o u) \o v, n)
  BY <1>1, <1>6, QuietJoined
<1>9. Unnamed(((s \o t) \o u) \o v, 3 + 1)
  BY <1>1, <1>3, <1>6, <1>7, UnnamedJoined
<1> QED BY <1>2, <1>8, <1>9

LEMMA ProgramAhead ==
    ASSUME NEW n \in Nat, NEW todo, NEW g \in Nat, NEW rescue, Follows(todo, n), Follows(rescue, n), rescue # <<>> => Unnamed(todo, g)
    PROVE  Ahead(Program(todo, g, rescue), n) /\ Program(todo, g, rescue).event = 0 /\ Program(todo, g, rescue).seen = <<>>
<1> DEFINE q == Program(todo, g, rescue)
<1>1. DOMAIN q = {"todo", "rescue", "guarded", "event", "first", "artifact", "item", "seen"}
  BY DEF Program, Idle
<1>2. q.todo = todo /\ q.rescue = rescue /\ q.guarded = g /\ q.event = 0 /\ q.first = 0 /\ q.seen = <<>>
  BY DEF Program, Idle
<1> HIDE DEF q
<1>3. 0 \in 0..n
  OBVIOUS
<1>4. Ahead(q, n)
  BY <1>1, <1>2, <1>3 DEF Ahead, Follows
<1> QED BY <1>2, <1>4 DEF q

LEMMA PlainAhead ==
    ASSUME NEW n \in Nat, NEW todo, Follows(todo, n)
    PROVE  Ahead(Plain(todo), n) /\ Plain(todo).event = 0 /\ Plain(todo).seen = <<>>
<1> DEFINE q == Plain(todo)
<1>1. Follows(<<>>, n)
  BY Pieces DEF Quiet
<1>2. 0 \in 0..n
  OBVIOUS
<1>3. DOMAIN q = {"todo", "rescue", "guarded", "event", "first", "artifact", "item", "seen"}
  BY DEF Plain, Program, Idle
<1>4. q.todo = todo /\ q.rescue = <<>> /\ q.guarded = 0 /\ q.event = 0 /\ q.first = 0 /\ q.seen = <<>>
  BY DEF Plain, Program, Idle
<1> HIDE DEF q
<1>5. Ahead(q, n)
  BY <1>1, <1>2, <1>3, <1>4 DEF Ahead, Follows
<1> QED BY <1>4, <1>5 DEF q

\* A program that begins with an opener.
LEMMA OpenedAhead ==
    ASSUME NEW n \in Nat, NEW a \in Access(n), a.do \in Openers, NEW rest, Follows(rest, n)
    PROVE  /\ Ahead(Plain(<<a>> \o rest), n)
           /\ Plain(<<a>> \o rest).event = 0 /\ Plain(<<a>> \o rest).seen = <<>>
<1> DEFINE todo == <<a>> \o rest
           q == Plain(todo)
<1>1. a.do # "append"
  BY DEF Openers
<1>2. <<a>> \in Seq(Access(n)) /\ Len(<<a>>) = 1 /\ Closes(<<a>>) /\ DOMAIN <<a>> = {1}
  BY <1>1, Single
<1>3. rest \in Seq(Access(n)) /\ Closes(rest) /\ \A i \in DOMAIN rest : rest[i].do \notin Openers
  BY DEF Follows
<1>4. /\ todo \in Seq(Access(n))
      /\ \A i \in DOMAIN todo : i \in DOMAIN <<a>> \/ (i > Len(<<a>>) /\ i - Len(<<a>>) \in DOMAIN rest /\ todo[i] = rest[i - Len(<<a>>)])
  BY <1>2, <1>3, Joined
<1>5. Closes(todo)
  BY <1>2, <1>3, ClosesJoined
<1> HIDE DEF todo
<1>6. \A i \in DOMAIN todo : todo[i].do \in Openers => i = 1
  BY <1>2, <1>3, <1>4
<1>7. DOMAIN q = {"todo", "rescue", "guarded", "event", "first", "artifact", "item", "seen"}
  BY DEF Plain, Program, Idle
<1>8. q.todo = todo /\ q.rescue = <<>> /\ q.guarded = 0 /\ q.event = 0 /\ q.first = 0 /\ q.seen = <<>>
  BY DEF Plain, Program, Idle
<1> HIDE DEF q
<1>9. Follows(<<>>, n)
  BY Pieces DEF Quiet
<1>10. 0 \in 0..n
  OBVIOUS
<1>11. Ahead(q, n)
  BY <1>4, <1>5, <1>6, <1>7, <1>8, <1>9, <1>10 DEF Ahead
<1> QED BY <1>8, <1>11 DEF q, todo

LEMMA CallsAhead ==
    ASSUME made.event \in Nat, made.item \in Nat, NEW kind \in Start, NEW q \in Calls(kind)
    PROVE  Ahead(q, made.event) /\ q.event = 0 /\ q.seen = <<>>
<1> DEFINE n == made.event
           Fine(x) == Ahead(x, n) /\ x.event = 0 /\ x.seen = <<>>
<1> SUFFICES Fine(q)
  OBVIOUS
<1>1. kind \in {"observe", "link", "execute", "deny", "workshop", "notify", "resolve", "verify"}
  BY RecordsAssumption
<1>2. n \in Nat /\ 0 \in 0..n
  OBVIOUS
<1> HIDE DEF n
<1>3. ASSUME NEW todo, Follows(todo, n) PROVE Fine(Plain(todo))
  BY <1>2, <1>3, PlainAhead
<1>4. \A s \in ANode, r \in ANode, c \in 0..n : Follows(Observed(s, r, <<>>, c), n)
  BY <1>2, ObservedFollows
<1>5. \A b \in BOOLEAN : Follows(Audit(b), n)
  BY Pieces DEF Quiet
<1>6. \A a \in ANode : Follows(Node(a), n) /\ \A b \in ANode : Follows(Edge(a, b), n)
  BY Pieces DEF Quiet
<1>7. \A a \in ANode : Follows(Evidence(a), n) /\ Unnamed(Evidence(a), 4)
  BY <1>2, EvidenceQuiet DEF Quiet
<1> HIDE DEF Fine
<1>8. CASE kind = "observe"
  <2>1. PICK c \in 0..n : q = Plain(Observed(None, None, <<>>, c))
    BY <1>8 DEF Calls, n
  <2> QED BY <1>3, <1>4, <2>1, NodesThere
<1>9. CASE kind = "link"
  <2>1. q = Plain(Observed(Sandbox, None, <<Sandbox, Run>>, 0))
    BY <1>9 DEF Calls
  <2>2. <<Sandbox, Run>> \in ANode \X ANode
    BY NodesThere
  <2>3. Follows(Observed(Sandbox, None, <<Sandbox, Run>>, 0), n)
    BY <1>2, <2>2, NodesThere, ObservedFollows
  <2> QED BY <1>3, <2>1, <2>3
<1>10. CASE kind = "execute"
  <2>1. PICK r \in {None, Run} : q = Plain(Observed(Sandbox, r, <<>>, 0) \o Audit(FALSE)
                                    \o Evidence(IF r = None THEN Sandbox ELSE r)
                                    \o Observed(TheArtifact, r, <<>>, 0))
    BY <1>10 DEF Calls
  <2> DEFINE a == Observed(Sandbox, r, <<>>, 0)
             b == Evidence(IF r = None THEN Sandbox ELSE r)
             d == Observed(TheArtifact, r, <<>>, 0)
  <2>2. r \in ANode
    BY NodesThere
  <2>3. Follows(a, n) /\ Follows(b, n) /\ Follows(d, n)
    BY <1>2, <1>4, <1>7, <2>2, NodesThere
  <2> HIDE DEF a, b, d
  <2>4. Follows(((a \o Audit(FALSE)) \o b) \o d, n)
    BY <1>5, <2>3, FollowsJoined
  <2> QED BY <1>3, <2>1, <2>4 DEF a, b, d
<1>11. CASE kind = "deny"
  <2>1. PICK s \in {None, Sandbox} : q = Program(Observed(s, None, <<>>, 0) \o Audit(FALSE)
                                   \o Evidence(IF s = None THEN TheArtifact ELSE s),
                                   4, Observed(None, None, <<>>, 0))
    BY <1>11 DEF Calls
  <2> DEFINE a == Observed(s, None, <<>>, 0) \o Audit(FALSE)
             b == Evidence(IF s = None THEN TheArtifact ELSE s)
             d == Observed(None, None, <<>>, 0)
  <2>2. s \in ANode
    BY NodesThere
  <2>3. Follows(b, n) /\ Unnamed(b, 4) /\ Follows(d, n) /\ Follows(Observed(s, None, <<>>, 0), n)
    BY <1>2, <1>4, <1>7, <2>2, NodesThere
  <2>4. Follows(a, n)
    BY <1>5, <2>3, FollowsJoined
  <2> HIDE DEF a, b, d
  <2>5. Follows(a \o b, n)
    BY <2>3, <2>4, FollowsJoined
  <2>6. a \in Seq(Access(n)) /\ b \in Seq(Access(n))
    BY <2>3, <2>4 DEF Follows
  <2>7. Len(b) = 4
    BY <2>6 DEF b, Evidence, Do, Node, Edge, Audit
  <2>8. Unnamed(a, 0)
    BY <2>6 DEF Unnamed
  <2>9. Unnamed(a \o b, 0 + Len(b))
    BY <2>3, <2>6, <2>7, <2>8, UnnamedJoined
  <2>10. Unnamed(a \o b, 4)
    BY <2>7, <2>9
  <2>11. Fine(Program(a \o b, 4, d))
    BY <1>2, <2>3, <2>5, <2>10, ProgramAhead DEF Fine
  <2> QED BY <2>1, <2>11 DEF a, b, d
<1>12. CASE kind = "workshop"
  <2> DEFINE a == Node(Item) \o Node(Run) \o Edge(Run, Item) \o WorkshopEvent(FALSE) \o Audit(FALSE)
             o == Node(Output)
             e == Edge(Run, Output)
             f == Edge(Run, Item)
             w == WorkshopEvent(TRUE)
             d == WorkshopEvent(TRUE) \o Audit(FALSE)
  <2>1. q = Program((((a \o o) \o e) \o f) \o w, 6, d)
    BY <1>12 DEF Calls
  <2>2. /\ Follows(o, n) /\ Len(o) = 1 /\ Unnamed(o, 1) /\ Follows(e, n) /\ Len(e) = 1 /\ Unnamed(e, 1)
        /\ Follows(f, n) /\ Len(f) = 1 /\ Unnamed(f, 1)
    BY Pieces, NodesThere DEF Quiet
  <2>3. Follows(w, n) /\ Len(w) = 3 /\ Unnamed(w, 3) /\ Follows(WorkshopEvent(FALSE), n)
    BY <1>2, WorkshopFollows
  <2>4. Follows(d, n)
    BY <1>5, <2>3, FollowsJoined
  <2>5. Follows(a, n)
    <3>1. Follows(Node(Item), n) /\ Follows(Node(Run), n) /\ Follows(Edge(Run, Item), n)
      BY <1>6, NodesThere
    <3> QED BY <1>5, <2>3, <3>1, FollowsJoined
  <2> HIDE DEF a, o, e, f, w, d
  <2>6. a \in Seq(Access(n)) /\ o \in Seq(Access(n)) /\ e \in Seq(Access(n)) /\ f \in Seq(Access(n)) /\ w \in Seq(Access(n))
    BY <2>2, <2>3, <2>5 DEF Follows
  <2>7. Unnamed(a, 0)
    BY <2>6 DEF Unnamed
  <2>8. Follows(a \o o, n) /\ a \o o \in Seq(Access(n))
    BY <2>2, <2>5, FollowsJoined DEF Follows
  <2>9. Unnamed(a \o o, 1)
    <3>1. Unnamed(a \o o, 0 + Len(o))
      BY <2>2, <2>6, <2>7, UnnamedJoined
    <3> QED BY <2>2, <3>1
  <2>10. Follows((a \o o) \o e, n) /\ (a \o o) \o e \in Seq(Access(n))
    BY <2>2, <2>8, FollowsJoined DEF Follows
  <2>11. Unnamed((a \o o) \o e, 2)
    <3>1. Unnamed((a \o o) \o e, 1 + Len(e))
      BY <2>2, <2>6, <2>8, <2>9, UnnamedJoined
    <3> QED BY <2>2, <3>1
  <2>12. Follows(((a \o o) \o e) \o f, n) /\ ((a \o o) \o e) \o f \in Seq(Access(n))
    BY <2>2, <2>10, FollowsJoined DEF Follows
  <2>13. Unnamed(((a \o o) \o e) \o f, 3)
    <3>1. Unnamed(((a \o o) \o e) \o f, 2 + Len(f))
      BY <2>2, <2>6, <2>10, <2>11, UnnamedJoined
    <3> QED BY <2>2, <3>1
  <2>14. Follows((((a \o o) \o e) \o f) \o w, n)
    BY <2>3, <2>12, FollowsJoined
  <2>15. Unnamed((((a \o o) \o e) \o f) \o w, 6)
    <3>1. Unnamed((((a \o o) \o e) \o f) \o w, 3 + Len(w))
      BY <2>3, <2>6, <2>12, <2>13, UnnamedJoined
    <3> QED BY <2>3, <3>1
  <2> QED BY <1>2, <2>1, <2>4, <2>14, <2>15, ProgramAhead DEF Fine
<1>13. CASE kind = "notify"
  <2>1. PICK r \in {None, TooLong} : q = Plain(Do("notify") \o Observed(TheItem, r, <<>>, 0))
    BY <1>13 DEF Calls
  <2>2. Follows(Do("notify"), n)
    BY Pieces DEF Quiet
  <2>3. Follows(Observed(TheItem, r, <<>>, 0), n)
    BY <1>2, <1>4, NodesThere
  <2>4. Follows(Do("notify") \o Observed(TheItem, r, <<>>, 0), n)
    BY <2>2, <2>3, FollowsJoined
  <2> QED BY <1>3, <2>1, <2>4
<1>14. CASE kind = "resolve"
  <2>1. PICK i \in 1..made.item : q = Plain(<<[do |-> "resolve", item |-> i]>> \o Observed(<<"item", i>>, None, <<>>, 0))
    BY <1>14 DEF Calls
  <2> DEFINE a == [do |-> "resolve", item |-> i]
  <2>2. a \in Access(n) /\ a.do \in Openers
    <3>1. i \in Nat
      OBVIOUS
    <3> QED BY <3>1 DEF Access, Openers
  <2>3. <<"item", i>> \in ANode
    BY DEF ANode
  <2>4. Follows(Observed(<<"item", i>>, None, <<>>, 0), n)
    BY <1>2, <1>4, <2>3, NodesThere
  <2> HIDE DEF a
  <2>5. Fine(Plain(<<a>> \o Observed(<<"item", i>>, None, <<>>, 0)))
    BY <1>2, <2>2, <2>4, OpenedAhead DEF Fine
  <2> QED BY <2>1, <2>5 DEF a
<1>15. CASE kind = "verify"
  <2>1. PICK w \in {"repairEvents", "repairAudit"} : q = Plain(<<[do |-> w]>>)
    BY <1>15 DEF Calls, Do
  <2> DEFINE a == [do |-> w]
  <2>2. a \in Access(n) /\ a.do \in Openers
    BY DEF Access, Openers
  <2>3. Follows(<<>>, n)
    BY Pieces DEF Quiet
  <2> HIDE DEF a
  <2>4. <<a>> \o <<>> = <<a>>
    <3>1. <<a>> \in Seq(Access(n))
      BY <2>2
    <3> QED BY <3>1
  <2>5. Fine(Plain(<<a>> \o <<>>))
    BY <1>2, <2>2, <2>3, OpenedAhead DEF Fine
  <2> QED BY <2>1, <2>4, <2>5 DEF a
<1> QED BY <1>1, <1>8, <1>9, <1>10, <1>11, <1>12, <1>13, <1>14, <1>15

----------------------------------------------------------------------------
\* An event log: numbered without a gap, older events first, and an event of
\* observe names the one before it.
AnEvent == [id : Nat, seq : Nat, by : {"observe", "workshop"}, cause : Nat, parent : Nat]
ACut == [seq : Nat, id : Nat]

Log(log, n) ==
    /\ log \in Seq(AnEvent)
    /\ \A i \in DOMAIN log : /\ log[i].id <= n /\ log[i].cause < log[i].id /\ log[i].parent < log[i].id
                             /\ log[i].seq + 1 = i + log[1].seq /\ log[i].seq >= 1
    /\ \A i, j \in DOMAIN log : i < j => log[i].id < log[j].id
    /\ \A i \in DOMAIN log : i > 1 /\ log[i].by = "observe" => log[i].parent = log[i - 1].id

\* It goes on where its checkpoint ends; without one it begins at the first
\* event, or where the earlier version cut it.
Fits(log, cut, cutBefore) ==
    /\ cut = NoCut => IF cutBefore THEN log # <<>> /\ log[1].seq = 3 /\ log[1].parent = 0
                      ELSE log # <<>> => log[1].seq = 1 /\ (log[1].by = "observe" => log[1].parent = 0)
    /\ cut # NoCut => log # <<>> /\ log[1].seq = cut.seq + 1 /\ (log[1].by = "observe" => log[1].parent = cut.id)

\* An event has its audit record, or lost its writer, or its writer is at it.
Traced(id) == id \in audited \cup broken \/ \E p \in Process : prog[p].event = id /\ Pends(prog[p].todo)

LogOk(log, cut, cutBefore) ==
    /\ Log(log, made.event) /\ cut \in ACut
    /\ \A i \in DOMAIN log : log[i].by = "observe" => Traced(log[i].id)
    /\ "events" \in stale \/ Fits(log, cut, cutBefore)

ARecord == [id : Nat, seq : Nat, event : Nat, prev : Nat]

Chain(chain) ==
    /\ chain \in Seq(ARecord)
    /\ \A i \in DOMAIN chain : chain[i].seq + 1 = i + chain[1].seq /\ chain[i].seq >= 1
    /\ \A i \in DOMAIN chain : i > 1 => chain[i].prev = chain[i - 1].id

ChainFits(chain, cut, cutBefore) ==
    /\ cut = NoCut => IF cutBefore THEN chain # <<>> /\ chain[1].seq = 3 /\ chain[1].prev = 0
                      ELSE chain # <<>> => chain[1].seq = 1 /\ chain[1].prev = 0
    /\ cut # NoCut => chain # <<>> /\ chain[1].seq = cut.seq + 1 /\ chain[1].prev = cut.id

AuditOk(cutBefore) ==
    /\ Chain(audit) /\ auditCut \in ACut
    /\ "audit" \in stale \/ ChainFits(audit, auditCut, cutBefore)

\* What a process has read for the access it is about to make.
OldCut == [seq |-> 2, id |-> 0]
SeenOk(q, cutBefore) ==
    q.seen # <<>> =>
       /\ q.todo # <<>> /\ q.todo[1].do \in Openers \cup {"append"}
       /\ q.todo[1].do = "append" => LogOk(q.seen[1], q.seen[2], cutBefore)
       /\ q.todo[1].do = "repairEvents" => q.seen[1] \in ACut /\ ("events" \in stale \/ (cutBefore = TRUE /\ q.seen[1] = OldCut))
       /\ q.todo[1].do = "repairAudit" => q.seen[1] \in ACut /\ ("audit" \in stale \/ (cutBefore = TRUE /\ q.seen[1] = OldCut))

ProgInv ==
    /\ made \in [event : Nat, record : Nat, artifact : Nat, item : Nat]
    /\ DOMAIN prog = Process /\ \A p \in Process : Ahead(prog[p], made.event)

RecordsInv(cutBefore) ==
    /\ ProgInv /\ LogOk(events, eventCut, cutBefore) /\ AuditOk(cutBefore)
    /\ \A p \in Process : SeenOk(prog[p], cutBefore)

LEMMA IdleAhead == ASSUME NEW n \in Nat PROVE Ahead(Idle, n) /\ Idle.todo = <<>> /\ Idle.seen = <<>> /\ ~Pends(Idle.todo)
<1> DEFINE q == Idle
<1>1. Follows(<<>>, n)
  BY Pieces DEF Quiet
<1>2. 0 \in 0..n
  OBVIOUS
<1>3. DOMAIN q = {"todo", "rescue", "guarded", "event", "first", "artifact", "item", "seen"}
  BY DEF Idle
<1>4. q.todo = <<>> /\ q.rescue = <<>> /\ q.guarded = 0 /\ q.event = 0 /\ q.first = 0 /\ q.seen = <<>>
  BY DEF Idle
<1> HIDE DEF q
<1>5. Ahead(q, n)
  BY <1>1, <1>2, <1>3, <1>4 DEF Ahead, Follows
<1>6. ~Pends(q.todo)
  BY <1>4 DEF Pends
<1> QED BY <1>4, <1>5, <1>6 DEF q

LEMMA AheadWiden == ASSUME NEW n \in Nat, NEW q, Ahead(q, n) PROVE Ahead(q, n + 1)
<1>1. 0..n \subseteq 0..(n + 1)
  OBVIOUS
<1> QED BY <1>1, AccessWiden DEF Ahead, Follows

\* A step of one process that loses no event it was at.
LEMMA ProgStep ==
    ASSUME ProgInv, NEW p \in Process, NEW r, prog' = [prog EXCEPT ![p] = r], Ahead(r, made'.event),
           made' \in [event : Nat, record : Nat, artifact : Nat, item : Nat],
           made'.event = made.event \/ made'.event = made.event + 1,
           audited \subseteq audited', broken \subseteq broken',
           prog[p].event # 0 /\ Pends(prog[p].todo) =>
              prog[p].event \in audited' \cup broken' \/ (r.event = prog[p].event /\ Pends(r.todo))
    PROVE  /\ ProgInv'
           /\ \A id : id # 0 /\ Traced(id) => Traced(id)'
           /\ prog'[p] = r /\ \A q \in Process \ {p} : prog'[q] = prog[q]
<1>1. prog'[p] = r /\ (\A q \in Process \ {p} : prog'[q] = prog[q]) /\ DOMAIN prog' = Process
  BY DEF ProgInv
<1>2. ASSUME NEW q \in Process PROVE Ahead(prog'[q], made'.event)
  <2>1. CASE q = p
    BY <1>1, <2>1
  <2>2. CASE q # p
    <3>1. prog'[q] = prog[q] /\ Ahead(prog[q], made.event) /\ made.event \in Nat
      BY <1>1, <2>2 DEF ProgInv
    <3> QED BY <3>1, AheadWiden
  <2> QED BY <2>1, <2>2
<1>3. ProgInv'
  BY <1>1, <1>2 DEF ProgInv
<1>4. ASSUME NEW id, id # 0, Traced(id) PROVE Traced(id)'
  <2>1. CASE id \in audited \cup broken
    BY <2>1 DEF Traced
  <2>2. ASSUME NEW q \in Process, prog[q].event = id, Pends(prog[q].todo) PROVE Traced(id)'
    <3>1. CASE q # p
      <4>1. prog'[q].event = id /\ Pends(prog'[q].todo)
        BY <1>1, <2>2, <3>1
      <4> QED BY <4>1 DEF Traced
    <3>2. CASE q = p
      <4>1. id \in audited' \cup broken' \/ (prog'[p].event = id /\ Pends(prog'[p].todo))
        BY <1>1, <1>4, <2>2, <3>2
      <4> QED BY <4>1 DEF Traced
    <3> QED BY <3>1, <3>2
  <2> QED BY <1>4, <2>1, <2>2 DEF Traced
<1> QED BY <1>1, <1>3, <1>4

\* A log that was in order stays it.
LEMMA LogStays ==
    ASSUME NEW log, NEW cut, NEW b \in BOOLEAN, LogOk(log, cut, b), made.event \in Nat,
           made'.event = made.event \/ made'.event = made.event + 1, stale \subseteq stale',
           \A id : id # 0 /\ Traced(id) => Traced(id)'
    PROVE  LogOk(log, cut, b)'
<1>1. Log(log, made'.event)
  <2>1. \A i \in DOMAIN log : log[i] \in AnEvent
    BY DEF LogOk, Log
  <2>2. \A i \in DOMAIN log : log[i].id \in Nat
    BY <2>1 DEF AnEvent
  <2> QED BY <2>2 DEF LogOk, Log
<1>2. \A i \in DOMAIN log : log[i].by = "observe" => Traced(log[i].id)'
  <2>1. \A i \in DOMAIN log : log[i] \in AnEvent /\ log[i].cause < log[i].id
    BY DEF LogOk, Log
  <2>2. \A i \in DOMAIN log : log[i].id # 0
    BY <2>1 DEF AnEvent
  <2> QED BY <2>2 DEF LogOk
<1>3. "events" \in stale' \/ Fits(log, cut, b)
  BY DEF LogOk
<1>4. Fits(log, cut, b)' = Fits(log, cut, b)
  BY DEF Fits, NoCut
<1>5. Log(log, made.event)' <=> Log(log, made'.event)
  BY DEF Log, AnEvent
<1>6. (cut \in ACut)'
  BY DEF LogOk, ACut
<1> QED BY <1>1, <1>2, <1>3, <1>4, <1>5, <1>6 DEF LogOk

LEMMA SeenStays ==
    ASSUME NEW s, NEW b \in BOOLEAN, SeenOk(s, b), made.event \in Nat,
           made'.event = made.event \/ made'.event = made.event + 1, stale \subseteq stale',
           \A id : id # 0 /\ Traced(id) => Traced(id)'
    PROVE  SeenOk(s, b)'
<1>1. \A log, cut : LogOk(log, cut, b) => LogOk(log, cut, b)'
  BY LogStays
<1>2. OldCut' = OldCut
  BY DEF OldCut
<1> QED BY <1>1, <1>2 DEF SeenOk

LEMMA RecordsStep ==
    ASSUME NEW b \in BOOLEAN, RecordsInv(b),
           NEW p \in Process, NEW r, prog' = [prog EXCEPT ![p] = r], Ahead(r, made'.event),
           made' \in [event : Nat, record : Nat, artifact : Nat, item : Nat],
           made'.event = made.event \/ made'.event = made.event + 1,
           audited \subseteq audited', broken \subseteq broken', stale \subseteq stale',
           prog[p].event # 0 /\ Pends(prog[p].todo) =>
              prog[p].event \in audited' \cup broken' \/ (r.event = prog[p].event /\ Pends(r.todo)),
           (\A id : id # 0 /\ Traced(id) => Traced(id)') /\ prog'[p] = r
              => LogOk(events, eventCut, b)' /\ AuditOk(b)' /\ SeenOk(r, b)'
    PROVE  RecordsInv(b)'
<1>1. ProgInv
  BY DEF RecordsInv
<1>2. /\ ProgInv' /\ (\A id : id # 0 /\ Traced(id) => Traced(id)')
      /\ prog'[p] = r /\ \A q \in Process \ {p} : prog'[q] = prog[q]
  BY <1>1, ProgStep
<1>3. LogOk(events, eventCut, b)' /\ AuditOk(b)' /\ SeenOk(r, b)'
  BY <1>2
<1>4. ASSUME NEW q \in Process PROVE SeenOk(prog[q], b)'
  <2>1. CASE q = p
    BY <1>2, <1>3, <2>1 DEF SeenOk
  <2>2. CASE q # p
    <3>1. prog'[q] = prog[q] /\ SeenOk(prog[q], b)
      BY <1>2, <2>2 DEF RecordsInv
    <3>2. made.event \in Nat
      BY <1>1 DEF ProgInv
    <3>3. PICK s : s = prog[q]
      OBVIOUS
    <3>4. SeenOk(s, b)'
      BY <1>2, <3>1, <3>2, <3>3, SeenStays
    <3>5. prog'[q] = s
      BY <3>1, <3>3
    <3> QED BY <3>4, <3>5 DEF SeenOk
  <2> QED BY <2>1, <2>2
<1> QED BY <1>2, <1>3, <1>4 DEF RecordsInv

----------------------------------------------------------------------------
\* An event is appended; the oldest go, and the checkpoint is the last of them.
LEMMA LogAppend ==
    ASSUME NEW n \in Nat, NEW log, Log(log, n), NEW new \in AnEvent, new.id = n + 1, new.cause <= n, new.parent <= n,
           new.seq = IF log = <<>> THEN 1 ELSE log[Len(log)].seq + 1,
           new.by = "observe" => new.parent = IF log = <<>> THEN 0 ELSE log[Len(log)].id,
           NEW cut, NEW b \in BOOLEAN
    PROVE  /\ Log(log \o <<new>>, n + 1)
           /\ Fits(log, cut, b) => Fits(log \o <<new>>, cut, b)
<1> DEFINE m == Len(log)
           u == log \o <<new>>
<1>1. log \in Seq(AnEvent) /\ <<new>> \in Seq(AnEvent)
  BY DEF Log
<1>2. /\ m \in Nat /\ DOMAIN log = 1..m /\ DOMAIN u = 1..(m + 1) /\ u \in Seq(AnEvent)
      /\ \A i \in DOMAIN log : u[i] = log[i]
      /\ u[m + 1] = new /\ u # <<>> /\ (log = <<>> <=> m = 0)
  BY <1>1
<1> HIDE DEF m, u
<1>3. \A i \in DOMAIN u : u[i] \in AnEvent /\ u[i].id \in Nat /\ u[i].cause \in Nat /\ u[i].parent \in Nat /\ u[i].seq \in Nat
  <2>1. \A i \in DOMAIN u : u[i] \in AnEvent
    BY <1>2
  <2> QED BY <2>1 DEF AnEvent
<1>4. ASSUME NEW i \in DOMAIN log PROVE i \in DOMAIN u /\ u[i] = log[i] /\ i \in Nat /\ i >= 1 /\ i <= m
  BY <1>2
<1>5. ASSUME NEW i \in DOMAIN u PROVE i \in DOMAIN log \/ (i = m + 1 /\ u[i] = new)
  BY <1>2
<1>6. m # 0 => /\ m \in DOMAIN log /\ 1 \in DOMAIN log /\ log[m].seq + 1 = m + log[1].seq /\ log[m].seq >= 1
               /\ new.seq = log[m].seq + 1 /\ u[1] = log[1] /\ u[m] = log[m]
  BY <1>2 DEF Log, m
<1>7. m = 0 => u[1] = new /\ new.seq = 1
  BY <1>2
<1>8. ASSUME NEW i \in DOMAIN u
      PROVE  /\ u[i].id <= n + 1 /\ u[i].cause < u[i].id /\ u[i].parent < u[i].id
             /\ u[i].seq + 1 = i + u[1].seq /\ u[i].seq >= 1
  <2>1. CASE i \in DOMAIN log
    <3>1. /\ log[i].id <= n /\ log[i].cause < log[i].id /\ log[i].parent < log[i].id
          /\ log[i].seq + 1 = i + log[1].seq /\ log[i].seq >= 1
      BY <2>1 DEF Log
    <3>2. u[i] = log[i] /\ m # 0
      BY <1>2, <1>4, <2>1
    <3> QED BY <1>3, <1>6, <3>1, <3>2
  <2>2. CASE i = m + 1 /\ u[i] = new
    <3>1. new.id = n + 1 /\ new.cause \in Nat /\ new.parent \in Nat /\ new.cause <= n /\ new.parent <= n
      BY <1>3, <2>2
    <3>2. CASE m = 0
      BY <1>7, <2>2, <3>1, <3>2
    <3>3. CASE m # 0
      <4>1. /\ new.seq \in Nat /\ u[1].seq \in Nat /\ log[m].seq \in Nat
            /\ new.seq = log[m].seq + 1 /\ log[m].seq + 1 = m + u[1].seq /\ u[i] = new /\ i = m + 1
        <5>1. 1 \in DOMAIN u /\ m \in DOMAIN u /\ u[m] = log[m] /\ u[1] = log[1]
          BY <1>4, <1>6, <3>3
        <5>2. u[1].seq \in Nat /\ log[m].seq \in Nat /\ new.seq \in Nat
          BY <1>3, <2>2, <5>1
        <5> QED BY <1>6, <2>2, <3>3, <5>1, <5>2
      <4>2. new.seq + 1 = (m + 1) + u[1].seq /\ new.seq >= 1
        <5> DEFINE x == new.seq
                   y == u[1].seq
                   z == log[m].seq
        <5>1. x \in Nat /\ y \in Nat /\ z \in Nat /\ m \in Nat /\ x = z + 1 /\ z + 1 = m + y
          BY <1>2, <4>1
        <5> HIDE DEF x, y, z
        <5>2. x + 1 = (m + 1) + y /\ x >= 1
          BY <5>1
        <5> QED BY <5>2 DEF x, y
      <4>3. new.id = n + 1 /\ new.cause < new.id /\ new.parent < new.id
        BY <3>1
      <4> QED BY <4>1, <4>2, <4>3
    <3> QED BY <3>2, <3>3
  <2> QED BY <1>5, <2>1, <2>2
<1>9. ASSUME NEW i \in DOMAIN u, NEW j \in DOMAIN u, i < j PROVE u[i].id < u[j].id
  <2>1. i \in DOMAIN log /\ u[i] = log[i]
    BY <1>2, <1>9
  <2>2. CASE j \in DOMAIN log
    BY <1>4, <1>9, <2>1, <2>2 DEF Log
  <2>3. CASE j = m + 1 /\ u[j] = new
    <3>1. log[i].id <= n
      BY <2>1 DEF Log
    <3> QED BY <1>3, <2>1, <2>3, <3>1
  <2> QED BY <1>5, <2>2, <2>3
<1>10. ASSUME NEW i \in DOMAIN u, i > 1, u[i].by = "observe" PROVE u[i].parent = u[i - 1].id
  <2>1. CASE i \in DOMAIN log
    <3>1. i - 1 \in DOMAIN log
      BY <1>2, <1>10, <2>1
    <3>2. log[i].parent = log[i - 1].id
      BY <1>4, <1>10, <2>1 DEF Log
    <3> QED BY <1>4, <2>1, <3>1, <3>2
  <2>2. CASE i = m + 1 /\ u[i] = new
    <3>1. m # 0 /\ i - 1 = m
      BY <1>2, <1>10, <2>2
    <3>2. new.parent = log[m].id
      BY <1>2, <1>10, <2>2, <3>1 DEF m
    <3> QED BY <1>6, <2>2, <3>1, <3>2
  <2> QED BY <1>5, <2>1, <2>2
<1>11. Log(u, n + 1)
  BY <1>2, <1>8, <1>9, <1>10 DEF Log
<1>12. ASSUME Fits(log, cut, b) PROVE Fits(u, cut, b)
  <2>1. CASE m = 0
    <3>1. log = <<>> /\ u[1] = new /\ new.seq = 1 /\ (new.by = "observe" => new.parent = 0)
      BY <1>2, <1>7, <2>1
    <3> QED BY <1>2, <1>12, <3>1 DEF Fits
  <2>2. CASE m # 0
    <3>1. log # <<>> /\ u[1] = log[1]
      BY <1>2, <1>6, <2>2
    <3> QED BY <1>2, <1>12, <3>1 DEF Fits
  <2> QED BY <2>1, <2>2
<1> QED BY <1>11, <1>12 DEF u

LEMMA LogTrim ==
    ASSUME NEW n \in Nat, NEW log, Log(log, n), NEW m \in Nat \ {0}, m < Len(log), NEW b \in BOOLEAN
    PROVE  /\ Log(SubSeq(log, 1 + m, Len(log)), n)
           /\ [seq |-> log[m].seq, id |-> log[m].id] \in ACut
           /\ Fits(SubSeq(log, 1 + m, Len(log)), [seq |-> log[m].seq, id |-> log[m].id], b)
           /\ \A i \in DOMAIN SubSeq(log, 1 + m, Len(log)) : \E j \in DOMAIN log : SubSeq(log, 1 + m, Len(log))[i] = log[j]
<1> DEFINE u == SubSeq(log, 1 + m, Len(log))
           k == Len(log)
<1>1. log \in Seq(AnEvent)
  BY DEF Log
<1>2. k \in Nat /\ m < k /\ k - m \in Nat /\ k - m >= 1 /\ DOMAIN log = 1..k /\ m \in DOMAIN log /\ m + 1 \in DOMAIN log
  BY <1>1
<1>3. /\ u \in Seq(AnEvent) /\ Len(u) = k - m /\ DOMAIN u = 1..(k - m) /\ u # <<>>
      /\ \A i \in DOMAIN u : u[i] = log[i + m]
  <2>1. \A i \in (1 + m)..k : log[i] \in AnEvent
    BY <1>1, <1>2
  <2>2. u \in Seq(AnEvent)
    BY <1>1, <1>2, <2>1
  <2>3. Len(u) = k - m
    <3>1. Len(u) = IF 1 + m <= k THEN k - (1 + m) + 1 ELSE 0
      BY <1>1, <1>2
    <3>2. 1 + m <= k /\ k - (1 + m) + 1 = k - m
      BY <1>2
    <3> QED BY <3>1, <3>2
  <2>4. DOMAIN u = 1..(k - m)
    BY <2>2, <2>3
  <2>5. ASSUME NEW i \in 1..(k - m) PROVE u[i] = log[i + m]
    <3>1. u[i] = log[(1 + m) + i - 1]
      BY <1>1, <1>2
    <3>2. (1 + m) + i - 1 = i + m
      OBVIOUS
    <3> QED BY <3>1, <3>2
  <2>6. u # <<>>
    <3> DEFINE l == Len(u)
    <3>1. l = k - m
      BY <2>3
    <3> HIDE DEF l, k
    <3>2. l # 0
      BY <1>2, <3>1
    <3> HIDE DEF u
    <3> QED BY <3>2 DEF l
  <2> QED BY <2>2, <2>3, <2>4, <2>5, <2>6
<1> HIDE DEF u, k
<1>4. \A i \in DOMAIN log : log[i].id \in Nat /\ log[i].seq \in Nat /\ log[i].cause \in Nat /\ log[i].parent \in Nat
  <2>1. \A i \in DOMAIN log : log[i] \in AnEvent
    BY <1>1
  <2> QED BY <2>1 DEF AnEvent
<1>5. ASSUME NEW i \in DOMAIN u PROVE i \in Nat /\ i + m \in DOMAIN log /\ u[i] = log[i + m]
  BY <1>2, <1>3
<1>6. 1 \in DOMAIN u /\ u[1] = log[m + 1]
  <2>1. 1 \in DOMAIN u
    BY <1>2, <1>3
  <2>2. u[1] = log[1 + m]
    BY <1>5, <2>1
  <2> QED BY <2>1, <2>2
<1>7. /\ log[m + 1].seq + 1 = (m + 1) + log[1].seq /\ log[m].seq + 1 = m + log[1].seq /\ log[m].seq >= 1
      /\ log[m + 1].by = "observe" => log[m + 1].parent = log[m].id
  <2>1. m + 1 > 1 /\ (m + 1) - 1 = m
    OBVIOUS
  <2> QED BY <1>2, <2>1 DEF Log
<1>8. ASSUME NEW i \in DOMAIN u
      PROVE  /\ u[i].id <= n /\ u[i].cause < u[i].id /\ u[i].parent < u[i].id
             /\ u[i].seq + 1 = i + u[1].seq /\ u[i].seq >= 1
  <2>1. /\ log[i + m].id <= n /\ log[i + m].cause < log[i + m].id /\ log[i + m].parent < log[i + m].id
        /\ log[i + m].seq + 1 = (i + m) + log[1].seq /\ log[i + m].seq >= 1
    BY <1>5 DEF Log
  <2>2. log[1].seq \in Nat /\ log[m + 1].seq \in Nat /\ log[i + m].seq \in Nat /\ i \in Nat
    <3>1. 1 \in DOMAIN log
      BY <1>2
    <3> QED BY <1>2, <1>4, <1>5, <3>1
  <2>3. log[i + m].seq + 1 = i + log[m + 1].seq
    <3> DEFINE x == log[i + m].seq
               y == log[1].seq
               z == log[m + 1].seq
    <3>1. x \in Nat /\ y \in Nat /\ z \in Nat /\ i \in Nat
      BY <2>2
    <3>2. x + 1 = (i + m) + y
      BY <2>1
    <3>3. z + 1 = (m + 1) + y
      BY <1>7
    <3> HIDE DEF x, y, z
    <3>4. x + 1 = i + z
      BY <3>1, <3>2, <3>3
    <3> QED BY <3>4 DEF x, z
  <2> QED BY <1>5, <1>6, <2>1, <2>3
<1>9. ASSUME NEW i \in DOMAIN u, NEW j \in DOMAIN u, i < j PROVE u[i].id < u[j].id
  <2>1. i + m < j + m
    BY <1>5, <1>9
  <2> QED BY <1>5, <2>1 DEF Log
<1>10. ASSUME NEW i \in DOMAIN u, i > 1, u[i].by = "observe" PROVE u[i].parent = u[i - 1].id
  <2>1. i - 1 \in DOMAIN u /\ (i - 1) + m = (i + m) - 1 /\ i + m > 1
    <3>1. i \in 1..(k - m) /\ i \in Nat
      BY <1>3, <1>5
    <3>2. i - 1 \in 1..(k - m)
      BY <1>2, <1>10, <3>1
    <3> QED BY <1>3, <1>10, <3>1, <3>2
  <2>2. u[i - 1] = log[(i + m) - 1]
    BY <1>5, <2>1
  <2>3. log[i + m].parent = log[(i + m) - 1].id
    BY <1>5, <1>10, <2>1 DEF Log
  <2> QED BY <1>5, <2>2, <2>3
<1>11. Log(u, n)
  BY <1>3, <1>8, <1>9, <1>10 DEF Log
<1> DEFINE cut == [seq |-> log[m].seq, id |-> log[m].id]
<1>12. cut \in ACut /\ cut.seq = log[m].seq /\ cut.id = log[m].id
  BY <1>2, <1>4 DEF ACut
<1>13. cut # NoCut
  <2>1. NoCut.seq = 0
    BY DEF NoCut
  <2> HIDE DEF cut
  <2> QED BY <1>7, <1>12, <2>1
<1> HIDE DEF cut
<1>14. u[1].seq = cut.seq + 1
  <2> DEFINE x == log[1].seq
             y == log[m].seq
             z == log[m + 1].seq
  <2>1. x \in Nat /\ y \in Nat /\ z \in Nat
    <3>1. 1 \in DOMAIN log /\ m \in DOMAIN log /\ m + 1 \in DOMAIN log
      BY <1>2
    <3> QED BY <1>4, <3>1
  <2>2. z + 1 = (m + 1) + x /\ y + 1 = m + x
    BY <1>7
  <2> HIDE DEF x, y, z
  <2>3. z = y + 1
    BY <2>1, <2>2
  <2>4. log[m + 1].seq = log[m].seq + 1
    BY <2>3 DEF y, z
  <2> QED BY <1>6, <1>12, <2>4
<1>15. Fits(u, cut, b)
  BY <1>3, <1>6, <1>7, <1>12, <1>13, <1>14 DEF Fits
<1> QED BY <1>5, <1>11, <1>12, <1>15 DEF u, k, cut

LEMMA EventsStay ==
    ASSUME NEW b \in BOOLEAN, LogOk(events, eventCut, b), UNCHANGED <<events, eventCut>>, made.event \in Nat,
           made'.event = made.event \/ made'.event = made.event + 1, stale \subseteq stale',
           \A id : id # 0 /\ Traced(id) => Traced(id)'
    PROVE  LogOk(events, eventCut, b)'
<1>1. PICK log, cut : log = events /\ cut = eventCut
  OBVIOUS
<1>2. LogOk(log, cut, b)'
  BY <1>1, LogStays
<1>3. events' = log /\ eventCut' = cut
  BY <1>1
<1> QED BY <1>2, <1>3 DEF LogOk

LEMMA AuditStays ==
    ASSUME NEW b \in BOOLEAN, AuditOk(b), UNCHANGED <<audit, auditCut>>, stale \subseteq stale'
    PROVE  AuditOk(b)'
BY DEF AuditOk, Chain, ChainFits, NoCut, ACut, ARecord

----------------------------------------------------------------------------
\* What is ahead of a process that has made its access.
Moved(q, s) == Done([q EXCEPT !.todo = Tail(s.todo), !.seen = <<>>])

LEMMA Onward ==
    ASSUME NEW n \in Nat, NEW s, Ahead(s, n), s.todo # <<>>, NEW k \in {n, n + 1},
           NEW q, DOMAIN q = DOMAIN s, q.todo = s.todo, q.rescue = s.rescue, q.guarded = s.guarded,
           q.event \in 0..k, q.first \in 0..k,
           NEW r, r = Moved(q, s)
    PROVE  /\ Ahead(r, k) /\ r.seen = <<>>
           /\ s.todo[1].do = "append" /\ s.todo[1].by = "observe" => r.event = q.event /\ Pends(r.todo)
           /\ Pends(s.todo) => s.todo[1].do # "append" /\ (Named(s.todo[1]) \/ (r.event = q.event /\ Pends(r.todo)))
<1> DEFINE t == Tail(s.todo)
           x == [q EXCEPT !.todo = t, !.seen = <<>>]
           m == Len(s.todo)
<1>1. s.todo \in Seq(Access(n)) /\ Closes(s.todo) /\ Follows(s.rescue, n) /\ s.guarded \in Nat
  BY DEF Ahead
<1>2. /\ t \in Seq(Access(n)) /\ m \in Nat \ {0} /\ Len(t) = m - 1 /\ DOMAIN s.todo = 1..m /\ DOMAIN t = 1..(m - 1)
      /\ \A i \in DOMAIN t : t[i] = s.todo[i + 1]
  BY <1>1, Tailed
<1>3. /\ Closes(t)
      /\ s.todo[1].do = "append" /\ s.todo[1].by = "observe" => Pends(t)
      /\ Pends(s.todo) => s.todo[1].do # "append" /\ (Named(s.todo[1]) \/ Pends(t))
  BY <1>1, ClosesTail
<1>4. DOMAIN x = {"todo", "rescue", "guarded", "event", "first", "artifact", "item", "seen"}
  BY DEF Ahead
<1>5. x.todo = t /\ x.seen = <<>> /\ x.rescue = s.rescue /\ x.guarded = s.guarded /\ x.event = q.event /\ x.first = q.first
  BY DEF Ahead
<1> HIDE DEF x, t, m
<1>6. \A i \in DOMAIN t : t[i].do \notin Openers
  <2> SUFFICES ASSUME NEW i \in DOMAIN t PROVE t[i].do \notin Openers
    OBVIOUS
  <2>1. i + 1 \in DOMAIN s.todo /\ i + 1 # 1 /\ t[i] = s.todo[i + 1]
    BY <1>2
  <2> QED BY <2>1 DEF Ahead
<1>7. s.rescue # <<>> => Unnamed(t, s.guarded)
  <2> SUFFICES ASSUME s.rescue # <<>>, NEW i \in DOMAIN t, i > Len(t) - s.guarded PROVE ~Named(t[i])
    BY DEF Unnamed
  <2>1. i + 1 \in DOMAIN s.todo /\ i + 1 > m - s.guarded
    BY <1>1, <1>2
  <2>2. Unnamed(s.todo, s.guarded)
    BY DEF Ahead
  <2> QED BY <1>2, <2>1, <2>2 DEF Unnamed, m
<1>8. \A a : a \in Seq(Access(n)) => a \in Seq(Access(k))
  BY AccessWiden
<1>9. Ahead(x, k)
  BY <1>1, <1>2, <1>3, <1>4, <1>5, <1>6, <1>7, <1>8 DEF Ahead, Follows
<1>10. r = IF x.todo = <<>> THEN Idle ELSE x
  BY DEF Moved, Done, x, t
<1>11. k \in Nat
  OBVIOUS
<1>12. Ahead(r, k) /\ r.seen = <<>>
  BY <1>5, <1>9, <1>10, <1>11, IdleAhead
<1>13. Pends(t) => r = x
  <2>1. Pends(t) => t # <<>>
    BY DEF Pends
  <2> QED BY <1>5, <1>10, <2>1
<1> QED BY <1>3, <1>5, <1>12, <1>13

LEMMA OnwardAsItIs ==
    ASSUME NEW n \in Nat, NEW s, Ahead(s, n), s.todo # <<>>, NEW r, r = Moved(s, s)
    PROVE  /\ Ahead(r, n) /\ r.seen = <<>>
           /\ Pends(s.todo) => s.todo[1].do # "append" /\ (Named(s.todo[1]) \/ (r.event = s.event /\ Pends(r.todo)))
<1>1. PICK q, k : q = s /\ k = n
  OBVIOUS
<1>2. /\ k \in {n, n + 1} /\ DOMAIN q = DOMAIN s /\ q.todo = s.todo /\ q.rescue = s.rescue /\ q.guarded = s.guarded
      /\ q.event \in 0..k /\ q.first \in 0..k /\ r = Moved(q, s)
  BY <1>1 DEF Ahead
<1>3. /\ Ahead(r, k) /\ r.seen = <<>>
      /\ Pends(s.todo) => s.todo[1].do # "append" /\ (Named(s.todo[1]) \/ (r.event = q.event /\ Pends(r.todo)))
  BY <1>2, Onward
<1> QED BY <1>1, <1>3

\* The access a process is at.
LEMMA AtHead ==
    ASSUME ProgInv, NEW p \in Process, NEW what, At(p, what)
    PROVE  /\ Ahead(prog[p], made.event) /\ made.event \in Nat /\ prog[p].todo # <<>> /\ Rest(p) = Tail(prog[p].todo)
           /\ Next1(p) = prog[p].todo[1] /\ prog[p].todo[1].do = what /\ prog[p].todo[1] \in Access(made.event)
           /\ prog[p].event \in Nat
           /\ what \in Openers => prog[p].event = 0
<1>1. Ahead(prog[p], made.event) /\ made.event \in Nat
  BY DEF ProgInv
<1>2. prog[p].todo # <<>> /\ Head(prog[p].todo).do = what /\ prog[p].todo \in Seq(Access(made.event))
  BY <1>1 DEF At, Next1, Ahead
<1>3. Head(prog[p].todo) = prog[p].todo[1] /\ prog[p].todo[1] \in Access(made.event) /\ 1 \in DOMAIN prog[p].todo
  BY <1>2, Tailed
<1>4. what \in Openers => prog[p].event = 0
  BY <1>1, <1>2, <1>3 DEF Ahead
<1>5. prog[p].event \in Nat
  BY <1>1 DEF Ahead
<1> QED BY <1>1, <1>2, <1>3, <1>4, <1>5 DEF Rest, Next1

\* An access to neither log.
LEMMA AdvanceKeeps ==
    ASSUME NEW b \in BOOLEAN, RecordsInv(b), NEW p \in Process, NEW what \in {"node", "edge", "artifact", "notify", "resolve"}, At(p, what),
           NEW q, DOMAIN q = DOMAIN prog[p], q.todo = prog[p].todo, q.rescue = prog[p].rescue, q.guarded = prog[p].guarded,
           q.event = prog[p].event, q.first = prog[p].first, Advance(p, q),
           made' \in [event : Nat, record : Nat, artifact : Nat, item : Nat], made'.event = made.event,
           UNCHANGED <<events, eventCut, audit, auditCut, audited, broken, stale>>
    PROVE  RecordsInv(b)'
<1> DEFINE n == made.event
<1>1. ProgInv /\ LogOk(events, eventCut, b) /\ AuditOk(b)
  BY DEF RecordsInv
<1>2. /\ Ahead(prog[p], n) /\ n \in Nat /\ prog[p].todo # <<>> /\ Rest(p) = Tail(prog[p].todo)
      /\ prog[p].todo[1].do = what
  BY <1>1, AtHead
<1>3. PICK r : r = Moved(q, prog[p])
  OBVIOUS
<1>4. prog' = [prog EXCEPT ![p] = r]
  BY <1>2, <1>3 DEF Advance, Moved
<1>5. q.event \in 0..n /\ q.first \in 0..n
  BY <1>2 DEF Ahead
<1>6. ~Named(prog[p].todo[1])
  BY <1>2 DEF Named
<1> HIDE DEF n
<1>7. Ahead(r, n) /\ r.seen = <<>> /\ (Pends(prog[p].todo) => r.event = prog[p].event /\ Pends(r.todo))
  <2>1. n \in {n, n + 1}
    OBVIOUS
  <2>2. PICK s : s = prog[p]
    OBVIOUS
  <2>3. /\ Ahead(s, n) /\ s.todo # <<>> /\ r = Moved(q, s) /\ DOMAIN q = DOMAIN s
        /\ q.todo = s.todo /\ q.rescue = s.rescue /\ q.guarded = s.guarded
    BY <1>2, <1>3, <2>2
  <2>4. Ahead(r, n) /\ r.seen = <<>> /\ (Pends(s.todo) => Named(s.todo[1]) \/ (r.event = q.event /\ Pends(r.todo)))
    BY <1>2, <1>5, <2>1, <2>3, Onward
  <2> QED BY <1>6, <2>2, <2>4
<1>8. ASSUME \A id : id # 0 /\ Traced(id) => Traced(id)' PROVE LogOk(events, eventCut, b)' /\ AuditOk(b)' /\ SeenOk(r, b)'
  <2>1. LogOk(events, eventCut, b)'
    BY <1>1, <1>2, <1>8, EventsStay DEF n
  <2>2. AuditOk(b)'
    BY <1>1, AuditStays
  <2> QED BY <1>7, <2>1, <2>2 DEF SeenOk
<1>9. Ahead(r, made'.event)
  BY <1>7 DEF n
<1> QED BY <1>4, <1>7, <1>8, <1>9, RecordsStep

\* An exception: what goes on in the catch has no audit record to write.
LEMMA ThrowKeeps ==
    ASSUME NEW b \in BOOLEAN, RecordsInv(b), NEW p \in Process, NEW what \in {"node", "edge"}, At(p, what), Throw(p),
           UNCHANGED <<events, eventCut, audit, auditCut, audited, made, stale>>
    PROVE  RecordsInv(b)'
<1> DEFINE n == made.event
           q == prog[p]
           rescued == q.rescue # <<>> /\ Len(q.todo) <= q.guarded
<1>1. ProgInv /\ LogOk(events, eventCut, b) /\ AuditOk(b) /\ SeenOk(q, b)
  BY DEF RecordsInv
<1>2. Ahead(q, n) /\ n \in Nat /\ q.todo # <<>> /\ q.todo[1].do = what /\ q.event \in Nat
  BY <1>1, AtHead
<1>3. q.seen = <<>>
  BY <1>1, <1>2 DEF SeenOk, Openers
<1>4. PICK r : r = IF rescued THEN [q EXCEPT !.todo = q.rescue, !.rescue = <<>>] ELSE Idle
  OBVIOUS
<1>5. prog' = [prog EXCEPT ![p] = r] /\ broken' = IF rescued THEN broken ELSE broken \cup ({q.event} \ {0})
  BY <1>4 DEF Throw
<1>6. made' \in [event : Nat, record : Nat, artifact : Nat, item : Nat] /\ made' = made
  BY <1>1 DEF ProgInv
<1> HIDE DEF n, q
<1>7. Ahead(r, n) /\ r.seen = <<>>
  <2>1. CASE rescued
    <3>1. Follows(q.rescue, n)
      BY <1>2 DEF Ahead
    <3>2. DOMAIN r = {"todo", "rescue", "guarded", "event", "first", "artifact", "item", "seen"}
      BY <1>2, <1>4, <2>1 DEF Ahead
    <3>3. r.todo = q.rescue /\ r.rescue = <<>> /\ r.guarded = q.guarded /\ r.event = q.event /\ r.first = q.first /\ r.seen = q.seen
      BY <1>2, <1>4, <2>1 DEF Ahead
    <3>4. Follows(<<>>, n)
      BY Pieces DEF Quiet
    <3>5. q.event \in 0..n /\ q.first \in 0..n /\ q.guarded \in Nat
      BY <1>2 DEF Ahead
    <3>6. q.rescue \in Seq(Access(n)) /\ Closes(q.rescue) /\ \A i \in DOMAIN q.rescue : q.rescue[i].do \notin Openers
      BY <3>1 DEF Follows
    <3> QED BY <1>3, <3>2, <3>3, <3>4, <3>5, <3>6 DEF Ahead
  <2>2. CASE ~rescued
    BY <1>2, <1>4, <2>2, IdleAhead
  <2> QED BY <2>1, <2>2
<1>8. q.event # 0 /\ Pends(q.todo) => q.event \in broken'
  <2>1. CASE rescued
    <3>1. Unnamed(q.todo, q.guarded) /\ q.todo \in Seq(Access(n)) /\ q.guarded \in Nat
      BY <1>2, <2>1 DEF Ahead
    <3>2. \A i \in DOMAIN q.todo : i > Len(q.todo) - q.guarded
      BY <2>1, <3>1
    <3>3. ~Pends(q.todo)
      BY <3>1, <3>2 DEF Unnamed, Pends
    <3> QED BY <3>3
  <2>2. CASE ~rescued
    BY <1>5, <2>2
  <2> QED BY <2>1, <2>2
<1>9. broken \subseteq broken'
  BY <1>5
<1>10. ASSUME \A id : id # 0 /\ Traced(id) => Traced(id)' PROVE LogOk(events, eventCut, b)' /\ AuditOk(b)' /\ SeenOk(r, b)'
  <2>1. LogOk(events, eventCut, b)'
    BY <1>1, <1>2, <1>10, EventsStay DEF n
  <2>2. AuditOk(b)'
    BY <1>1, AuditStays
  <2> QED BY <1>7, <2>1, <2>2 DEF SeenOk
<1>11. Ahead(r, made'.event)
  BY <1>6, <1>7 DEF n
<1>12. prog[p].event # 0 /\ Pends(prog[p].todo) => prog[p].event \in broken'
  BY <1>8 DEF q
<1> QED BY <1>5, <1>6, <1>9, <1>10, <1>11, <1>12, RecordsStep

----------------------------------------------------------------------------
LEMMA CallKeeps == ASSUME NEW b \in BOOLEAN, RecordsInv(b), NEW p \in Process, Call(p) PROVE RecordsInv(b)'
<1>1. ProgInv /\ LogOk(events, eventCut, b) /\ AuditOk(b)
  BY DEF RecordsInv
<1>2. made \in [event : Nat, record : Nat, artifact : Nat, item : Nat] /\ made.event \in Nat /\ made.item \in Nat
  BY <1>1 DEF ProgInv
<1>3. /\ prog[p] = Idle
      /\ UNCHANGED <<events, eventCut, audit, auditCut, made, audited, broken, stale>>
  BY DEF Call, logs
<1>4. PICK kind \in Start : \E r \in Calls(kind) : prog' = [prog EXCEPT ![p] = r]
  BY DEF Call
<1>5. PICK r \in Calls(kind) : prog' = [prog EXCEPT ![p] = r]
  BY <1>4
<1>6. Ahead(r, made.event) /\ r.event = 0 /\ r.seen = <<>>
  BY <1>2, CallsAhead
<1>7. prog[p].event = 0
  BY <1>3 DEF Idle
<1>8. ASSUME \A id : id # 0 /\ Traced(id) => Traced(id)' PROVE LogOk(events, eventCut, b)' /\ AuditOk(b)' /\ SeenOk(r, b)'
  <2>1. LogOk(events, eventCut, b)'
    BY <1>1, <1>2, <1>3, <1>8, EventsStay
  <2>2. AuditOk(b)'
    BY <1>1, <1>3, AuditStays
  <2>3. PICK s : s = r
    OBVIOUS
  <2>4. SeenOk(s, b)'
    BY <1>6, <2>3 DEF SeenOk
  <2> QED BY <2>1, <2>2, <2>3, <2>4 DEF SeenOk
<1>9. Ahead(r, made'.event) /\ made' \in [event : Nat, record : Nat, artifact : Nat, item : Nat] /\ made'.event = made.event
  BY <1>2, <1>3, <1>6
<1>10. audited \subseteq audited' /\ broken \subseteq broken' /\ stale \subseteq stale'
  BY <1>3
<1> QED BY <1>5, <1>7, <1>8, <1>9, <1>10, RecordsStep

LEMMA KillKeeps == ASSUME NEW b \in BOOLEAN, RecordsInv(b), NEW p \in Process, Kill(p) PROVE RecordsInv(b)'
<1>1. ProgInv /\ LogOk(events, eventCut, b) /\ AuditOk(b)
  BY DEF RecordsInv
<1>2. made \in [event : Nat, record : Nat, artifact : Nat, item : Nat] /\ made.event \in Nat
  BY <1>1 DEF ProgInv
<1>3. /\ prog' = [prog EXCEPT ![p] = Idle] /\ broken' = broken \cup ({prog[p].event} \ {0})
      /\ UNCHANGED <<events, eventCut, audit, auditCut, made, audited, stale>>
  BY DEF Kill, logs
<1>4. PICK r : r = Idle
  OBVIOUS
<1>5. Ahead(r, made.event) /\ r.seen = <<>>
  BY <1>2, <1>4, IdleAhead
<1>6. ASSUME \A id : id # 0 /\ Traced(id) => Traced(id)' PROVE LogOk(events, eventCut, b)' /\ AuditOk(b)' /\ SeenOk(r, b)'
  <2>1. LogOk(events, eventCut, b)'
    BY <1>1, <1>2, <1>3, <1>6, EventsStay
  <2>2. AuditOk(b)'
    BY <1>1, <1>3, AuditStays
  <2> QED BY <1>5, <2>1, <2>2 DEF SeenOk
<1>7. Ahead(r, made'.event) /\ made' \in [event : Nat, record : Nat, artifact : Nat, item : Nat] /\ made'.event = made.event
  BY <1>2, <1>3, <1>5
<1>8. audited \subseteq audited' /\ broken \subseteq broken' /\ stale \subseteq stale' /\ prog' = [prog EXCEPT ![p] = r]
  BY <1>3, <1>4
<1>9. prog[p].event # 0 => prog[p].event \in broken'
  BY <1>3
<1> QED BY <1>6, <1>7, <1>8, <1>9, RecordsStep

\* A process that reads goes on with what it read, or ends when there is nothing to do.
LEMMA ReadKeeps ==
    ASSUME NEW b \in BOOLEAN, RecordsInv(b), NEW p \in Process, NEW what, At(p, what), what \in Openers \cup {"append"},
           NEW seen, NEW r, r = [prog[p] EXCEPT !.seen = seen] \/ (r = Idle /\ what \in Openers), prog' = [prog EXCEPT ![p] = r],
           r # Idle => SeenOk([prog[p] EXCEPT !.seen = seen], b),
           UNCHANGED <<events, eventCut, audit, auditCut, made, audited, broken, stale>>
    PROVE  RecordsInv(b)'
<1>1. ProgInv /\ LogOk(events, eventCut, b) /\ AuditOk(b)
  BY DEF RecordsInv
<1>2. made \in [event : Nat, record : Nat, artifact : Nat, item : Nat] /\ made.event \in Nat
  BY <1>1 DEF ProgInv
<1>3. Ahead(prog[p], made.event) /\ (what \in Openers => prog[p].event = 0)
  BY <1>1, AtHead
<1>4. CASE r = Idle
  <2>1. Ahead(r, made.event) /\ r.seen = <<>> /\ ~Pends(r.todo) /\ r.event = 0
    BY <1>2, <1>4, IdleAhead DEF Idle
  <2>2. ASSUME \A id : id # 0 /\ Traced(id) => Traced(id)' PROVE LogOk(events, eventCut, b)' /\ AuditOk(b)' /\ SeenOk(r, b)'
    <3>1. LogOk(events, eventCut, b)'
      BY <1>1, <1>2, <2>2, EventsStay
    <3>2. AuditOk(b)'
      BY <1>1, AuditStays
    <3> QED BY <2>1, <3>1, <3>2 DEF SeenOk
  <2>3. Ahead(r, made'.event) /\ made' \in [event : Nat, record : Nat, artifact : Nat, item : Nat] /\ made'.event = made.event
    BY <1>2, <2>1
  <2>4. prog[p].event # 0 /\ Pends(prog[p].todo) => r.event = prog[p].event /\ Pends(r.todo)
    <3>1. CASE what \in Openers
      BY <1>3, <3>1
    <3>2. CASE what \notin Openers
      <4>1. r = [prog[p] EXCEPT !.seen = seen]
        BY <3>2
      <4>2. r.event = prog[p].event /\ r.todo = prog[p].todo
        BY <1>3, <4>1 DEF Ahead
      <4> QED BY <4>2
    <3> QED BY <3>1, <3>2
  <2>5. audited \subseteq audited' /\ broken \subseteq broken' /\ stale \subseteq stale'
    OBVIOUS
  <2> QED BY <2>2, <2>3, <2>4, <2>5, RecordsStep
<1>5. CASE r # Idle
  <2>1. r = [prog[p] EXCEPT !.seen = seen] /\ SeenOk(r, b)
    BY <1>5
  <2>2. /\ DOMAIN r = DOMAIN prog[p] /\ r.event = prog[p].event /\ r.todo = prog[p].todo /\ r.rescue = prog[p].rescue
        /\ r.guarded = prog[p].guarded /\ r.first = prog[p].first
    BY <1>3, <2>1 DEF Ahead
  <2>3. Ahead(r, made.event)
    BY <1>3, <2>2 DEF Ahead
  <2>4. ASSUME \A id : id # 0 /\ Traced(id) => Traced(id)' PROVE LogOk(events, eventCut, b)' /\ AuditOk(b)' /\ SeenOk(r, b)'
    <3>1. LogOk(events, eventCut, b)'
      BY <1>1, <1>2, <2>4, EventsStay
    <3>2. AuditOk(b)'
      BY <1>1, AuditStays
    <3>3. PICK s : s = r
      OBVIOUS
    <3>4. SeenOk(s, b)'
      BY <1>2, <2>1, <2>4, <3>3, SeenStays
    <3> QED BY <3>1, <3>2, <3>3, <3>4 DEF SeenOk
  <2>5. Ahead(r, made'.event) /\ made' \in [event : Nat, record : Nat, artifact : Nat, item : Nat] /\ made'.event = made.event
    BY <1>2, <2>3
  <2>6. audited \subseteq audited' /\ broken \subseteq broken' /\ stale \subseteq stale'
    OBVIOUS
  <2> QED BY <2>2, <2>4, <2>5, <2>6, RecordsStep
<1> QED BY <1>4, <1>5

LEMMA AppendReadKeeps == ASSUME NEW b \in BOOLEAN, RecordsInv(b), NEW p \in Process, AppendRead(p) PROVE RecordsInv(b)'
<1> DEFINE seen == <<events, eventCut>>
           q == [prog[p] EXCEPT !.seen = seen]
<1>1. At(p, "append") /\ UNCHANGED <<events, eventCut, audit, auditCut, made, audited, broken, stale>>
  BY DEF AppendRead, logs
<1>2. prog' = [prog EXCEPT ![p] = q]
  BY DEF AppendRead
<1>3. Ahead(prog[p], made.event) /\ prog[p].todo # <<>> /\ prog[p].todo[1].do = "append"
  BY <1>1, AtHead DEF RecordsInv
<1>4. q.seen = seen /\ q.todo = prog[p].todo
  BY <1>3 DEF Ahead
<1>5. seen[1] = events /\ seen[2] = eventCut /\ LogOk(events, eventCut, b)
  BY DEF RecordsInv
<1> HIDE DEF q, seen
<1>6. SeenOk(q, b)
  BY <1>3, <1>4, <1>5 DEF SeenOk
<1>7. PICK s, r : s = seen /\ r = q
  OBVIOUS
<1>8. r = [prog[p] EXCEPT !.seen = s] /\ SeenOk([prog[p] EXCEPT !.seen = s], b) /\ prog' = [prog EXCEPT ![p] = r]
  BY <1>2, <1>6, <1>7 DEF q
<1> QED BY <1>1, <1>8, ReadKeeps

LEMMA ResolveReadKeeps == ASSUME NEW b \in BOOLEAN, RecordsInv(b), NEW p \in Process, ResolveRead(p) PROVE RecordsInv(b)'
<1> DEFINE seen == <<inbox>>
           q == [prog[p] EXCEPT !.seen = seen]
<1>1. At(p, "resolve") /\ UNCHANGED <<events, eventCut, audit, auditCut, made, audited, broken, stale>>
  BY DEF ResolveRead, logs
<1>2. prog' = [prog EXCEPT ![p] = q] \/ prog' = [prog EXCEPT ![p] = Idle]
  BY DEF ResolveRead
<1>3. Ahead(prog[p], made.event) /\ prog[p].todo # <<>> /\ prog[p].todo[1].do = "resolve"
  BY <1>1, AtHead DEF RecordsInv
<1>4. q.seen = seen /\ q.todo = prog[p].todo
  BY <1>3 DEF Ahead
<1> HIDE DEF q, seen
<1>5. SeenOk(q, b)
  BY <1>3, <1>4 DEF SeenOk, Openers
<1>6. PICK s, r : s = seen /\ (r = q \/ r = Idle) /\ prog' = [prog EXCEPT ![p] = r]
  BY <1>2
<1>7. r = [prog[p] EXCEPT !.seen = s] \/ (r = Idle /\ "resolve" \in Openers)
  BY <1>6 DEF q, Openers
<1>8. SeenOk([prog[p] EXCEPT !.seen = s], b) /\ "resolve" \in Openers
  BY <1>5, <1>6 DEF q, Openers
<1> QED BY <1>1, <1>6, <1>7, <1>8, ReadKeeps

----------------------------------------------------------------------------
LEMMA AddNodeKeeps == ASSUME NEW b \in BOOLEAN, RecordsInv(b), NEW p \in Process, AddNode(p) PROVE RecordsInv(b)'
<1>1. At(p, "node") /\ UNCHANGED <<events, eventCut, audit, auditCut, audited, made, stale>>
  BY DEF AddNode, logs
<1>2. made \in [event : Nat, record : Nat, artifact : Nat, item : Nat] /\ "node" \in {"node", "edge", "artifact", "notify", "resolve"}
  BY DEF RecordsInv, ProgInv
<1>3. Throw(p) \/ (Step(p) /\ UNCHANGED broken)
  BY DEF AddNode
<1>4. CASE Throw(p)
  BY <1>1, <1>4, ThrowKeeps
<1>5. CASE Step(p) /\ UNCHANGED broken
  <2>1. PICK q : q = prog[p]
    OBVIOUS
  <2>2. Advance(p, q)
    BY <1>5, <2>1 DEF Step
  <2> QED BY <1>1, <1>2, <1>5, <2>1, <2>2, AdvanceKeeps
<1> QED BY <1>3, <1>4, <1>5

LEMMA AddEdgeKeeps == ASSUME NEW b \in BOOLEAN, RecordsInv(b), NEW p \in Process, AddEdge(p) PROVE RecordsInv(b)'
<1>1. At(p, "edge") /\ UNCHANGED <<events, eventCut, audit, auditCut, audited, made, stale>>
  BY DEF AddEdge, logs
<1>2. made \in [event : Nat, record : Nat, artifact : Nat, item : Nat] /\ "edge" \in {"node", "edge", "artifact", "notify", "resolve"}
  BY DEF RecordsInv, ProgInv
<1>3. Throw(p) \/ (Step(p) /\ UNCHANGED broken)
  BY DEF AddEdge
<1>4. CASE Throw(p)
  BY <1>1, <1>4, ThrowKeeps
<1>5. CASE Step(p) /\ UNCHANGED broken
  <2>1. PICK q : q = prog[p]
    OBVIOUS
  <2>2. Advance(p, q)
    BY <1>5, <2>1 DEF Step
  <2> QED BY <1>1, <1>2, <1>5, <2>1, <2>2, AdvanceKeeps
<1> QED BY <1>3, <1>4, <1>5

LEMMA RecordArtifactKeeps == ASSUME NEW b \in BOOLEAN, RecordsInv(b), NEW p \in Process, RecordArtifact(p) PROVE RecordsInv(b)'
<1>1. At(p, "artifact") /\ UNCHANGED <<events, eventCut, audit, auditCut, audited, broken, stale>>
  BY DEF RecordArtifact, logs
<1>2. made \in [event : Nat, record : Nat, artifact : Nat, item : Nat] /\ "artifact" \in {"node", "edge", "artifact", "notify", "resolve"}
  BY DEF RecordsInv, ProgInv
<1>3. made' = [made EXCEPT !.artifact = made.artifact + 1] /\ Advance(p, [prog[p] EXCEPT !.artifact = made.artifact + 1])
  BY DEF RecordArtifact
<1>4. PICK q : q = [prog[p] EXCEPT !.artifact = made.artifact + 1] /\ Advance(p, q)
  BY <1>3
<1>5. Ahead(prog[p], made.event)
  BY DEF RecordsInv, ProgInv
<1>6. /\ DOMAIN q = DOMAIN prog[p] /\ q.todo = prog[p].todo /\ q.rescue = prog[p].rescue /\ q.guarded = prog[p].guarded
      /\ q.event = prog[p].event /\ q.first = prog[p].first
  BY <1>4, <1>5 DEF Ahead
<1>7. made' \in [event : Nat, record : Nat, artifact : Nat, item : Nat] /\ made'.event = made.event
  BY <1>2, <1>3
<1> QED BY <1>1, <1>2, <1>4, <1>6, <1>7, AdvanceKeeps

LEMMA NotifyKeeps == ASSUME NEW b \in BOOLEAN, RecordsInv(b), NEW p \in Process, Notify(p) PROVE RecordsInv(b)'
<1>1. At(p, "notify") /\ UNCHANGED <<events, eventCut, audit, auditCut, audited, broken, stale>>
  BY DEF Notify, logs
<1>2. made \in [event : Nat, record : Nat, artifact : Nat, item : Nat] /\ "notify" \in {"node", "edge", "artifact", "notify", "resolve"}
  BY DEF RecordsInv, ProgInv
<1>3. made' = [made EXCEPT !.item = made.item + 1] /\ Advance(p, [prog[p] EXCEPT !.item = made.item + 1])
  BY DEF Notify
<1>4. PICK q : q = [prog[p] EXCEPT !.item = made.item + 1] /\ Advance(p, q)
  BY <1>3
<1>5. Ahead(prog[p], made.event)
  BY DEF RecordsInv, ProgInv
<1>6. /\ DOMAIN q = DOMAIN prog[p] /\ q.todo = prog[p].todo /\ q.rescue = prog[p].rescue /\ q.guarded = prog[p].guarded
      /\ q.event = prog[p].event /\ q.first = prog[p].first
  BY <1>4, <1>5 DEF Ahead
<1>7. made' \in [event : Nat, record : Nat, artifact : Nat, item : Nat] /\ made'.event = made.event
  BY <1>2, <1>3
<1> QED BY <1>1, <1>2, <1>4, <1>6, <1>7, AdvanceKeeps

LEMMA ResolveWriteKeeps == ASSUME NEW b \in BOOLEAN, RecordsInv(b), NEW p \in Process, ResolveWrite(p) PROVE RecordsInv(b)'
<1>1. At(p, "resolve") /\ UNCHANGED <<events, eventCut, audit, auditCut, audited, broken, stale, made>>
  BY DEF ResolveWrite, logs
<1>2. made \in [event : Nat, record : Nat, artifact : Nat, item : Nat] /\ "resolve" \in {"node", "edge", "artifact", "notify", "resolve"}
  BY DEF RecordsInv, ProgInv
<1>3. PICK q : q = prog[p] /\ Advance(p, q)
  BY DEF ResolveWrite, Step
<1> QED BY <1>1, <1>2, <1>3, AdvanceKeeps

\* Verification: only a log without a checkpoint is given one, and that is where the earlier version cut it.
LEMMA RepairReadKeeps == ASSUME NEW b \in BOOLEAN, RecordsInv(b), NEW p \in Process, RepairRead(p) PROVE RecordsInv(b)'
<1>1. UNCHANGED <<events, eventCut, audit, auditCut, made, audited, broken, stale>>
  BY DEF RepairRead, logs
<1>2. LogOk(events, eventCut, b) /\ AuditOk(b) /\ ProgInv
  BY DEF RecordsInv
<1>3. CASE At(p, "repairEvents") /\ prog' = [prog EXCEPT ![p] = IF NeedsCut(events, eventCut)
                THEN [@ EXCEPT !.seen = <<[seq |-> Head(events).seq - 1, id |-> Head(events).parent]>>] ELSE Idle]
  <2> DEFINE cut == [seq |-> Head(events).seq - 1, id |-> Head(events).parent]
             q == [prog[p] EXCEPT !.seen = <<cut>>]
  <2>1. prog' = [prog EXCEPT ![p] = IF NeedsCut(events, eventCut) THEN q ELSE Idle]
    BY <1>3
  <2>2. Ahead(prog[p], made.event) /\ prog[p].todo # <<>> /\ prog[p].todo[1].do = "repairEvents"
    BY <1>2, <1>3, AtHead
  <2>3. q.seen = <<cut>> /\ q.todo = prog[p].todo
    BY <2>2 DEF Ahead
  <2>4. ASSUME NeedsCut(events, eventCut) PROVE cut \in ACut /\ ("events" \in stale \/ (b = TRUE /\ cut = OldCut))
    <3>1. events # <<>> /\ Head(events).seq > 1 /\ eventCut = NoCut /\ events \in Seq(AnEvent)
      BY <1>2, <2>4 DEF NeedsCut, LogOk, Log
    <3>2. Head(events) = events[1] /\ events[1] \in AnEvent
      BY <3>1
    <3>3. Head(events).seq \in Nat /\ Head(events).parent \in Nat
      BY <3>2 DEF AnEvent
    <3>4. Head(events).seq - 1 \in Nat
      BY <3>1, <3>3
    <3>5. cut \in ACut
      BY <3>3, <3>4 DEF ACut
    <3>6. ASSUME "events" \notin stale PROVE b = TRUE /\ cut = OldCut
      <4>1. Fits(events, NoCut, b)
        BY <1>2, <3>1, <3>6 DEF LogOk
      <4>2. b = TRUE
        BY <3>1, <3>2, <3>3, <4>1 DEF Fits
      <4>3. Head(events).seq = 3 /\ Head(events).parent = 0
        BY <3>2, <4>1, <4>2 DEF Fits
      <4>4. Head(events).seq - 1 = 2
        BY <4>3
      <4> QED BY <4>2, <4>3, <4>4 DEF OldCut
    <3> QED BY <3>5, <3>6
  <2> HIDE DEF q, cut
  <2>5. ASSUME NeedsCut(events, eventCut) PROVE SeenOk(q, b)
    <3>1. <<cut>>[1] = cut
      OBVIOUS
    <3> QED BY <2>2, <2>3, <2>4, <2>5, <3>1 DEF SeenOk, Openers
  <2>6. PICK s, r : s = <<cut>> /\ r = (IF NeedsCut(events, eventCut) THEN q ELSE Idle) /\ prog' = [prog EXCEPT ![p] = r]
    BY <2>1
  <2>7. "repairEvents" \in Openers
    BY DEF Openers
  <2>8. r = [prog[p] EXCEPT !.seen = s] \/ (r = Idle /\ "repairEvents" \in Openers)
    BY <2>6, <2>7 DEF q
  <2>9. r # Idle => SeenOk([prog[p] EXCEPT !.seen = s], b)
    BY <2>5, <2>6 DEF q
  <2>10. At(p, "repairEvents") /\ prog' = [prog EXCEPT ![p] = r]
    BY <1>3, <2>6
  <2>11. "repairEvents" \in Openers \cup {"append"}
    BY <2>7
  <2> QED BY <1>1, <2>8, <2>9, <2>10, <2>11, ReadKeeps
<1>4. CASE At(p, "repairAudit") /\ prog' = [prog EXCEPT ![p] = IF NeedsCut(audit, auditCut)
                THEN [@ EXCEPT !.seen = <<[seq |-> Head(audit).seq - 1, id |-> Head(audit).prev]>>] ELSE Idle]
  <2> DEFINE cut == [seq |-> Head(audit).seq - 1, id |-> Head(audit).prev]
             q == [prog[p] EXCEPT !.seen = <<cut>>]
  <2>1. prog' = [prog EXCEPT ![p] = IF NeedsCut(audit, auditCut) THEN q ELSE Idle]
    BY <1>4
  <2>2. Ahead(prog[p], made.event) /\ prog[p].todo # <<>> /\ prog[p].todo[1].do = "repairAudit"
    BY <1>2, <1>4, AtHead
  <2>3. q.seen = <<cut>> /\ q.todo = prog[p].todo
    BY <2>2 DEF Ahead
  <2>4. ASSUME NeedsCut(audit, auditCut) PROVE cut \in ACut /\ ("audit" \in stale \/ (b = TRUE /\ cut = OldCut))
    <3>1. audit # <<>> /\ Head(audit).seq > 1 /\ auditCut = NoCut /\ audit \in Seq(ARecord)
      BY <1>2, <2>4 DEF NeedsCut, AuditOk, Chain
    <3>2. Head(audit) = audit[1] /\ audit[1] \in ARecord
      BY <3>1
    <3>3. Head(audit).seq \in Nat /\ Head(audit).prev \in Nat
      BY <3>2 DEF ARecord
    <3>4. Head(audit).seq - 1 \in Nat
      BY <3>1, <3>3
    <3>5. cut \in ACut
      BY <3>3, <3>4 DEF ACut
    <3>6. ASSUME "audit" \notin stale PROVE b = TRUE /\ cut = OldCut
      <4>1. ChainFits(audit, NoCut, b)
        BY <1>2, <3>1, <3>6 DEF AuditOk
      <4>2. b = TRUE
        BY <3>1, <3>2, <3>3, <4>1 DEF ChainFits
      <4>3. Head(audit).seq = 3 /\ Head(audit).prev = 0
        BY <3>2, <4>1, <4>2 DEF ChainFits
      <4>4. Head(audit).seq - 1 = 2
        BY <4>3
      <4> QED BY <4>2, <4>3, <4>4 DEF OldCut
    <3> QED BY <3>5, <3>6
  <2> HIDE DEF q, cut
  <2>5. ASSUME NeedsCut(audit, auditCut) PROVE SeenOk(q, b)
    <3>1. <<cut>>[1] = cut
      OBVIOUS
    <3> QED BY <2>2, <2>3, <2>4, <2>5, <3>1 DEF SeenOk, Openers
  <2>6. PICK s, r : s = <<cut>> /\ r = (IF NeedsCut(audit, auditCut) THEN q ELSE Idle) /\ prog' = [prog EXCEPT ![p] = r]
    BY <2>1
  <2>7. "repairAudit" \in Openers
    BY DEF Openers
  <2>8. r = [prog[p] EXCEPT !.seen = s] \/ (r = Idle /\ "repairAudit" \in Openers)
    BY <2>6, <2>7 DEF q
  <2>9. r # Idle => SeenOk([prog[p] EXCEPT !.seen = s], b)
    BY <2>5, <2>6 DEF q
  <2>10. At(p, "repairAudit") /\ prog' = [prog EXCEPT ![p] = r]
    BY <1>4, <2>6
  <2>11. "repairAudit" \in Openers \cup {"append"}
    BY <2>7
  <2> QED BY <1>1, <2>8, <2>9, <2>10, <2>11, ReadKeeps
<1> QED BY <1>3, <1>4 DEF RepairRead

LEMMA RepairWriteKeeps == ASSUME NEW b \in BOOLEAN, RecordsInv(b), NEW p \in Process, RepairWrite(p) PROVE RecordsInv(b)'
<1>1. UNCHANGED <<events, audit, made, audited, broken>> /\ Step(p)
  BY DEF RepairWrite
<1>2. LogOk(events, eventCut, b) /\ AuditOk(b) /\ ProgInv /\ SeenOk(prog[p], b)
  BY DEF RecordsInv
<1>3. made \in [event : Nat, record : Nat, artifact : Nat, item : Nat] /\ made.event \in Nat
  BY <1>2 DEF ProgInv
<1>4. PICK s : s = prog[p]
  OBVIOUS
<1>5. PICK r : r = Moved(s, s)
  OBVIOUS
<1>6. prog[p].seen # <<>> /\ (At(p, "repairEvents") \/ At(p, "repairAudit"))
  BY DEF RepairWrite
<1>7. /\ Ahead(s, made.event) /\ s.todo # <<>> /\ Rest(p) = Tail(s.todo) /\ s.event = 0
      /\ s.todo[1].do \in {"repairEvents", "repairAudit"}
  BY <1>2, <1>4, <1>6, AtHead DEF Openers
<1>8. prog' = [prog EXCEPT ![p] = r]
  BY <1>1, <1>4, <1>5, <1>7 DEF Step, Advance, Moved
<1>9. Ahead(r, made.event) /\ r.seen = <<>>
  BY <1>3, <1>5, <1>7, OnwardAsItIs
<1>10. PICK cut : cut = s.seen[1]
  OBVIOUS
<1>11. stale \subseteq stale'
  BY DEF RepairWrite
<1>12. ASSUME \A id : id # 0 /\ Traced(id) => Traced(id)' PROVE LogOk(events, eventCut, b)' /\ AuditOk(b)' /\ SeenOk(r, b)'
  <2>1. SeenOk(r, b)'
    BY <1>9 DEF SeenOk
  <2>2. CASE At(p, "repairEvents") /\ eventCut' = cut /\ UNCHANGED auditCut
             /\ stale' = IF eventCut = NoCut THEN stale ELSE stale \cup {"events"}
    <3>1. cut \in ACut /\ ("events" \in stale \/ (b = TRUE /\ cut = OldCut))
      <4>1. s.todo[1].do = "repairEvents"
        BY <1>2, <1>4, <2>2, AtHead
      <4> QED BY <1>2, <1>4, <1>6, <1>10, <4>1 DEF SeenOk
    <3>2. AuditOk(b)'
      BY <1>1, <1>2, <1>11, <2>2, AuditStays
    <3>3. "events" \in stale' \/ Fits(events, cut, b)
      <4>1. CASE eventCut = NoCut /\ "events" \notin stale
        <5>1. b = TRUE /\ cut = OldCut /\ Fits(events, NoCut, TRUE)
          BY <1>2, <3>1, <4>1 DEF LogOk
        <5>2. events # <<>> /\ events[1].seq = 3 /\ events[1].parent = 0
          BY <5>1 DEF Fits
        <5>3. cut.seq = 2 /\ cut.id = 0 /\ NoCut.seq = 0
          BY <5>1 DEF OldCut, NoCut
        <5> QED BY <5>2, <5>3 DEF Fits
      <4>2. CASE eventCut # NoCut \/ "events" \in stale
        BY <2>2, <4>2
      <4> QED BY <4>1, <4>2
    <3>4. PICK log : log = events
      OBVIOUS
    <3>5. "events" \in stale' \/ Fits(log, cut, b)
      BY <3>3, <3>4
    <3>6. Log(log, made.event) /\ \A i \in DOMAIN log : log[i].by = "observe" => Traced(log[i].id)
      BY <1>2, <3>4 DEF LogOk
    <3>7. \A i \in DOMAIN log : log[i].by = "observe" => Traced(log[i].id)'
      <4>1. \A i \in DOMAIN log : log[i] \in AnEvent /\ log[i].cause < log[i].id
        BY <3>6 DEF Log
      <4>2. \A i \in DOMAIN log : log[i].id # 0
        BY <4>1 DEF AnEvent
      <4> QED BY <1>12, <3>6, <4>2
    <3>8. Log(log, made.event)' /\ Fits(log, cut, b)' = Fits(log, cut, b)
      <4>1. PICK n : n = made.event
        OBVIOUS
      <4>2. made'.event = n /\ Log(log, n)
        BY <1>1, <3>6, <4>1
      <4> QED BY <4>2 DEF Log, AnEvent, Fits, NoCut
    <3>9. LogOk(log, cut, b)'
      BY <3>1, <3>5, <3>7, <3>8 DEF LogOk, ACut
    <3>10. events' = log /\ eventCut' = cut
      BY <1>1, <2>2, <3>4
    <3>11. LogOk(events, eventCut, b)'
      BY <3>9, <3>10 DEF LogOk
    <3> QED BY <2>1, <3>2, <3>11
  <2>3. CASE At(p, "repairAudit") /\ auditCut' = cut /\ UNCHANGED eventCut
             /\ stale' = IF auditCut = NoCut THEN stale ELSE stale \cup {"audit"}
    <3>1. cut \in ACut /\ ("audit" \in stale \/ (b = TRUE /\ cut = OldCut))
      <4>1. s.todo[1].do = "repairAudit"
        BY <1>2, <1>4, <2>3, AtHead
      <4> QED BY <1>2, <1>4, <1>6, <1>10, <4>1 DEF SeenOk
    <3>2. LogOk(events, eventCut, b)'
      BY <1>1, <1>2, <1>3, <1>11, <1>12, <2>3, EventsStay
    <3>3. "audit" \in stale' \/ ChainFits(audit, cut, b)
      <4>1. CASE auditCut = NoCut /\ "audit" \notin stale
        <5>1. b = TRUE /\ cut = OldCut /\ ChainFits(audit, NoCut, TRUE)
          BY <1>2, <3>1, <4>1 DEF AuditOk
        <5>2. audit # <<>> /\ audit[1].seq = 3 /\ audit[1].prev = 0
          BY <5>1 DEF ChainFits
        <5>3. cut.seq = 2 /\ cut.id = 0 /\ NoCut.seq = 0
          BY <5>1 DEF OldCut, NoCut
        <5> QED BY <5>2, <5>3 DEF ChainFits
      <4>2. CASE auditCut # NoCut \/ "audit" \in stale
        BY <2>3, <4>2
      <4> QED BY <4>1, <4>2
    <3>4. AuditOk(b)'
      <4>1. audit' = audit /\ auditCut' = cut /\ Chain(audit)
        BY <1>1, <1>2, <2>3 DEF AuditOk
      <4> QED BY <3>1, <3>3, <4>1 DEF AuditOk, Chain, ChainFits, NoCut, ACut, ARecord
    <3> QED BY <2>1, <3>2, <3>4
  <2> QED BY <1>4, <1>10, <2>2, <2>3 DEF RepairWrite
<1>13. Ahead(r, made'.event) /\ made' \in [event : Nat, record : Nat, artifact : Nat, item : Nat] /\ made'.event = made.event
  BY <1>1, <1>3, <1>9
<1>14. audited \subseteq audited' /\ broken \subseteq broken' /\ prog[p].event = 0
  BY <1>1, <1>4, <1>7
<1> QED BY <1>8, <1>11, <1>12, <1>13, <1>14, RecordsStep

----------------------------------------------------------------------------
\* The log an append leaves.
LEMMA LogKept ==
    ASSUME NEW n \in Nat, NEW log, Log(log, n), NEW new \in AnEvent, new.id = n + 1, new.cause <= n, new.parent <= n,
           new.seq = IF log = <<>> THEN 1 ELSE log[Len(log)].seq + 1,
           new.by = "observe" => new.parent = IF log = <<>> THEN 0 ELSE log[Len(log)].id,
           NEW cut \in ACut, NEW b \in BOOLEAN, NEW kept, kept = Trimmed(log \o <<new>>, cut)
    PROVE  /\ Log(kept.events, n + 1) /\ kept.cut \in ACut
           /\ Fits(log, cut, b) => Fits(kept.events, kept.cut, b)
           /\ \A i \in DOMAIN kept.events : kept.events[i] = new \/ \E j \in DOMAIN log : kept.events[i] = log[j]
<1> DEFINE u == log \o <<new>>
           k == Len(u)
<1>1. Log(u, n + 1) /\ (Fits(log, cut, b) => Fits(u, cut, b))
  BY LogAppend
<1>2. log \in Seq(AnEvent) /\ <<new>> \in Seq(AnEvent)
  BY DEF Log
<1>3. k = Len(log) + 1 /\ k \in Nat /\ \A i \in DOMAIN u : u[i] = new \/ \E j \in DOMAIN log : u[i] = log[j]
  BY <1>2, Joined
<1>4. KeepEvents \in Nat \ {0}
  BY RecordsAssumption
<1>5. kept = IF k - KeepEvents <= 0 THEN [events |-> u, cut |-> cut]
             ELSE [events |-> Keep(u, KeepEvents), cut |-> [seq |-> u[k - KeepEvents].seq, id |-> u[k - KeepEvents].id]]
  BY DEF Trimmed
<1> HIDE DEF u
<1>6. CASE k - KeepEvents <= 0
  <2>1. kept.events = u /\ kept.cut = cut
    BY <1>5, <1>6
  <2> QED BY <1>1, <1>3, <2>1
<1>7. CASE ~(k - KeepEvents <= 0)
  <2> DEFINE m == k - KeepEvents
             c == [seq |-> u[m].seq, id |-> u[m].id]
             v == SubSeq(u, 1 + m, Len(u))
  <2>1. m \in Nat \ {0} /\ m < k /\ k > KeepEvents
    BY <1>3, <1>4, <1>7
  <2>2. Keep(u, KeepEvents) = v
    BY <2>1 DEF Keep
  <2>3. kept.events = v /\ kept.cut = c
    <3>1. kept = [events |-> Keep(u, KeepEvents), cut |-> c]
      BY <1>5, <1>7
    <3> HIDE DEF c, v, m
    <3>2. kept.events = Keep(u, KeepEvents) /\ kept.cut = c
      BY <3>1
    <3> QED BY <2>2, <3>2
  <2>4. Log(v, n + 1) /\ c \in ACut /\ Fits(v, c, b) /\ \A i \in DOMAIN v : \E j \in DOMAIN u : v[i] = u[j]
    <3>1. n + 1 \in Nat
      OBVIOUS
    <3> HIDE DEF m
    <3> QED BY <1>1, <2>1, <3>1, LogTrim
  <2> HIDE DEF v, c, m
  <2> QED BY <1>3, <2>3, <2>4
<1> QED BY <1>6, <1>7

\* The chain recordAudit leaves.
LEMMA ChainKept ==
    ASSUME NEW chain, Chain(chain), NEW new \in ARecord,
           new.seq = IF chain = <<>> THEN 1 ELSE chain[Len(chain)].seq + 1,
           new.prev = IF chain = <<>> THEN 0 ELSE chain[Len(chain)].id,
           NEW cut \in ACut, NEW b \in BOOLEAN
    PROVE  /\ Chain(chain \o <<new>>)
           /\ ChainFits(chain, cut, b) => ChainFits(chain \o <<new>>, cut, b)
<1> DEFINE m == Len(chain)
           u == chain \o <<new>>
<1>1. chain \in Seq(ARecord) /\ <<new>> \in Seq(ARecord)
  BY DEF Chain
<1>2. /\ m \in Nat /\ DOMAIN chain = 1..m /\ DOMAIN u = 1..(m + 1) /\ u \in Seq(ARecord)
      /\ \A i \in DOMAIN chain : u[i] = chain[i]
      /\ u[m + 1] = new /\ u # <<>> /\ (chain = <<>> <=> m = 0)
  BY <1>1
<1> HIDE DEF m, u
<1>3. \A i \in DOMAIN u : u[i].seq \in Nat
  <2>1. \A i \in DOMAIN u : u[i] \in ARecord
    BY <1>2
  <2> QED BY <2>1 DEF ARecord
<1>4. ASSUME NEW i \in DOMAIN u PROVE i \in Nat /\ ((i \in DOMAIN chain /\ u[i] = chain[i] /\ m # 0) \/ (i = m + 1 /\ u[i] = new))
  BY <1>2
<1>5. m # 0 => /\ m \in DOMAIN chain /\ 1 \in DOMAIN chain /\ 1 \in DOMAIN u /\ m \in DOMAIN u /\ m + 1 \in DOMAIN u
               /\ new.seq = chain[m].seq + 1 /\ u[1] = chain[1] /\ u[m] = chain[m] /\ new.prev = chain[m].id
  BY <1>2 DEF m
<1>6. m = 0 => u[1] = new /\ new.seq = 1 /\ new.prev = 0 /\ chain = <<>>
  BY <1>2
<1>7. ASSUME NEW i \in DOMAIN u PROVE u[i].seq + 1 = i + u[1].seq /\ u[i].seq >= 1
  <2>1. CASE i \in DOMAIN chain /\ u[i] = chain[i] /\ m # 0
    BY <1>5, <2>1 DEF Chain
  <2>2. CASE i = m + 1 /\ u[i] = new /\ m # 0
    <3> DEFINE x == new.seq
               y == u[1].seq
               z == u[m].seq
    <3>1. x \in Nat /\ y \in Nat /\ z \in Nat /\ x = z + 1 /\ m \in Nat
      BY <1>2, <1>3, <1>5, <2>2
    <3>2. z + 1 = m + y
      BY <1>5, <2>2 DEF Chain
    <3> HIDE DEF x, y, z
    <3>3. x + 1 = (m + 1) + y /\ x >= 1
      BY <3>1, <3>2
    <3> QED BY <2>2, <3>3 DEF x, y
  <2>3. CASE i = m + 1 /\ u[i] = new /\ m = 0
    BY <1>6, <2>3
  <2> QED BY <1>4, <2>1, <2>2, <2>3
<1>8. ASSUME NEW i \in DOMAIN u, i > 1 PROVE u[i].prev = u[i - 1].id
  <2>1. CASE i \in DOMAIN chain /\ u[i] = chain[i] /\ m # 0
    <3>1. i - 1 \in DOMAIN chain
      BY <1>2, <1>8, <2>1
    <3>2. chain[i].prev = chain[i - 1].id
      BY <1>8, <2>1 DEF Chain
    <3> QED BY <1>2, <2>1, <3>1, <3>2
  <2>2. CASE i = m + 1 /\ u[i] = new
    <3>1. m # 0 /\ i - 1 = m
      BY <1>2, <1>8, <2>2
    <3> QED BY <1>5, <2>2, <3>1
  <2> QED BY <1>4, <2>1, <2>2
<1>9. Chain(u)
  BY <1>2, <1>7, <1>8 DEF Chain
<1>10. ASSUME ChainFits(chain, cut, b) PROVE ChainFits(u, cut, b)
  <2>1. CASE m = 0
    BY <1>2, <1>6, <1>10, <2>1 DEF ChainFits
  <2>2. CASE m # 0
    <3>1. chain # <<>> /\ u[1] = chain[1]
      BY <1>2, <1>5, <2>2
    <3> QED BY <1>2, <1>10, <3>1 DEF ChainFits
  <2> QED BY <2>1, <2>2
<1> QED BY <1>9, <1>10 DEF u

LEMMA ChainTrim ==
    ASSUME NEW chain, Chain(chain), NEW m \in Nat \ {0}, m < Len(chain), NEW b \in BOOLEAN
    PROVE  /\ Chain(SubSeq(chain, 1 + m, Len(chain)))
           /\ [seq |-> chain[m].seq, id |-> chain[m].id] \in ACut
           /\ ChainFits(SubSeq(chain, 1 + m, Len(chain)), [seq |-> chain[m].seq, id |-> chain[m].id], b)
<1> DEFINE u == SubSeq(chain, 1 + m, Len(chain))
           k == Len(chain)
<1>1. chain \in Seq(ARecord)
  BY DEF Chain
<1>2. k \in Nat /\ m < k /\ k - m \in Nat /\ k - m >= 1 /\ DOMAIN chain = 1..k /\ m \in DOMAIN chain /\ m + 1 \in DOMAIN chain
  BY <1>1
<1>3. /\ u \in Seq(ARecord) /\ Len(u) = k - m /\ DOMAIN u = 1..(k - m) /\ u # <<>>
      /\ \A i \in DOMAIN u : u[i] = chain[i + m]
  <2>1. \A i \in (1 + m)..k : chain[i] \in ARecord
    BY <1>1, <1>2
  <2>2. u \in Seq(ARecord)
    BY <1>1, <1>2, <2>1
  <2>3. Len(u) = k - m
    <3>1. Len(u) = IF 1 + m <= k THEN k - (1 + m) + 1 ELSE 0
      BY <1>1, <1>2
    <3>2. 1 + m <= k /\ k - (1 + m) + 1 = k - m
      BY <1>2
    <3> QED BY <3>1, <3>2
  <2>4. DOMAIN u = 1..(k - m)
    BY <2>2, <2>3
  <2>5. ASSUME NEW i \in 1..(k - m) PROVE u[i] = chain[i + m]
    <3>1. u[i] = chain[(1 + m) + i - 1]
      BY <1>1, <1>2
    <3>2. (1 + m) + i - 1 = i + m
      OBVIOUS
    <3> QED BY <3>1, <3>2
  <2>6. u # <<>>
    <3> DEFINE l == Len(u)
    <3>1. l = k - m
      BY <2>3
    <3> HIDE DEF l, k
    <3>2. l # 0
      BY <1>2, <3>1
    <3> HIDE DEF u
    <3> QED BY <3>2 DEF l
  <2> QED BY <2>2, <2>3, <2>4, <2>5, <2>6
<1> HIDE DEF u, k
<1>4. \A i \in DOMAIN chain : chain[i].id \in Nat /\ chain[i].seq \in Nat
  <2>1. \A i \in DOMAIN chain : chain[i] \in ARecord
    BY <1>1
  <2> QED BY <2>1 DEF ARecord
<1>5. ASSUME NEW i \in DOMAIN u PROVE i \in Nat /\ i + m \in DOMAIN chain /\ u[i] = chain[i + m]
  BY <1>2, <1>3
<1>6. 1 \in DOMAIN u /\ u[1] = chain[m + 1]
  <2>1. 1 \in DOMAIN u
    BY <1>2, <1>3
  <2>2. u[1] = chain[1 + m]
    BY <1>5, <2>1
  <2> QED BY <2>1, <2>2
<1>7. /\ chain[m + 1].seq + 1 = (m + 1) + chain[1].seq /\ chain[m].seq + 1 = m + chain[1].seq /\ chain[m].seq >= 1
      /\ chain[m + 1].prev = chain[m].id
  <2>1. m + 1 > 1 /\ (m + 1) - 1 = m
    OBVIOUS
  <2> QED BY <1>2, <2>1 DEF Chain
<1>8. ASSUME NEW i \in DOMAIN u PROVE u[i].seq + 1 = i + u[1].seq /\ u[i].seq >= 1
  <2>1. chain[i + m].seq + 1 = (i + m) + chain[1].seq /\ chain[i + m].seq >= 1
    BY <1>5 DEF Chain
  <2>2. chain[1].seq \in Nat /\ chain[m + 1].seq \in Nat /\ chain[i + m].seq \in Nat /\ i \in Nat
    <3>1. 1 \in DOMAIN chain
      BY <1>2
    <3> QED BY <1>2, <1>4, <1>5, <3>1
  <2>3. chain[i + m].seq + 1 = i + chain[m + 1].seq
    <3> DEFINE x == chain[i + m].seq
               y == chain[1].seq
               z == chain[m + 1].seq
    <3>1. x \in Nat /\ y \in Nat /\ z \in Nat /\ i \in Nat
      BY <2>2
    <3>2. x + 1 = (i + m) + y
      BY <2>1
    <3>3. z + 1 = (m + 1) + y
      BY <1>7
    <3> HIDE DEF x, y, z
    <3>4. x + 1 = i + z
      BY <3>1, <3>2, <3>3
    <3> QED BY <3>4 DEF x, z
  <2> QED BY <1>5, <1>6, <2>1, <2>3
<1>9. ASSUME NEW i \in DOMAIN u, i > 1 PROVE u[i].prev = u[i - 1].id
  <2>1. i - 1 \in DOMAIN u /\ (i - 1) + m = (i + m) - 1 /\ i + m > 1
    <3>1. i \in 1..(k - m) /\ i \in Nat
      BY <1>3, <1>5
    <3>2. i - 1 \in 1..(k - m)
      BY <1>2, <1>9, <3>1
    <3> QED BY <1>3, <1>9, <3>1, <3>2
  <2>2. u[i - 1] = chain[(i + m) - 1]
    BY <1>5, <2>1
  <2>3. chain[i + m].prev = chain[(i + m) - 1].id
    BY <1>5, <2>1 DEF Chain
  <2> QED BY <1>5, <2>2, <2>3
<1>10. Chain(u)
  BY <1>3, <1>8, <1>9 DEF Chain
<1> DEFINE cut == [seq |-> chain[m].seq, id |-> chain[m].id]
<1>11. cut \in ACut /\ cut.seq = chain[m].seq /\ cut.id = chain[m].id
  BY <1>2, <1>4 DEF ACut
<1>12. cut # NoCut
  <2>1. NoCut.seq = 0
    BY DEF NoCut
  <2> HIDE DEF cut
  <2> QED BY <1>7, <1>11, <2>1
<1> HIDE DEF cut
<1>13. u[1].seq = cut.seq + 1
  <2> DEFINE x == chain[1].seq
             y == chain[m].seq
             z == chain[m + 1].seq
  <2>1. x \in Nat /\ y \in Nat /\ z \in Nat
    <3>1. 1 \in DOMAIN chain /\ m \in DOMAIN chain /\ m + 1 \in DOMAIN chain
      BY <1>2
    <3> QED BY <1>4, <3>1
  <2>2. z + 1 = (m + 1) + x /\ y + 1 = m + x
    BY <1>7
  <2> HIDE DEF x, y, z
  <2>3. z = y + 1
    BY <2>1, <2>2
  <2>4. chain[m + 1].seq = chain[m].seq + 1
    BY <2>3 DEF y, z
  <2> QED BY <1>6, <1>11, <2>4
<1>14. ChainFits(u, cut, b)
  BY <1>3, <1>6, <1>7, <1>11, <1>12, <1>13 DEF ChainFits
<1> QED BY <1>10, <1>11, <1>14 DEF u, k, cut

----------------------------------------------------------------------------
LEMMA AppendWriteKeeps == ASSUME NEW b \in BOOLEAN, RecordsInv(b), NEW p \in Process, AppendWrite(p) PROVE RecordsInv(b)'
<1> DEFINE n == made.event
           a == prog[p].todo[1]
           log == prog[p].seen[1]
           cut == prog[p].seen[2]
           last == IF log = <<>> THEN [seq |-> 0, id |-> 0] ELSE Last(log)
           new == [id |-> n + 1, seq |-> last.seq + 1, by |-> a.by, cause |-> a.cause,
                   parent |-> IF a.parent /\ prog[p].first # 0 THEN prog[p].first ELSE last.id]
           kept == Trimmed(log \o <<new>>, cut)
           q == [prog[p] EXCEPT !.event = n + 1, !.first = IF @ = 0 THEN n + 1 ELSE @]
<1>1. ProgInv /\ LogOk(events, eventCut, b) /\ AuditOk(b) /\ SeenOk(prog[p], b)
  BY DEF RecordsInv
<1>2. made \in [event : Nat, record : Nat, artifact : Nat, item : Nat] /\ n \in Nat
  BY <1>1 DEF ProgInv
<1>3. At(p, "append") /\ prog[p].seen # <<>> /\ UNCHANGED <<audit, auditCut, audited, broken, stale>>
  BY DEF AppendWrite
<1>4. /\ Ahead(prog[p], n) /\ prog[p].todo # <<>> /\ Rest(p) = Tail(prog[p].todo)
      /\ Next1(p) = a /\ a.do = "append" /\ a \in Access(n)
  BY <1>1, <1>3, AtHead
<1>5. /\ events' = kept.events /\ eventCut' = kept.cut
      /\ made' = [made EXCEPT !.event = n + 1]
      /\ Advance(p, q)
  BY <1>4 DEF AppendWrite
<1>6. a.by \in {"observe", "workshop"} /\ a.cause \in 0..n /\ a.parent \in BOOLEAN /\ (a.by = "observe" => a.parent = FALSE)
  BY <1>4 DEF Access
<1>7. LogOk(log, cut, b)
  BY <1>1, <1>3, <1>4 DEF SeenOk
<1>8. prog[p].event \in 0..n /\ prog[p].first \in 0..n
  BY <1>4 DEF Ahead
<1> HIDE DEF n, a, log, cut
<1>9. Log(log, n) /\ cut \in ACut /\ log \in Seq(AnEvent)
  BY <1>7 DEF LogOk, Log, n
<1>10. /\ last.seq \in Nat /\ last.id \in 0..n
       /\ log = <<>> => last.seq = 0 /\ last.id = 0
       /\ log # <<>> => last.seq = log[Len(log)].seq /\ last.id = log[Len(log)].id
  <2>1. CASE log = <<>>
    BY <1>2, <2>1
  <2>2. CASE log # <<>>
    <3>1. Len(log) \in DOMAIN log /\ last = log[Len(log)]
      BY <1>9, <2>2 DEF Last
    <3>2. log[Len(log)] \in AnEvent /\ log[Len(log)].id <= n
      BY <1>9, <3>1 DEF Log
    <3>3. log[Len(log)].seq \in Nat /\ log[Len(log)].id \in Nat
      BY <3>2 DEF AnEvent
    <3> QED BY <1>2, <2>2, <3>1, <3>2, <3>3
  <2> QED BY <2>1, <2>2
<1> HIDE DEF last
<1> DEFINE par == IF a.parent /\ prog[p].first # 0 THEN prog[p].first ELSE last.id
<1>11. par \in 0..n /\ (a.by = "observe" => par = last.id)
  BY <1>6, <1>8, <1>10
<1>12. new = [id |-> n + 1, seq |-> last.seq + 1, by |-> a.by, cause |-> a.cause, parent |-> par]
  OBVIOUS
<1> HIDE DEF new, par
<1>13. new.id = n + 1 /\ new.seq = last.seq + 1 /\ new.by = a.by /\ new.cause = a.cause /\ new.parent = par
  BY <1>12
<1>14. new \in AnEvent
  <2>1. n + 1 \in Nat /\ last.seq + 1 \in Nat /\ a.cause \in Nat /\ par \in Nat
    BY <1>2, <1>6, <1>10, <1>11
  <2> QED BY <1>6, <1>12, <2>1 DEF AnEvent
<1>15. new.cause <= n /\ new.parent <= n
  BY <1>2, <1>6, <1>11, <1>13
<1>16. new.seq = IF log = <<>> THEN 1 ELSE log[Len(log)].seq + 1
  BY <1>10, <1>13
<1>17. new.by = "observe" => new.parent = IF log = <<>> THEN 0 ELSE log[Len(log)].id
  BY <1>10, <1>11, <1>13
<1>18. PICK k : k = kept
  OBVIOUS
<1>19. /\ Log(k.events, n + 1) /\ k.cut \in ACut
       /\ Fits(log, cut, b) => Fits(k.events, k.cut, b)
       /\ \A i \in DOMAIN k.events : k.events[i] = new \/ \E j \in DOMAIN log : k.events[i] = log[j]
  BY <1>2, <1>9, <1>13, <1>14, <1>15, <1>16, <1>17, <1>18, LogKept
<1>20. made' \in [event : Nat, record : Nat, artifact : Nat, item : Nat] /\ made'.event = n + 1
  BY <1>2, <1>5 DEF n
<1>21. PICK s, x, r : s = prog[p] /\ x = q /\ r = Moved(x, s)
  OBVIOUS
<1>22. prog' = [prog EXCEPT ![p] = r]
  BY <1>4, <1>5, <1>21 DEF Advance, Moved
<1>23. /\ DOMAIN x = DOMAIN s /\ x.todo = s.todo /\ x.rescue = s.rescue /\ x.guarded = s.guarded
       /\ x.event = n + 1 /\ x.first = IF s.first = 0 THEN n + 1 ELSE s.first
  BY <1>4, <1>21 DEF Ahead
<1>24. x.event \in 0..(n + 1) /\ x.first \in 0..(n + 1)
  BY <1>2, <1>8, <1>21, <1>23
<1>25. /\ Ahead(r, n + 1) /\ r.seen = <<>>
       /\ (a.by = "observe" => r.event = n + 1 /\ Pends(r.todo))
       /\ ~Pends(s.todo)
  <2>1. n + 1 \in {n, n + 1} /\ Ahead(s, n) /\ s.todo # <<>> /\ s.todo[1] = a
    BY <1>4, <1>21 DEF a
  <2> HIDE DEF q, kept
  <2>2. /\ Ahead(r, n + 1) /\ r.seen = <<>>
        /\ s.todo[1].do = "append" /\ s.todo[1].by = "observe" => r.event = x.event /\ Pends(r.todo)
        /\ Pends(s.todo) => s.todo[1].do # "append"
    BY <1>2, <1>21, <1>23, <1>24, <2>1, Onward
  <2> QED BY <1>4, <1>23, <2>1, <2>2
<1>26. ASSUME \A id : id # 0 /\ Traced(id) => Traced(id)', prog'[p] = r PROVE LogOk(events, eventCut, b)' /\ AuditOk(b)' /\ SeenOk(r, b)'
  <2>1. AuditOk(b)'
    BY <1>1, <1>3, AuditStays
  <2>2. SeenOk(r, b)'
    BY <1>25 DEF SeenOk
  <2>3. PICK l, e : l = log /\ e = new
    OBVIOUS
  <2>4. /\ Log(k.events, n + 1) /\ k.cut \in ACut
        /\ Fits(l, cut, b) => Fits(k.events, k.cut, b)
        /\ \A i \in DOMAIN k.events : k.events[i] = e \/ \E j \in DOMAIN l : k.events[i] = l[j]
    BY <1>19, <2>3
  <2>5. \A i \in DOMAIN l : l[i] \in AnEvent /\ l[i].cause < l[i].id /\ (l[i].by = "observe" => Traced(l[i].id))
    BY <1>7, <2>3 DEF LogOk, Log
  <2>6. \A i \in DOMAIN l : l[i].id # 0
    BY <2>5 DEF AnEvent
  <2>7. \A i \in DOMAIN l : l[i].by = "observe" => Traced(l[i].id)'
    BY <1>26, <2>5, <2>6
  <2>8. e.by = "observe" => Traced(e.id)'
    <3> SUFFICES ASSUME e.by = "observe" PROVE Traced(e.id)'
      OBVIOUS
    <3>1. e.id = n + 1 /\ r.event = n + 1 /\ Pends(r.todo)
      BY <1>13, <1>25, <2>3
    <3>2. prog'[p].event = e.id /\ Pends(prog'[p].todo)
      BY <1>26, <3>1
    <3> QED BY <3>2 DEF Traced
  <2>9. \A i \in DOMAIN k.events : k.events[i].by = "observe" => Traced(k.events[i].id)'
    BY <2>4, <2>7, <2>8
  <2>10. "events" \in stale' \/ Fits(k.events, k.cut, b)
    BY <1>3, <1>7, <2>3, <2>4 DEF LogOk
  <2>11. Log(k.events, made.event)' /\ Fits(k.events, k.cut, b)' = Fits(k.events, k.cut, b)
    <3>1. PICK m : m = n + 1
      OBVIOUS
    <3>2. made'.event = m /\ Log(k.events, m)
      BY <1>20, <2>4, <3>1
    <3> QED BY <3>2 DEF Log, AnEvent, Fits, NoCut
  <2>12. LogOk(k.events, k.cut, b)'
    BY <2>4, <2>9, <2>10, <2>11 DEF LogOk, ACut
  <2>13. events' = k.events /\ eventCut' = k.cut
    BY <1>5, <1>18
  <2>14. LogOk(events, eventCut, b)'
    BY <2>12, <2>13 DEF LogOk
  <2> QED BY <2>1, <2>2, <2>14
<1>27. Ahead(r, made'.event) /\ made'.event = made.event + 1
  BY <1>20, <1>25 DEF n
<1>28. audited \subseteq audited' /\ broken \subseteq broken' /\ stale \subseteq stale' /\ ~Pends(prog[p].todo)
  BY <1>3, <1>21, <1>25
<1> HIDE DEF q, kept
<1> QED BY <1>20, <1>22, <1>26, <1>27, <1>28, RecordsStep

----------------------------------------------------------------------------
LEMMA RecordAuditKeeps == ASSUME NEW b \in BOOLEAN, RecordsInv(b), NEW p \in Process, RecordAudit(p) PROVE RecordsInv(b)'
<1> DEFINE n == made.event
           a == prog[p].todo[1]
           last == IF audit = <<>> THEN NoCut ELSE Last(audit)
           event == IF a.named THEN prog[p].event ELSE 0
           new == [id |-> made.record + 1, seq |-> last.seq + 1, event |-> event, prev |-> last.id]
           chain == audit \o <<new>>
           m == Len(chain) - KeepRecords
           after == IF KeepRecords = 0 THEN chain ELSE Keep(chain, KeepRecords)
           cut == CutOf(chain)
<1>1. ProgInv /\ LogOk(events, eventCut, b) /\ AuditOk(b) /\ SeenOk(prog[p], b)
  BY DEF RecordsInv
<1>2. made \in [event : Nat, record : Nat, artifact : Nat, item : Nat] /\ n \in Nat /\ made.record + 1 \in Nat
  BY <1>1 DEF ProgInv
<1>3. At(p, "audit") /\ UNCHANGED <<events, eventCut, broken, stale>>
  BY DEF RecordAudit
<1>4. /\ Ahead(prog[p], n) /\ prog[p].todo # <<>> /\ Rest(p) = Tail(prog[p].todo)
      /\ Next1(p) = a /\ a.do = "audit" /\ a \in Access(n)
  BY <1>1, <1>3, AtHead
<1>5. /\ audit' = after /\ auditCut' = cut
      /\ made' = [made EXCEPT !.record = made.record + 1]
      /\ audited' = audited \cup ({event} \ {0})
      /\ Step(p)
  BY <1>4 DEF RecordAudit
<1>6. a.named \in BOOLEAN
  BY <1>4 DEF Access
<1>7. prog[p].event \in 0..n /\ prog[p].first \in 0..n /\ event \in Nat
  BY <1>2, <1>4 DEF Ahead
<1>8. Chain(audit) /\ auditCut \in ACut /\ audit \in Seq(ARecord)
  BY <1>1 DEF AuditOk, Chain
<1> HIDE DEF n, a, event
<1>9. /\ last.seq \in Nat /\ last.id \in Nat
      /\ audit = <<>> => last.seq = 0 /\ last.id = 0
      /\ audit # <<>> => last.seq = audit[Len(audit)].seq /\ last.id = audit[Len(audit)].id
  <2>1. CASE audit = <<>>
    BY <2>1 DEF NoCut
  <2>2. CASE audit # <<>>
    <3>1. Len(audit) \in DOMAIN audit /\ last = audit[Len(audit)]
      BY <1>8, <2>2 DEF Last
    <3>2. audit[Len(audit)] \in ARecord
      BY <1>8, <3>1
    <3>3. audit[Len(audit)].seq \in Nat /\ audit[Len(audit)].id \in Nat
      BY <3>2 DEF ARecord
    <3> QED BY <2>2, <3>1, <3>3
  <2> QED BY <2>1, <2>2
<1> HIDE DEF last
<1>10. new \in ARecord /\ new.seq = last.seq + 1 /\ new.prev = last.id
  BY <1>2, <1>7, <1>9 DEF ARecord
<1> HIDE DEF new
<1>11. /\ new.seq = IF audit = <<>> THEN 1 ELSE audit[Len(audit)].seq + 1
       /\ new.prev = IF audit = <<>> THEN 0 ELSE audit[Len(audit)].id
  BY <1>9, <1>10
<1>12. Chain(chain) /\ (ChainFits(audit, auditCut, b) => ChainFits(chain, auditCut, b))
  BY <1>8, <1>10, <1>11, ChainKept
<1>13. Len(chain) \in Nat /\ KeepRecords \in Nat
  <2>1. chain \in Seq(ARecord)
    BY <1>12 DEF Chain
  <2> QED BY <2>1, RecordsAssumption
<1> HIDE DEF chain
<1>14. /\ Chain(after) /\ cut \in ACut
       /\ ChainFits(audit, auditCut, b) => ChainFits(after, cut, b)
  <2>1. CASE KeepRecords = 0
    <3>1. after = chain /\ cut = auditCut
      BY <2>1 DEF CutOf
    <3> QED BY <1>8, <1>12, <3>1
  <2>2. CASE KeepRecords # 0 /\ m <= 0
    <3>1. cut = auditCut
      BY <2>2 DEF CutOf
    <3>2. after = SubSeq(chain, 1, Len(chain))
      <4>1. ~(Len(chain) > KeepRecords)
        BY <1>13, <2>2
      <4>2. after = Keep(chain, KeepRecords)
        BY <2>2
      <4>3. Keep(chain, KeepRecords) = SubSeq(chain, 1 + 0, Len(chain))
        BY <4>1 DEF Keep
      <4>4. 1 + 0 = 1
        OBVIOUS
      <4> HIDE DEF after
      <4> QED BY <4>2, <4>3, <4>4
    <3>3. chain \in Seq(ARecord)
      BY <1>12 DEF Chain
    <3>4. after = chain
      BY <3>2, <3>3
    <3> QED BY <1>8, <1>12, <3>1, <3>4
  <2>3. CASE KeepRecords # 0 /\ ~(m <= 0)
    <3> DEFINE c == [seq |-> chain[m].seq, id |-> chain[m].id]
               v == SubSeq(chain, 1 + m, Len(chain))
    <3>1. m \in Nat \ {0} /\ m < Len(chain) /\ Len(chain) > KeepRecords
      BY <1>13, <2>3
    <3>2. cut = c
      BY <2>3 DEF CutOf
    <3>3. after = v
      BY <2>3, <3>1 DEF Keep
    <3>4. Chain(v) /\ c \in ACut /\ ChainFits(v, c, b)
      <4> HIDE DEF m
      <4> QED BY <1>12, <3>1, ChainTrim
    <3> HIDE DEF after, cut, c, v
    <3> QED BY <3>2, <3>3, <3>4
  <2> QED BY <2>1, <2>2, <2>3
<1>15. made' \in [event : Nat, record : Nat, artifact : Nat, item : Nat] /\ made'.event = made.event
  BY <1>2, <1>5
<1> HIDE DEF after, cut
<1>16. PICK s, r : s = prog[p] /\ r = Moved(s, s)
  OBVIOUS
<1>17. prog' = [prog EXCEPT ![p] = r]
  BY <1>4, <1>5, <1>16 DEF Step, Advance, Moved
<1>18. Ahead(r, n) /\ r.seen = <<>> /\ (Pends(s.todo) => Named(a) \/ (r.event = s.event /\ Pends(r.todo)))
  <2>1. Ahead(s, n) /\ s.todo # <<>> /\ s.todo[1] = a
    BY <1>4, <1>16 DEF a
  <2>2. /\ Ahead(r, n) /\ r.seen = <<>>
        /\ Pends(s.todo) => Named(s.todo[1]) \/ (r.event = s.event /\ Pends(r.todo))
    BY <1>2, <1>16, <2>1, OnwardAsItIs
  <2> QED BY <2>1, <2>2
<1>19. Named(a) /\ s.event # 0 => s.event \in audited'
  BY <1>5, <1>16 DEF Named, event
<1>20. ASSUME \A id : id # 0 /\ Traced(id) => Traced(id)' PROVE LogOk(events, eventCut, b)' /\ AuditOk(b)' /\ SeenOk(r, b)'
  <2>1. LogOk(events, eventCut, b)'
    BY <1>1, <1>2, <1>3, <1>15, <1>20, EventsStay DEF n
  <2>2. "audit" \in stale' \/ ChainFits(after, cut, b)
    BY <1>1, <1>3, <1>14 DEF AuditOk
  <2>3. AuditOk(b)'
    BY <1>5, <1>14, <2>2 DEF AuditOk, Chain, ChainFits, NoCut, ACut, ARecord
  <2> QED BY <1>18, <2>1, <2>3 DEF SeenOk
<1>21. Ahead(r, made'.event)
  BY <1>15, <1>18 DEF n
<1>22. audited \subseteq audited' /\ broken \subseteq broken' /\ stale \subseteq stale'
  BY <1>3, <1>5
<1>23. prog[p].event # 0 /\ Pends(prog[p].todo) => prog[p].event \in audited' \/ (r.event = prog[p].event /\ Pends(r.todo))
  BY <1>16, <1>18, <1>19
<1> QED BY <1>15, <1>17, <1>20, <1>21, <1>22, <1>23, RecordsStep

LEMMA RecordsStays == ASSUME NEW b \in BOOLEAN, RecordsInv(b), UNCHANGED vars PROVE RecordsInv(b)'
<1>1. UNCHANGED <<events, eventCut, audit, auditCut, prog, made, audited, broken, stale>>
  BY DEF vars, logs
<1>2. ProgInv /\ LogOk(events, eventCut, b) /\ AuditOk(b)
  BY DEF RecordsInv
<1>3. made.event \in Nat
  BY <1>2 DEF ProgInv
<1>4. ProgInv'
  <2>1. PICK n : n = made.event
    OBVIOUS
  <2>2. made'.event = n /\ \A p \in Process : Ahead(prog[p], n)
    BY <1>1, <1>2, <2>1 DEF ProgInv
  <2> QED BY <1>1, <1>2, <2>2 DEF ProgInv
<1>5. \A id : Traced(id) => Traced(id)'
  BY <1>1 DEF Traced
<1>6. LogOk(events, eventCut, b)' /\ AuditOk(b)'
  BY <1>1, <1>2, <1>3, <1>5, EventsStay, AuditStays
<1>7. ASSUME NEW p \in Process PROVE SeenOk(prog[p], b)'
  <2>1. PICK s : s = prog[p]
    OBVIOUS
  <2>2. SeenOk(s, b)
    BY <2>1 DEF RecordsInv
  <2>3. SeenOk(s, b)'
    BY <1>1, <1>3, <1>5, <2>2, SeenStays
  <2>4. prog'[p] = s
    BY <1>1, <2>1
  <2> QED BY <2>3, <2>4 DEF SeenOk
<1> QED BY <1>4, <1>6, <1>7 DEF RecordsInv

LEMMA RecordsKeeps == ASSUME NEW b \in BOOLEAN, RecordsInv(b), Next PROVE RecordsInv(b)'
<1>1. PICK p \in Process :
         \/ Call(p) \/ AppendRead(p) \/ AppendWrite(p) \/ AddNode(p) \/ AddEdge(p) \/ RecordAudit(p)
         \/ RecordArtifact(p) \/ Notify(p) \/ ResolveRead(p) \/ ResolveWrite(p)
         \/ RepairRead(p) \/ RepairWrite(p) \/ Kill(p)
  BY DEF Next
<1> QED BY <1>1, CallKeeps, AppendReadKeeps, AppendWriteKeeps, AddNodeKeeps, AddEdgeKeeps, RecordAuditKeeps,
           RecordArtifactKeeps, NotifyKeeps, ResolveReadKeeps, ResolveWriteKeeps, RepairReadKeeps, RepairWriteKeeps, KillKeeps

LEMMA RecordsStarts == Init => \E b \in BOOLEAN : RecordsInv(b)
<1> SUFFICES ASSUME Init PROVE \E b \in BOOLEAN : RecordsInv(b)
  OBVIOUS
<1>1. /\ eventCut = NoCut /\ auditCut = NoCut /\ prog = [p \in Process |-> Idle] /\ audited = 1..made.event /\ stale = {}
  BY DEF Init
<1>2. NoCut \in ACut
  BY DEF NoCut, ACut
<1>3. made \in [event : Nat, record : Nat, artifact : Nat, item : Nat]
  BY DEF Init
<1>4. ProgInv
  BY <1>1, <1>3, IdleAhead DEF ProgInv
<1>5. ASSUME NEW b \in BOOLEAN, NEW p \in Process PROVE SeenOk(prog[p], b)
  BY <1>1, <1>3, IdleAhead DEF SeenOk
<1>6. CASE events = <<>> /\ audit = <<>>
  <2>1. LogOk(events, eventCut, FALSE)
    BY <1>1, <1>2, <1>6 DEF LogOk, Log, Fits
  <2>2. AuditOk(FALSE)
    BY <1>1, <1>2, <1>6 DEF AuditOk, Chain, ChainFits
  <2> QED BY <1>4, <1>5, <2>1, <2>2 DEF RecordsInv
<1>7. CASE events = Legacy /\ audit = LegacyAudit /\ made = [event |-> 1, record |-> 1, artifact |-> 0, item |-> 0]
  <2> DEFINE e == [id |-> 1, seq |-> 3, parent |-> 0, cause |-> 0, by |-> "observe"]
             d == [id |-> 1, seq |-> 3, event |-> 0, prev |-> 0]
  <2>1. events = <<e>> /\ audit = <<d>>
    BY <1>7 DEF Legacy, LegacyAudit
  <2>2. /\ e \in AnEvent /\ e.id = 1 /\ e.seq = 3 /\ e.parent = 0 /\ e.cause = 0
        /\ d \in ARecord /\ d.seq = 3 /\ d.prev = 0
    BY DEF AnEvent, ARecord
  <2> HIDE DEF e, d
  <2>3. events \in Seq(AnEvent) /\ DOMAIN events = {1} /\ events[1] = e /\ events # <<>>
    BY <2>1, <2>2
  <2>4. audit \in Seq(ARecord) /\ DOMAIN audit = {1} /\ audit[1] = d /\ audit # <<>>
    BY <2>1, <2>2
  <2>5. made.event = 1 /\ 1 \in audited
    BY <1>1, <1>7
  <2>6. Log(events, made.event)
    BY <2>2, <2>3, <2>5 DEF Log
  <2>7. Fits(events, eventCut, TRUE)
    BY <1>1, <2>2, <2>3 DEF Fits
  <2>8. Traced(1)
    BY <2>5 DEF Traced
  <2>9. LogOk(events, eventCut, TRUE)
    BY <1>1, <1>2, <2>2, <2>3, <2>6, <2>7, <2>8 DEF LogOk
  <2>10. AuditOk(TRUE)
    BY <1>1, <1>2, <2>2, <2>4 DEF AuditOk, Chain, ChainFits
  <2> QED BY <1>4, <1>5, <2>9, <2>10 DEF RecordsInv
<1> QED BY <1>6, <1>7 DEF Init
----------------------------------------------------------------------------
\* What the invariant says of verification.
LEMMA RecordsShow == ASSUME NEW b \in BOOLEAN, RecordsInv(b) PROVE LogsVerify /\ EventsAudited
<1>1. LogOk(events, eventCut, b) /\ AuditOk(b) /\ ProgInv
  BY DEF RecordsInv
<1>2. Log(events, made.event) /\ events \in Seq(AnEvent) /\ eventCut \in ACut
  BY <1>1 DEF LogOk, Log
<1>3. Chain(audit) /\ audit \in Seq(ARecord) /\ auditCut \in ACut
  BY <1>1 DEF AuditOk, Chain
<1>4. ASSUME "events" \notin stale PROVE Following(events, eventCut)
  <2> SUFFICES ASSUME NEW i \in DOMAIN events
               PROVE  events[i].seq = i + (IF NeedsCut(events, eventCut) THEN Head(events).seq - 1 ELSE eventCut.seq)
    BY DEF Following
  <2> DEFINE x == events[i].seq
             y == events[1].seq
             z == eventCut.seq
  <2>1. 1 \in DOMAIN events /\ events # <<>> /\ Head(events) = events[1] /\ i \in Nat
    BY <1>2
  <2>2. x \in Nat /\ y \in Nat /\ z \in Nat /\ x + 1 = i + y /\ y >= 1
    <3>1. events[i] \in AnEvent /\ events[1] \in AnEvent
      BY <1>2, <2>1
    <3> QED BY <1>2, <2>1, <3>1 DEF AnEvent, ACut, Log
  <2>3. Fits(events, eventCut, b)
    BY <1>1, <1>4 DEF LogOk
  <2>4. NeedsCut(events, eventCut) \/ y = z + 1
    <3>1. CASE eventCut = NoCut
      <4>1. z = 0 /\ (y = 3 \/ y = 1)
        BY <2>1, <2>3, <3>1 DEF Fits, NoCut
      <4>2. CASE y = 3
        BY <2>1, <3>1, <4>2 DEF NeedsCut
      <4>3. CASE y = 1
        BY <4>1, <4>3
      <4> QED BY <4>1, <4>2, <4>3
    <3>2. CASE eventCut # NoCut
      BY <2>3, <3>2 DEF Fits
    <3> QED BY <3>1, <3>2
  <2>5. x = i + (y - 1) /\ (y = z + 1 => x = i + z)
    <3> HIDE DEF x, y, z
    <3> QED BY <2>1, <2>2
  <2> QED BY <2>1, <2>4, <2>5
<1>5. ASSUME "events" \notin stale, ~EventChainValid
      PROVE  \E i \in DOMAIN events :
                \/ events[i].cause \notin EventIds \cup {0}
                \/ (i > 1 \/ events[i].by = "workshop") /\ events[i].parent \notin EventIds \cup {0}
  <2> SUFFICES ASSUME \A i \in DOMAIN events :
                         /\ events[i].cause \in EventIds \cup {0}
                         /\ i > 1 \/ events[i].by = "workshop" => events[i].parent \in EventIds \cup {0}
               PROVE  EventChainValid
    BY <1>5
  <2>1. ASSUME NEW i \in DOMAIN events, NEW id \in EventIds, id < events[i].id
        PROVE  \E f \in ToSet(events) : f.id = id /\ f.seq < events[i].seq
    <3>1. PICK f \in ToSet(events) : f.id = id
      BY DEF EventIds
    <3>2. PICK j \in DOMAIN events : f = events[j]
      BY DEF ToSet
    <3>3. i \in Nat /\ j \in Nat /\ 1 \in DOMAIN events
      BY <1>2
    <3>4. \A k \in DOMAIN events : events[k] \in AnEvent
      BY <1>2
    <3>5. \A k \in DOMAIN events : events[k].id \in Nat /\ events[k].seq \in Nat
      BY <3>4 DEF AnEvent
    <3>6. j < i
      <4>1. i < j => events[i].id < events[j].id
        BY <1>2 DEF Log
      <4> QED BY <2>1, <3>1, <3>2, <3>3, <3>5, <4>1
    <3>7. events[i].seq + 1 = i + events[1].seq /\ events[j].seq + 1 = j + events[1].seq
      BY <1>2 DEF Log
    <3>8. events[j].seq < events[i].seq
      <4> DEFINE x == events[i].seq
                 y == events[j].seq
                 z == events[1].seq
      <4>1. x \in Nat /\ y \in Nat /\ z \in Nat /\ x + 1 = i + z /\ y + 1 = j + z
        BY <3>3, <3>5, <3>7
      <4> HIDE DEF x, y, z
      <4>2. y < x
        BY <3>3, <3>6, <4>1
      <4> QED BY <4>2 DEF x, y
    <3> QED BY <3>1, <3>2, <3>8
  <2>2. CausesKnown
    <3> SUFFICES ASSUME NEW e \in ToSet(events), e.cause # 0 PROVE \E f \in ToSet(events) : f.id = e.cause /\ f.seq < e.seq
      BY DEF CausesKnown
    <3>1. PICK i \in DOMAIN events : e = events[i]
      BY DEF ToSet
    <3>2. e.cause \in EventIds /\ e.cause < e.id
      BY <1>2, <3>1 DEF Log
    <3> QED BY <2>1, <3>1, <3>2
  <2>3. ParentsKnown
    <3> SUFFICES ASSUME NEW i \in DOMAIN events, events[i].parent # 0
                 PROVE  \/ \E f \in ToSet(events) : f.id = events[i].parent /\ f.seq < events[i].seq
                        \/ i = 1 /\ (NeedsCut(events, eventCut) \/ events[i].parent = eventCut.id)
      BY DEF ParentsKnown
    <3>1. CASE i > 1 \/ events[i].by = "workshop"
      <4>1. events[i].parent \in EventIds /\ events[i].parent < events[i].id
        BY <1>2, <3>1 DEF Log
      <4> QED BY <2>1, <4>1
    <3>2. CASE ~(i > 1 \/ events[i].by = "workshop")
      <4>1. i = 1 /\ events # <<>>
        BY <1>2, <3>2
      <4>2. events[1].by = "observe"
        <5>1. events[1] \in AnEvent
          BY <1>2, <4>1
        <5> QED BY <3>2, <4>1, <5>1 DEF AnEvent
      <4>3. Fits(events, eventCut, b)
        BY <1>1, <1>5 DEF LogOk
      <4>4. CASE eventCut = NoCut
        BY <4>1, <4>2, <4>3, <4>4 DEF Fits
      <4>5. CASE eventCut # NoCut
        BY <4>1, <4>2, <4>3, <4>5 DEF Fits
      <4> QED BY <4>4, <4>5
    <3> QED BY <3>1, <3>2
  <2> QED BY <1>4, <1>5, <2>2, <2>3 DEF EventChainValid
<1>6. ASSUME "audit" \notin stale PROVE AuditChainValid
  <2>1. ASSUME NEW i \in DOMAIN audit
        PROVE  audit[i].seq = i + (IF NeedsCut(audit, auditCut) THEN Head(audit).seq - 1 ELSE auditCut.seq)
    <3> DEFINE x == audit[i].seq
               y == audit[1].seq
               z == auditCut.seq
    <3>1. 1 \in DOMAIN audit /\ audit # <<>> /\ Head(audit) = audit[1] /\ i \in Nat
      BY <1>3
    <3>2. x \in Nat /\ y \in Nat /\ z \in Nat /\ x + 1 = i + y /\ y >= 1
      <4>1. audit[i] \in ARecord /\ audit[1] \in ARecord
        BY <1>3, <3>1
      <4> QED BY <1>3, <3>1, <4>1 DEF ARecord, ACut, Chain
    <3>3. ChainFits(audit, auditCut, b)
      BY <1>1, <1>6 DEF AuditOk
    <3>4. NeedsCut(audit, auditCut) \/ y = z + 1
      <4>1. CASE auditCut = NoCut
        <5>1. z = 0 /\ (y = 3 \/ y = 1)
          BY <3>1, <3>3, <4>1 DEF ChainFits, NoCut
        <5>2. CASE y = 3
          BY <3>1, <4>1, <5>2 DEF NeedsCut
        <5>3. CASE y = 1
          BY <5>1, <5>3
        <5> QED BY <5>1, <5>2, <5>3
      <4>2. CASE auditCut # NoCut
        BY <3>3, <4>2 DEF ChainFits
      <4> QED BY <4>1, <4>2
    <3>5. x = i + (y - 1) /\ (y = z + 1 => x = i + z)
      <4> HIDE DEF x, y, z
      <4> QED BY <3>1, <3>2
    <3> QED BY <3>1, <3>4, <3>5
  <2>2. ASSUME NEW i \in DOMAIN audit
        PROVE  audit[i].prev = IF i > 1 THEN audit[i - 1].id
                               ELSE IF NeedsCut(audit, auditCut) THEN audit[1].prev ELSE auditCut.id
    <3>1. CASE i > 1
      BY <1>3, <3>1 DEF Chain
    <3>2. CASE ~(i > 1)
      <4>1. i = 1 /\ audit # <<>> /\ Head(audit) = audit[1]
        BY <1>3, <3>2
      <4>2. ChainFits(audit, auditCut, b)
        BY <1>1, <1>6 DEF AuditOk
      <4>3. NeedsCut(audit, auditCut) \/ audit[1].prev = auditCut.id
        <5>1. CASE auditCut = NoCut
          <6>1. auditCut.id = 0
            BY <5>1 DEF NoCut
          <6>2. audit[1].seq = 3 \/ audit[1].prev = 0
            BY <4>1, <4>2, <5>1 DEF ChainFits
          <6>3. CASE audit[1].seq = 3
            BY <4>1, <5>1, <6>3 DEF NeedsCut
          <6> QED BY <6>1, <6>2, <6>3
        <5>2. CASE auditCut # NoCut
          BY <4>2, <5>2 DEF ChainFits
        <5> QED BY <5>1, <5>2
      <4> QED BY <3>2, <4>1, <4>3
    <3> QED BY <3>1, <3>2
  <2> QED BY <2>1, <2>2 DEF AuditChainValid, Following
<1>7. EventsAudited
  <2> SUFFICES ASSUME NEW e \in ToSet(events), e.by = "observe"
               PROVE  e.id \in audited \cup broken \cup {prog[p].event : p \in Process}
    BY DEF EventsAudited
  <2>1. PICK i \in DOMAIN events : e = events[i]
    BY DEF ToSet
  <2>2. Traced(e.id)
    BY <1>1, <2>1 DEF LogOk
  <2> QED BY <2>2 DEF Traced
<1> QED BY <1>4, <1>5, <1>6, <1>7 DEF LogsVerify, SequenceUnbroken, FaultsAreForgotten, AuditUnbroken


----------------------------------------------------------------------------
(* What follows.  The invariant is that of the logs as the earlier version    *)
(* left them, or of new ones.                                                 *)

AnyRecords == RecordsInv(TRUE) \/ RecordsInv(FALSE)

LEMMA RecordsAlways == Spec => []AnyRecords
<1>1. Init => AnyRecords
  BY RecordsStarts DEF AnyRecords
<1>2. AnyRecords /\ [Next]_vars => AnyRecords'
  BY RecordsKeeps, RecordsStays DEF AnyRecords
<1> QED BY <1>1, <1>2, PTL DEF Spec

\* Both chains verify in every state (log.ts:145-170, audit.ts:82-142), for any
\* processes, calls and retention, whenever a process is killed: but for events
\* that name forgotten ones, and for a checkpoint that was reconstructed from
\* an outdated read.
THEOREM LogsAlwaysVerify == Spec => []LogsVerify
<1>1. AnyRecords => LogsVerify
  BY RecordsShow DEF AnyRecords
<1> QED BY <1>1, RecordsAlways, PTL

\* An event of observe that the log keeps has its audit record as soon as its
\* writer is done, unless the writer was killed or an endpoint it named was
\* refused (observability.ts:70-118), for any processes, calls and retention.
THEOREM EventsAlwaysAudited == Spec => []EventsAudited
<1>1. AnyRecords => EventsAudited
  BY RecordsShow DEF AnyRecords
<1> QED BY <1>1, RecordsAlways, PTL

----------------------------------------------------------------------------
(* Isolation.  What is remembered of the host was so at some time: a host     *)
(* that cannot isolate is on record, and a cgroup that was joined is no plain *)
(* directory.  What a command was started for follows from that.              *)

Answer == {"unknown", "yes", "no"}
Kept == [unshare : Answer, cgroup : Answer, scope : Answer, level : {"none", "off", "missing", "NAMESPACES"}]

\* What a cache says.
Said(c) ==
    /\ c \in Kept
    /\ c.unshare = "no" => lacked
    /\ c.cgroup = "yes" => host.cgroup # "plain"
    /\ c.level = "off" => setup.isolation = "off"

\* What may be bare.
BareAllowed == setup.isolation = "off" \/ (setup.isolation = "auto" /\ lacked)

\* What a command is that was started.
Started(o) ==
    /\ DOMAIN o = {"at", "way", "cgroup", "scope", "ran", "limited"}
    /\ o.at \in {"spawned", "running"} /\ o.way \in {"isolated", "bare"}
    /\ {o.cgroup, o.scope, o.ran, o.limited} \subseteq BOOLEAN
    /\ o.way = "isolated" => (o.cgroup <=> setup.cgroup)
    /\ o.way = "bare" => ~o.cgroup /\ ~o.scope /\ BareAllowed
    /\ o.cgroup => host.cgroup # "plain"
    /\ o.at = "running" /\ o.ran /\ (o.cgroup \/ o.scope) => o.limited

GuardingInv ==
    /\ setup \in Guarding!Setup /\ host \in Guarding!Host /\ lacked \in BOOLEAN /\ DOMAIN command = Process
    /\ ~Guarding!CanIsolate(host) => lacked
    /\ Said(cache)
    /\ \A c \in Process : command[c] = Guarding!Idle \/ Started(command[c])
    /\ Guarding!ClaimsHold

LEMMA NothingSaid == Said(Guarding!Nothing)
BY DEF Said, Guarding!Nothing, Kept, Answer

LEMMA GuardingStarts == Guarding!Init => GuardingInv
<1> SUFFICES ASSUME Guarding!Init PROVE GuardingInv
  OBVIOUS
<1>1. Guarding!ClaimsHold
  BY DEF Guarding!Init, Guarding!ClaimsHold
<1>2. lacked \in BOOLEAN /\ (~Guarding!CanIsolate(host) => lacked)
  BY DEF Guarding!Init, Guarding!CanIsolate
<1> QED BY <1>1, <1>2, NothingSaid DEF GuardingInv, Guarding!Init

\* Asking keeps what a cache says true.
LEMMA ProbedSaid ==
    ASSUME GuardingInv, NEW c, Said(c)
    PROVE  /\ Said(Guarding!Probed(c))
           /\ Guarding!Probed(c).level = c.level /\ Guarding!Probed(c).unshare = c.unshare
<1> DEFINE group == Guarding!Known(c.cgroup, Guarding!Joinable)
           scope == Guarding!Known(c.scope, Guarding!ScopeWorks)
<1>1. c \in Kept /\ (c.cgroup = "yes" => host.cgroup # "plain")
  BY DEF Said
<1>2. group \in Answer /\ (group = "yes" => host.cgroup # "plain")
  BY <1>1 DEF Guarding!Known, Guarding!Joinable, Kept, Answer
<1>3. scope \in Answer
  BY <1>1 DEF Guarding!Known, Guarding!ScopeWorks, Guarding!Yes, Kept, Answer
<1>4. Guarding!Probed(c) = [c EXCEPT !.cgroup = group, !.scope = scope]
  BY DEF Guarding!Probed
<1> HIDE DEF group, scope
<1> QED BY <1>1, <1>2, <1>3, <1>4 DEF Said, Kept

LEMMA AnewSaid ==
    ASSUME GuardingInv, NEW c, Said(c)
    PROVE  /\ Said(Guarding!Anew(c))
           /\ ~Guarding!Throws(c) /\ Guarding!Anew(c).level # "NAMESPACES" => setup.isolation = "off" \/ lacked
<1> DEFINE p == Guarding!Probed(c)
           probe == Guarding!Known(p.unshare, Guarding!Yes(host.userns))
<1>1. Said(p) /\ p \in Kept
  BY ProbedSaid DEF Said
<1>2. probe \in {"yes", "no"} /\ (probe = "no" => lacked)
  <2>1. CASE p.unshare = "unknown"
    <3>1. probe = Guarding!Yes(host.userns)
      BY <2>1 DEF Guarding!Known
    <3>2. host.userns \in BOOLEAN /\ (~host.userns => lacked)
      BY DEF GuardingInv, Guarding!CanIsolate, Guarding!Host
    <3> QED BY <3>1, <3>2 DEF Guarding!Yes
  <2>2. CASE p.unshare # "unknown"
    BY <1>1, <2>2 DEF Guarding!Known, Said, Kept, Answer
  <2> QED BY <2>1, <2>2
<1>3. Guarding!Anew(c) = IF Guarding!Throws(c) THEN p ELSE
                         CASE setup.isolation = "off" -> [p EXCEPT !.level = "off"]
                           [] Guarding!MissingPrerequisite -> [p EXCEPT !.level = "missing"]
                           [] OTHER -> [p EXCEPT !.unshare = probe, !.level = IF probe = "yes" THEN "NAMESPACES" ELSE "missing"]
  BY DEF Guarding!Anew
<1> HIDE DEF p, probe
<1>4. Guarding!MissingPrerequisite => lacked
  BY DEF Guarding!MissingPrerequisite, GuardingInv, Guarding!CanIsolate
<1>5. Guarding!MissingPrerequisite => setup.isolation # "off"
  BY DEF Guarding!MissingPrerequisite
<1>6. CASE Guarding!Throws(c)
  <2>1. Guarding!Anew(c) = p
    BY <1>3, <1>6
  <2> QED BY <1>1, <1>6, <2>1
<1>7. CASE ~Guarding!Throws(c) /\ setup.isolation = "off"
  <2>1. Guarding!Anew(c) = [p EXCEPT !.level = "off"]
    BY <1>3, <1>5, <1>7
  <2> QED BY <1>1, <1>7, <2>1 DEF Said, Kept
<1>8. CASE ~Guarding!Throws(c) /\ setup.isolation # "off" /\ Guarding!MissingPrerequisite
  <2>1. Guarding!Anew(c) = [p EXCEPT !.level = "missing"]
    BY <1>3, <1>8
  <2> QED BY <1>1, <1>4, <1>8, <2>1 DEF Said, Kept
<1>9. CASE ~Guarding!Throws(c) /\ setup.isolation # "off" /\ ~Guarding!MissingPrerequisite
  <2>1. Guarding!Anew(c) = [p EXCEPT !.unshare = probe, !.level = IF probe = "yes" THEN "NAMESPACES" ELSE "missing"]
    BY <1>3, <1>9
  <2> QED BY <1>1, <1>2, <1>9, <2>1 DEF Said, Kept, Answer
<1> QED BY <1>6, <1>7, <1>8, <1>9

\* A report, remembered or anew.
LEMMA ReportSaid ==
    ASSUME GuardingInv
    PROVE  /\ Said(Guarding!IsolationReport(cache))
           /\ ~(~Guarding!Reusable(cache) /\ Guarding!Throws(cache)) /\ Guarding!IsolationReport(cache).level # "NAMESPACES"
              => setup.isolation = "off" \/ lacked
<1>1. Said(cache)
  BY DEF GuardingInv
<1>2. CASE Guarding!Reusable(cache)
  BY <1>1, <1>2 DEF Guarding!IsolationReport, Guarding!Reusable, Said
<1>3. CASE ~Guarding!Reusable(cache)
  BY <1>1, <1>3, AnewSaid DEF Guarding!IsolationReport
<1> QED BY <1>2, <1>3

LEMMA RefreshedSaid ==
    ASSUME GuardingInv, NEW c, Said(c) PROVE Said(Guarding!Refreshed(c))
<1>1. Said([c EXCEPT !.unshare = "unknown"])
  BY DEF Said, Kept, Answer
<1> QED BY <1>1, AnewSaid DEF Guarding!Refreshed

\* What is spawned.
LEMMA SpawnedStarted ==
    ASSUME GuardingInv, NEW way \in {"isolated", "bare"},
           way = "isolated" => (setup.cgroup => host.cgroup # "plain"), way = "bare" => BareAllowed
    PROVE  Started(Guarding!Spawned(way))
<1>1. setup.cgroup \in BOOLEAN
  BY DEF GuardingInv, Guarding!Setup
<1> QED BY <1>1 DEF Guarding!Spawned, Started

LEMMA PlannedCgroup ==
    ASSUME GuardingInv, NEW c, Said(c), Guarding!Planned(c), setup.cgroup
    PROVE  host.cgroup # "plain"
BY DEF Said, Guarding!Planned, Guarding!MakesNode

LEMMA GuardExecuteKeeps ==
    ASSUME GuardingInv, NEW c \in Process, Guarding!Execute(c) PROVE GuardingInv'
<1> DEFINE seen == Guarding!IsolationReport(cache)
           throws == ~Guarding!Reusable(cache) /\ Guarding!Throws(cache)
           active == ~throws /\ seen.level = "NAMESPACES"
           fresh == Guarding!Refreshed(seen)
           bare == ~throws /\ ~active /\ setup.isolation # "on"
<1>1. Said(seen) /\ Said(fresh)
  BY ReportSaid, RefreshedSaid
<1>2. bare => BareAllowed
  BY ReportSaid DEF BareAllowed, GuardingInv, Guarding!Setup
<1>3. /\ setup' = setup /\ host' = host /\ lacked' = lacked /\ results' = results
      /\ cache' = IF active THEN fresh ELSE seen
      /\ command' = [command EXCEPT ![c] = CASE active /\ ~Guarding!Throws(seen) /\ Guarding!Planned(fresh) -> Guarding!Spawned("isolated")
                                             [] bare -> Guarding!Spawned("bare")
                                             [] OTHER -> Guarding!Idle]
  BY DEF Guarding!Execute
<1>4. active => ~bare
  OBVIOUS
<1> HIDE DEF seen, throws, active, fresh, bare
<1>5. command'[c] = Guarding!Idle \/ Started(command'[c])
  <2>1. CASE active /\ ~Guarding!Throws(seen) /\ Guarding!Planned(fresh)
    <3>1. command'[c] = Guarding!Spawned("isolated")
      BY <1>3, <1>4, <2>1 DEF GuardingInv
    <3>2. setup.cgroup => host.cgroup # "plain"
      BY <1>1, <2>1, PlannedCgroup
    <3> QED BY <3>1, <3>2, SpawnedStarted
  <2>2. CASE bare
    <3>1. command'[c] = Guarding!Spawned("bare")
      BY <1>3, <1>4, <2>2 DEF GuardingInv
    <3> QED BY <1>2, <2>2, <3>1, SpawnedStarted
  <2>3. CASE ~bare /\ ~(active /\ ~Guarding!Throws(seen) /\ Guarding!Planned(fresh))
    BY <1>3, <2>3 DEF GuardingInv
  <2> QED BY <2>1, <2>2, <2>3
<1>6. Said(cache')
  BY <1>1, <1>3
<1>7. Said(cache)'
  BY <1>3, <1>6 DEF Said
<1>8. \A d \in Process : command'[d] = Guarding!Idle \/ Started(command'[d])
  BY <1>3, <1>5 DEF GuardingInv
<1>9. \A o : Started(o) => Started(o)'
  BY <1>3 DEF Started, BareAllowed
<1>10. \A d \in Process : command'[d] = Guarding!Idle \/ Started(command[d])'
  BY <1>3, <1>8 DEF Started, BareAllowed
<1>11. Guarding!ClaimsHold'
  BY <1>3 DEF GuardingInv, Guarding!ClaimsHold
<1> QED BY <1>3, <1>7, <1>10, <1>11 DEF GuardingInv, Guarding!CanIsolate


LEMMA GuardBeginKeeps ==
    ASSUME GuardingInv, NEW c \in Process, Guarding!Begin(c) PROVE GuardingInv'
<1> DEFINE o == command[c]
<1>1. /\ o.at = "spawned" /\ setup' = setup /\ host' = host /\ lacked' = lacked /\ results' = results /\ cache' = cache
      /\ \A d \in Process \ {c} : command'[d] = command[d]
      /\ DOMAIN command' = Process
  BY DEF Guarding!Begin, GuardingInv
<1>2. Started(o)
  BY <1>1 DEF GuardingInv, Guarding!Idle
<1>3. PICK ran \in {Guarding!Wraps(o)} \cup (IF o.scope THEN {FALSE} ELSE {}) :
         command' = [command EXCEPT ![c].at = "running", ![c].ran = ran, ![c].limited = IF o.cgroup THEN host.cgroup = "open" ELSE o.scope]
  BY DEF Guarding!Begin
<1> DEFINE limited == IF o.cgroup THEN host.cgroup = "open" ELSE o.scope
<1>4. ran \in BOOLEAN /\ limited \in BOOLEAN
  BY <1>2, <1>3 DEF Started, Guarding!Wraps
<1>5. ran /\ (o.cgroup \/ o.scope) => limited
  BY <1>2, <1>3 DEF Started, Guarding!Wraps
<1>6. command'[c] = [o EXCEPT !.at = "running", !.ran = ran, !.limited = limited]
  BY <1>1, <1>3 DEF GuardingInv
<1> HIDE DEF limited, o
<1>7. Started(command'[c])
  BY <1>2, <1>4, <1>5, <1>6 DEF Started
<1>8. \A d \in Process : command'[d] = Guarding!Idle \/ Started(command'[d])
  BY <1>1, <1>7 DEF GuardingInv
<1>9. \A d \in Process : command'[d] = Guarding!Idle \/ Started(command[d])'
  BY <1>1, <1>8 DEF Started, BareAllowed
<1>10. Guarding!ClaimsHold' /\ Said(cache)'
  BY <1>1 DEF GuardingInv, Guarding!ClaimsHold, Said
<1> QED BY <1>1, <1>9, <1>10 DEF GuardingInv, Guarding!CanIsolate

LEMMA GuardCloseKeeps ==
    ASSUME GuardingInv, NEW c \in Process, Guarding!Close(c) PROVE GuardingInv'
<1> DEFINE o == command[c]
           new == [says |-> o.way, enforced |-> o.cgroup \/ o.scope, ran |-> o.ran, limited |-> o.limited, lacked |-> lacked]
<1>1. /\ o.at = "running" /\ setup' = setup /\ host' = host /\ lacked' = lacked /\ cache' = cache
      /\ results' = results \cup {new} /\ command' = [command EXCEPT ![c] = Guarding!Idle]
  BY DEF Guarding!Close
<1>2. Started(o)
  BY <1>1 DEF GuardingInv, Guarding!Idle
<1>3. new.ran => /\ new.enforced => new.limited
                 /\ new.says = "isolated" /\ setup.cgroup => new.enforced
                 /\ new.says = "bare" => setup.isolation = "off" \/ (setup.isolation = "auto" /\ new.lacked)
  BY <1>1, <1>2 DEF Started, BareAllowed
<1> HIDE DEF new
<1>4. Guarding!ClaimsHold'
  BY <1>1, <1>3 DEF GuardingInv, Guarding!ClaimsHold
<1>5. \A d \in Process : command'[d] = Guarding!Idle \/ Started(command[d])'
  BY <1>1 DEF GuardingInv, Started, BareAllowed
<1> QED BY <1>1, <1>4, <1>5 DEF GuardingInv, Guarding!CanIsolate, Said

LEMMA GuardReportKeeps ==
    ASSUME GuardingInv, Guarding!Report PROVE GuardingInv'
<1>1. setup' = setup /\ host' = host /\ lacked' = lacked /\ results' = results /\ command' = command /\ cache' = Guarding!IsolationReport(cache)
  BY DEF Guarding!Report
<1>2. Said(cache)'
  BY <1>1, ReportSaid DEF Said
<1>3. \A d \in Process : command'[d] = Guarding!Idle \/ Started(command[d])'
  BY <1>1 DEF GuardingInv, Started, BareAllowed
<1> QED BY <1>1, <1>2, <1>3 DEF GuardingInv, Guarding!CanIsolate, Guarding!ClaimsHold

LEMMA HostChangesKeeps ==
    ASSUME GuardingInv, Guarding!HostChanges PROVE GuardingInv'
<1>1. setup' = setup /\ results' = results /\ command' = command /\ cache' = cache
  BY DEF Guarding!HostChanges
<1>2. /\ host' \in Guarding!Host /\ (host'.cgroup = "plain" <=> host.cgroup = "plain")
      /\ lacked' = (lacked \/ ~Guarding!CanIsolate(host'))
  BY DEF Guarding!HostChanges
<1>3. lacked' \in BOOLEAN /\ (lacked => lacked') /\ (~Guarding!CanIsolate(host)' => lacked')
  BY <1>2 DEF GuardingInv, Guarding!CanIsolate
<1>4. Said(cache)'
  BY <1>1, <1>2, <1>3 DEF GuardingInv, Said
<1>5. \A d \in Process : command'[d] = Guarding!Idle \/ Started(command[d])'
  BY <1>1, <1>2, <1>3 DEF GuardingInv, Started, BareAllowed
<1> QED BY <1>1, <1>2, <1>3, <1>4, <1>5 DEF GuardingInv, Guarding!ClaimsHold

LEMMA GuardRestartKeeps ==
    ASSUME GuardingInv, Guarding!Restart PROVE GuardingInv'
<1>1. /\ setup' = setup /\ host' = host /\ results' = results /\ cache' = Guarding!Nothing
      /\ command' = [c \in Process |-> Guarding!Idle] /\ lacked' = ~Guarding!CanIsolate(host)
  BY DEF Guarding!Restart
<1>2. lacked' \in BOOLEAN /\ (~Guarding!CanIsolate(host)' => lacked')
  BY <1>1 DEF Guarding!CanIsolate
<1>3. Said(cache)'
  BY <1>1 DEF Said, Guarding!Nothing, Kept, Answer
<1> QED BY <1>1, <1>2, <1>3 DEF GuardingInv, Guarding!ClaimsHold

LEMMA GuardingKeeps == GuardingInv /\ [Guarding!Next]_Guarding!vars => GuardingInv'
<1>1. ASSUME GuardingInv, UNCHANGED Guarding!vars PROVE GuardingInv'
  BY <1>1 DEF GuardingInv, Guarding!vars, Said, Started, BareAllowed, Guarding!CanIsolate, Guarding!ClaimsHold
<1> QED BY <1>1, GuardExecuteKeeps, GuardBeginKeeps, GuardCloseKeeps, GuardReportKeeps, HostChangesKeeps, GuardRestartKeeps DEF Guarding!Next

----------------------------------------------------------------------------
(* Apps.  For a module that is VALIDATED fewer sandboxes were asked for than  *)
(* modules were registered under its id; a copy with the number of the file   *)
(* says the same of the modules.                                              *)

AppCopy == [state : [app : Install!AppState \cup {"NONE"},
                     modules : [Module -> {"NONE", "VALIDATED", "APPROVED", "INSTALLING", "INSTALLED", "DISABLED"}]], number : Nat]

InstallInv ==
    /\ file \in AppCopy /\ copy \in [Process -> AppCopy]
    /\ asked \in [Module -> Nat] /\ registered \in [Module -> Nat] /\ overwrote \in BOOLEAN
    /\ overwrote \/
         /\ \A m \in Module : asked[m] <= registered[m] /\ (file.state.modules[m] = "VALIDATED" => asked[m] < registered[m])
         /\ \A p \in Process : /\ copy[p].number <= file.number
                               /\ copy[p].number = file.number => copy[p].state.modules = file.state.modules

LEMMA InstallStarts == Install!Init => InstallInv
<1> SUFFICES ASSUME Install!Init PROVE InstallInv
  OBVIOUS
<1>1. file \in AppCopy
  BY DEF Install!Init, Install!Blank, AppCopy
<1>2. copy = [q \in Process |-> file] /\ asked = [m \in Module |-> 0] /\ registered = [m \in Module |-> 0] /\ overwrote = FALSE /\ file.number = 0
      /\ \A m \in Module : file.state.modules[m] = "NONE"
  BY DEF Install!Init, Install!Blank
<1>3. copy \in [Process -> AppCopy] /\ asked \in [Module -> Nat] /\ registered \in [Module -> Nat] /\ overwrote \in BOOLEAN
  BY <1>1, <1>2
<1>4. \A m \in Module : asked[m] = 0 /\ registered[m] = 0 /\ file.state.modules[m] # "VALIDATED"
  BY <1>2
<1>5. \A q \in Process : copy[q] = file
  BY <1>2
<1>6. \A q \in Process : copy[q].number <= file.number
  BY <1>2, <1>5
<1> QED BY <1>1, <1>3, <1>4, <1>5, <1>6 DEF InstallInv

\* A write of a process: what it read is the file, or another's is lost.
LEMMA PersistKeeps ==
    ASSUME InstallInv, NEW p \in Process, NEW state, NEW rest, Install!PersistThen(p, state, rest),
           [state |-> state, number |-> 0] \in AppCopy, [state |-> rest, number |-> 0] \in AppCopy, rest.modules = state.modules,
           asked' \in [Module -> Nat], registered' \in [Module -> Nat],
           copy[p].state.modules = file.state.modules /\ ~overwrote =>
               \A m \in Module : asked'[m] <= registered'[m] /\ (state.modules[m] = "VALIDATED" => asked'[m] < registered'[m])
    PROVE  InstallInv'
<1> DEFINE n == file.number + 1
<1>1. /\ file' = [state |-> state, number |-> n] /\ copy' = [copy EXCEPT ![p] = [state |-> rest, number |-> n]]
      /\ overwrote' = (overwrote \/ copy[p].number # file.number)
  BY DEF Install!PersistThen
<1>2. n \in Nat /\ file.number \in Nat /\ n > file.number
  BY DEF InstallInv, AppCopy
<1>3. \A q \in Process : copy[q].number \in Nat
  BY DEF InstallInv, AppCopy
<1> HIDE DEF n
<1>4. [state |-> state, number |-> n] \in AppCopy /\ [state |-> rest, number |-> n] \in AppCopy
  BY <1>2 DEF AppCopy
<1>5. file' \in AppCopy /\ copy' \in [Process -> AppCopy] /\ overwrote' \in BOOLEAN
  BY <1>1, <1>4 DEF InstallInv
<1>6. ASSUME ~overwrote'
      PROVE  /\ \A m \in Module : asked'[m] <= registered'[m] /\ (file'.state.modules[m] = "VALIDATED" => asked'[m] < registered'[m])
             /\ \A q \in Process : /\ copy'[q].number <= file'.number
                                   /\ copy'[q].number = file'.number => copy'[q].state.modules = file'.state.modules
  <2>1. ~overwrote /\ copy[p].state.modules = file.state.modules
    BY <1>1, <1>6 DEF InstallInv
  <2>2. ASSUME NEW q \in Process
        PROVE  copy'[q].number <= file'.number /\ (copy'[q].number = file'.number => copy'[q].state.modules = file'.state.modules)
    <3>1. CASE q = p
      BY <1>1, <1>2, <3>1 DEF InstallInv
    <3>2. CASE q # p
      <4>1. copy'[q] = copy[q] /\ copy[q].number <= file.number
        BY <1>1, <2>1, <3>2 DEF InstallInv
      <4> QED BY <1>1, <1>2, <1>3, <4>1
    <3> QED BY <3>1, <3>2
  <2> QED BY <1>1, <2>1, <2>2
<1> QED BY <1>5, <1>6 DEF InstallInv

\* A call that asks for no sandbox and brings no module back.
LEMMA PlainKeeps ==
    ASSUME InstallInv, NEW p \in Process, NEW state, NEW rest, Install!PersistThen(p, state, rest), asked' = asked, registered' = registered,
           [state |-> state, number |-> 0] \in AppCopy, [state |-> rest, number |-> 0] \in AppCopy, rest.modules = state.modules,
           \A m \in Module : state.modules[m] = "VALIDATED" => copy[p].state.modules[m] = "VALIDATED"
    PROVE  InstallInv'
<1>1. asked' \in [Module -> Nat] /\ registered' \in [Module -> Nat]
  BY DEF InstallInv
<1>2. copy[p].state.modules = file.state.modules /\ ~overwrote =>
         \A m \in Module : asked'[m] <= registered'[m] /\ (state.modules[m] = "VALIDATED" => asked'[m] < registered'[m])
  BY DEF InstallInv
<1> QED BY <1>1, <1>2, PersistKeeps

LEMMA InstallModuleKeeps ==
    ASSUME InstallInv, NEW p \in Process, NEW m \in Module, NEW a, Install!Install(p, m, a)
    PROVE  InstallInv'
<1> DEFINE c == copy[p].state
           new == Install!Prepared(c, m)
<1>1. /\ Install!PersistThen(p, new, new) /\ c.modules[m] = "VALIDATED" /\ asked' = [asked EXCEPT ![m] = @ + 1] /\ registered' = registered
  BY DEF Install!Install, Install!Installable, Install!Persist
<1>2. c.app \in Install!AppState \cup {"NONE"} /\ c.modules \in [Module -> {"NONE", "VALIDATED", "APPROVED", "INSTALLING", "INSTALLED", "DISABLED"}]
      /\ DOMAIN c = {"app", "modules"} /\ [state |-> c, number |-> 0] \in AppCopy
  BY DEF InstallInv, AppCopy
<1>3. [state |-> new, number |-> 0] \in AppCopy /\ new.modules = [c.modules EXCEPT ![m] = "INSTALLING"]
  BY <1>2 DEF Install!Prepared, AppCopy, Install!AppState
<1>4. registered \in [Module -> Nat] /\ asked \in [Module -> Nat] /\ asked' \in [Module -> Nat] /\ asked'[m] = asked[m] + 1 /\ \A k \in Module \ {m} : asked'[k] = asked[k]
  BY <1>1 DEF InstallInv
<1>5. ASSUME c.modules = file.state.modules, ~overwrote
      PROVE  \A k \in Module : asked'[k] <= registered'[k] /\ (new.modules[k] = "VALIDATED" => asked'[k] < registered'[k])
  <2>1. /\ asked[m] < registered[m]
        /\ \A k \in Module : asked[k] <= registered[k] /\ (c.modules[k] = "VALIDATED" => asked[k] < registered[k])
    BY <1>1, <1>5 DEF InstallInv
  <2>2. ASSUME NEW k \in Module, k = m PROVE asked'[k] <= registered[k] /\ new.modules[k] = "INSTALLING"
    BY <1>2, <1>3, <1>4, <2>1, <2>2
  <2>3. ASSUME NEW k \in Module, k # m PROVE asked'[k] = asked[k] /\ new.modules[k] = c.modules[k]
    BY <1>2, <1>3, <1>4, <2>3
  <2> QED BY <1>1, <2>1, <2>2, <2>3
<1> HIDE DEF new
<1> QED BY <1>1, <1>3, <1>4, <1>5, PersistKeeps

LEMMA InstallKeeps == InstallInv /\ [Install!Next]_Install!vars => InstallInv'
<1> SUFFICES ASSUME InstallInv, [Install!Next]_Install!vars PROVE InstallInv'
  OBVIOUS
<1>1. ASSUME UNCHANGED <<file, copy, registered, asked, overwrote>> PROVE InstallInv'
  BY <1>1 DEF InstallInv
<1>2. ASSUME NEW p \in Process
      PROVE  /\ copy[p].state.app \in Install!AppState \cup {"NONE"}
             /\ copy[p].state.modules \in [Module -> {"NONE", "VALIDATED", "APPROVED", "INSTALLING", "INSTALLED", "DISABLED"}]
             /\ copy[p].state \in [app : Install!AppState \cup {"NONE"},
                                   modules : [Module -> {"NONE", "VALIDATED", "APPROVED", "INSTALLING", "INSTALLED", "DISABLED"}]]
  BY DEF InstallInv, AppCopy
<1>3. ASSUME NEW p \in Process, NEW app \in Install!AppState, Install!PersistThen(p, [copy[p].state EXCEPT !.app = app], [copy[p].state EXCEPT !.app = app]),
             asked' = asked, registered' = registered
      PROVE  InstallInv'
  <2> DEFINE new == [copy[p].state EXCEPT !.app = app]
  <2>1. [state |-> new, number |-> 0] \in AppCopy /\ new.modules = copy[p].state.modules
    BY <1>2 DEF AppCopy
  <2> HIDE DEF new
  <2> QED BY <1>3, <2>1, PlainKeeps DEF new
<1>5. ASSUME NEW p \in Process, Install!CreateApp(p) PROVE InstallInv'
  BY <1>3, <1>5 DEF Install!CreateApp, Install!Persist, Install!AppState
<1>6. ASSUME NEW p \in Process, NEW app \in Install!AppState, Install!SetAppState(p, app) PROVE InstallInv'
  BY <1>3, <1>6 DEF Install!SetAppState, Install!Persist
<1>7. ASSUME NEW p \in Process, NEW m \in Module, Install!RegisterModule(p, m) PROVE InstallInv'
  <2> DEFINE new == Install!Register(copy[p].state, m)
             rest == [new EXCEPT !.app = "AWAITING_CONFIRMATION"]
  <2>1. Install!PersistThen(p, new, rest) /\ asked' = asked /\ registered' = [registered EXCEPT ![m] = @ + 1]
    BY <1>7 DEF Install!RegisterModule
  <2>2. /\ [state |-> new, number |-> 0] \in AppCopy /\ [state |-> rest, number |-> 0] \in AppCopy /\ rest.modules = new.modules
        /\ new.modules = [copy[p].state.modules EXCEPT ![m] = "VALIDATED"]
    BY <1>2 DEF AppCopy, Install!AppState, Install!Register
  <2>3. asked \in [Module -> Nat] /\ registered \in [Module -> Nat] /\ registered' \in [Module -> Nat]
        /\ registered'[m] = registered[m] + 1 /\ \A k \in Module \ {m} : registered'[k] = registered[k]
    BY <2>1 DEF InstallInv
  <2>4. ASSUME copy[p].state.modules = file.state.modules, ~overwrote
        PROVE  \A k \in Module : asked'[k] <= registered'[k] /\ (new.modules[k] = "VALIDATED" => asked'[k] < registered'[k])
    <3>1. \A k \in Module : asked[k] <= registered[k] /\ (copy[p].state.modules[k] = "VALIDATED" => asked[k] < registered[k])
      BY <2>4 DEF InstallInv
    <3>2. ASSUME NEW k \in Module, k = m PROVE asked'[k] < registered'[k]
      BY <2>1, <2>3, <3>1, <3>2
    <3>3. ASSUME NEW k \in Module, k # m PROVE registered'[k] = registered[k] /\ new.modules[k] = copy[p].state.modules[k]
      BY <1>2, <2>2, <2>3, <3>3
    <3> QED BY <2>1, <2>3, <3>1, <3>2, <3>3
  <2> HIDE DEF new, rest
  <2> QED BY <2>1, <2>2, <2>3, <2>4, PersistKeeps
<1>8. ASSUME NEW p \in Process, NEW i, NEW s \in {"INSTALLED", "DISABLED"}, NEW app \in {"ACTIVE", "FAILED"},
             Install!Ends(p, i, s, app)
      PROVE  InstallInv'
  <2> DEFINE c == [copy[p].state EXCEPT !.app = app]
             new == IF i.held THEN [c EXCEPT !.modules[i.module] = s] ELSE c
  <2>1. Install!PersistThen(p, new, new) /\ asked' = asked /\ registered' = registered
    BY <1>8 DEF Install!Ends, Install!Persist
  <2>2. /\ [state |-> new, number |-> 0] \in AppCopy
        /\ new.modules = IF i.held THEN [copy[p].state.modules EXCEPT ![i.module] = s] ELSE copy[p].state.modules
    BY <1>2 DEF AppCopy, Install!AppState
  <2>3. \A k \in Module : new.modules[k] = "VALIDATED" => copy[p].state.modules[k] = "VALIDATED"
    BY <1>2, <2>2
  <2> HIDE DEF new
  <2> QED BY <2>1, <2>2, <2>3, PlainKeeps
<1>9. ASSUME NEW p \in Process, NEW i, Install!Installed(p, i) \/ Install!Failed(p, i) PROVE InstallInv'
  BY <1>8, <1>9 DEF Install!Installed, Install!Failed
<1>10. ASSUME NEW p \in Process, NEW m \in Module, NEW a \in Approval, Install!KilledInInstall(p, m, a) PROVE InstallInv'
  <2> DEFINE new == [copy[p].state EXCEPT !.modules[m] = "APPROVED"]
  <2>1. Install!PersistThen(p, new, new) /\ asked' = asked /\ registered' = registered
    BY <1>10 DEF Install!KilledInInstall, Install!Persist
  <2>2. [state |-> new, number |-> 0] \in AppCopy /\ new.modules = [copy[p].state.modules EXCEPT ![m] = "APPROVED"]
    BY <1>2 DEF AppCopy
  <2>3. \A k \in Module : new.modules[k] = "VALIDATED" => copy[p].state.modules[k] = "VALIDATED"
    BY <1>2, <2>2
  <2> HIDE DEF new
  <2> QED BY <2>1, <2>2, <2>3, PlainKeeps
<1>11. ASSUME NEW p \in Process, Install!Restart(p) PROVE InstallInv'
  <2>1. file' = file /\ asked' = asked /\ registered' = registered /\ overwrote' = overwrote /\ copy' = [copy EXCEPT ![p] = file]
    BY <1>11 DEF Install!Restart
  <2>2. copy' \in [Process -> AppCopy] /\ copy'[p] = file /\ \A q \in Process \ {p} : copy'[q] = copy[q]
    BY <2>1 DEF InstallInv
  <2>3. file.number <= file.number
    BY DEF InstallInv, AppCopy
  <2> QED BY <2>1, <2>2, <2>3 DEF InstallInv
<1>12. ASSUME NEW p \in Process, NEW i, Install!Made(p, i) PROVE InstallInv'
  BY <1>1, <1>12 DEF Install!Made
<1>13. ASSUME NEW a \in Approval, Install!Grant(a) PROVE InstallInv'
  BY <1>1, <1>13 DEF Install!Grant
<1>14. ASSUME UNCHANGED Install!vars PROVE InstallInv'
  BY <1>1, <1>14 DEF Install!vars
<1> QED BY <1>5, <1>6, <1>7, <1>9, <1>10, <1>11, <1>12, <1>13, <1>14, InstallModuleKeeps DEF Install!Next

----------------------------------------------------------------------------
(* Offline.  A merge that finds a record of the entity compares with a record *)
(* of that entity: there is a first one.                                      *)

Digest == {"PACKAGE", "RUNNING", "SUCCEEDED", "FAILED"}
SyncRecord == [entity : Process \X Nat, digest : Digest]
Conflict == [entity : Process \X Nat, local : Digest, remote : Digest]
SiteStore == [package : {"ABSENT", "READY", "EXECUTED"}, runs : Seq({"RUNNING", "SUCCEEDED", "FAILED"}),
              sync : Seq(SyncRecord), conflicts : Seq(Conflict)]

TravelInv ==
    /\ offline \in [Process -> SiteStore] /\ exported \subseteq SyncRecord /\ merged \in [Process -> SUBSET SyncRecord]
    /\ NothingForgotten

LEMMA TravelStarts == Travel!Init => TravelInv
<1> SUFFICES ASSUME Travel!Init PROVE TravelInv
  OBVIOUS
<1>1. Travel!Empty \in SiteStore
  BY DEF Travel!Empty, SiteStore
<1>2. offline \in [Process -> SiteStore] /\ merged \in [Process -> SUBSET SyncRecord]
  BY <1>1 DEF Travel!Init
<1>3. \A s \in Process : merged[s] = {}
  BY DEF Travel!Init
<1>4. NothingForgotten
  BY <1>3 DEF NothingForgotten, Travel!NothingForgotten
<1> QED BY <1>2, <1>4 DEF Travel!Init, TravelInv

\* There is a first record of the entity, when there is one.
LEMMA FirstOf ==
    ASSUME NEW store \in SiteStore, NEW entity, Travel!Of(store, entity) # {}
    PROVE  (CHOOSE i \in Travel!Of(store, entity) : \A j \in Travel!Of(store, entity) : i <= j) \in Travel!Of(store, entity)
<1> DEFINE S == Travel!Of(store, entity)
<1>1. S \subseteq Nat
  BY DEF Travel!Of, SiteStore
<1>2. S # {}
  OBVIOUS
<1> HIDE DEF S
<1> DEFINE R == {ss \in Nat \X Nat : ss[1] < ss[2]}
<1>3. IsWellFoundedOn(R, Nat)
  BY NatLessThanWellFounded DEF OpToRel
<1>4. ASSUME NEW a \in Nat, NEW b \in Nat, a < b PROVE <<a, b>> \in R
  <2> DEFINE pair == <<a, b>>
  <2>1. pair \in Nat \X Nat /\ pair[1] < pair[2]
    BY <1>4
  <2> HIDE DEF pair
  <2>2. pair \in R
    BY <2>1, Zenon
  <2> QED BY <2>2 DEF pair
<1> HIDE DEF R
<1>5. PICK i \in S : \A j \in S : <<j, i>> \notin R
  BY <1>1, <1>2, <1>3, WFMin
<1>6. ASSUME NEW j \in S PROVE i <= j
  <2>1. i \in Nat /\ j \in Nat
    BY <1>1
  <2>2. ~(j < i)
    BY <1>4, <1>5, <2>1, Zenon
  <2> QED BY <2>1, <2>2
<1>7. \E k \in S : \A j \in S : k <= j
  BY <1>6
<1>8. (CHOOSE k \in S : \A j \in S : k <= j) \in S
  BY <1>7, Zenon
<1> QED BY <1>8 DEF S

\* What a record is taken to: a store that keeps it and what it kept.
Keeps(store, r) ==
    \/ \E i \in DOMAIN store.sync : store.sync[i] = r
    \/ \E i \in DOMAIN store.conflicts : store.conflicts[i].entity = r.entity /\ store.conflicts[i].remote = r.digest

LEMMA LongerKeeps ==
    ASSUME NEW store \in SiteStore, NEW r, NEW later, Keeps(store, r),
           \E s \in Seq(SyncRecord) : later.sync = store.sync \o s,
           \E s \in Seq(Conflict) : later.conflicts = store.conflicts \o s
    PROVE  Keeps(later, r)
<1>1. PICK s \in Seq(SyncRecord) : later.sync = store.sync \o s
  OBVIOUS
<1>2. PICK t \in Seq(Conflict) : later.conflicts = store.conflicts \o t
  OBVIOUS
<1>3. store.sync \in Seq(SyncRecord) /\ store.conflicts \in Seq(Conflict)
  BY DEF SiteStore
<1>4. \A i \in DOMAIN store.sync : i \in DOMAIN later.sync /\ later.sync[i] = store.sync[i]
  BY <1>1, <1>3
<1>5. \A i \in DOMAIN store.conflicts : i \in DOMAIN later.conflicts /\ later.conflicts[i] = store.conflicts[i]
  BY <1>2, <1>3
<1> QED BY <1>4, <1>5 DEF Keeps

LEMMA TakenKeeps ==
    ASSUME NEW store \in SiteStore, NEW r \in SyncRecord
    PROVE  /\ Travel!Taken(store, r) \in SiteStore
           /\ Keeps(Travel!Taken(store, r), r)
           /\ \A q \in SyncRecord : Keeps(store, q) => Keeps(Travel!Taken(store, r), q)
<1> DEFINE S == Travel!Of(store, r.entity)
           same == store.sync[CHOOSE i \in S : \A j \in S : i <= j]
           more == [entity |-> r.entity, local |-> same.digest, remote |-> r.digest]
<1>1. store.sync \in Seq(SyncRecord) /\ store.conflicts \in Seq(Conflict)
  BY DEF SiteStore
<1>2. CASE S = {}
  <2>1. Travel!Taken(store, r) = [store EXCEPT !.sync = Append(store.sync, r)]
    BY <1>2 DEF Travel!Taken
  <2>2. Append(store.sync, r) \in Seq(SyncRecord) /\ Append(store.sync, r) = store.sync \o <<r>>
    BY <1>1
  <2>3. Travel!Taken(store, r) \in SiteStore
    BY <2>1, <2>2 DEF SiteStore
  <2>4. Travel!Taken(store, r).sync = store.sync \o <<r>> /\ Travel!Taken(store, r).conflicts = store.conflicts \o <<>>
    BY <1>1, <2>1, <2>2 DEF SiteStore
  <2>5. Keeps(Travel!Taken(store, r), r)
    <3>1. Len(store.sync) + 1 \in DOMAIN (store.sync \o <<r>>) /\ (store.sync \o <<r>>)[Len(store.sync) + 1] = r
      BY <1>1
    <3> QED BY <2>4, <3>1 DEF Keeps
  <2>6. <<r>> \in Seq(SyncRecord) /\ <<>> \in Seq(Conflict)
    OBVIOUS
  <2>7. ASSUME NEW q \in SyncRecord, Keeps(store, q) PROVE Keeps(Travel!Taken(store, r), q)
    BY <2>4, <2>6, <2>7, LongerKeeps
  <2> QED BY <2>3, <2>5, <2>7
<1>3. CASE S # {}
  <2>1. (CHOOSE i \in S : \A j \in S : i <= j) \in S
    BY <1>3, FirstOf
  <2> DEFINE c == CHOOSE i \in S : \A j \in S : i <= j
  <2>2. c \in DOMAIN store.sync /\ store.sync[c].entity = r.entity
    BY <2>1 DEF Travel!Of
  <2> HIDE DEF c
  <2>3. store.sync[c] \in SyncRecord
    BY <1>1, <2>2
  <2>4. Travel!Taken(store, r) = IF store.sync[c].digest = r.digest THEN store
                                 ELSE [store EXCEPT !.conflicts = Append(store.conflicts,
                                          [entity |-> r.entity, local |-> store.sync[c].digest, remote |-> r.digest])]
    BY <1>3 DEF Travel!Taken, c
  <2>5. CASE store.sync[c].digest = r.digest
    <3>1. store.sync[c] = r
      BY <2>2, <2>3, <2>5 DEF SyncRecord
    <3> QED BY <2>2, <2>4, <2>5, <3>1 DEF Keeps
  <2>6. CASE store.sync[c].digest # r.digest
    <3> DEFINE d == [entity |-> r.entity, local |-> store.sync[c].digest, remote |-> r.digest]
    <3>1. d \in Conflict /\ d.entity = r.entity /\ d.remote = r.digest
      BY <2>3 DEF Conflict, SyncRecord
    <3>2. Travel!Taken(store, r) = [store EXCEPT !.conflicts = Append(store.conflicts, d)]
      BY <2>4, <2>6
    <3> HIDE DEF d
    <3>3. Append(store.conflicts, d) \in Seq(Conflict) /\ Append(store.conflicts, d) = store.conflicts \o <<d>>
      BY <1>1, <3>1
    <3>4. Travel!Taken(store, r) \in SiteStore
      BY <3>2, <3>3 DEF SiteStore
    <3>5. Travel!Taken(store, r).conflicts = store.conflicts \o <<d>> /\ Travel!Taken(store, r).sync = store.sync \o <<>>
      BY <1>1, <3>2, <3>3 DEF SiteStore
    <3>6. Keeps(Travel!Taken(store, r), r)
      <4>1. Len(store.conflicts) + 1 \in DOMAIN (store.conflicts \o <<d>>) /\ (store.conflicts \o <<d>>)[Len(store.conflicts) + 1] = d
        BY <1>1
      <4> QED BY <3>1, <3>5, <4>1 DEF Keeps
    <3>7. <<d>> \in Seq(Conflict) /\ <<>> \in Seq(SyncRecord)
      BY <3>1
    <3>8. ASSUME NEW q \in SyncRecord, Keeps(store, q) PROVE Keeps(Travel!Taken(store, r), q)
      BY <3>5, <3>7, <3>8, LongerKeeps
    <3> QED BY <3>4, <3>6, <3>8
  <2> QED BY <2>5, <2>6
<1> QED BY <1>2, <1>3

\* A step of a site whose store still keeps what it kept.
LEMMA SiteKeeps ==
    ASSUME TravelInv, NEW s \in Process, NEW store \in SiteStore, offline' = [offline EXCEPT ![s] = store],
           \A q \in merged[s] : Keeps(store, q),
           exported' \subseteq SyncRecord, merged' = merged
    PROVE  TravelInv'
<1>1. offline' \in [Process -> SiteStore]
  BY DEF TravelInv
<1>2. ASSUME NEW t \in Process, NEW r \in merged[t] PROVE Keeps(offline'[t], r)
  <2>1. Keeps(offline[t], r)
    BY DEF TravelInv, NothingForgotten, Travel!NothingForgotten, Keeps
  <2> QED BY <2>1 DEF TravelInv
<1>3. NothingForgotten'
  BY <1>2 DEF NothingForgotten, Travel!NothingForgotten, Keeps
<1> QED BY <1>1, <1>3 DEF TravelInv

LEMMA TravelKeeps == TravelInv /\ [Travel!Next]_travelVars => TravelInv'
<1> SUFFICES ASSUME TravelInv, [Travel!Next]_travelVars PROVE TravelInv'
  OBVIOUS
<1> USE DEF Travel!Act
<1>1. CASE UNCHANGED travelVars
  BY <1>1 DEF travelVars, TravelInv, NothingForgotten, Travel!NothingForgotten
<1>2. ASSUME NEW s \in Process PROVE offline[s] \in SiteStore /\ \A q \in merged[s] : Keeps(offline[s], q)
  BY DEF TravelInv, NothingForgotten, Travel!NothingForgotten, Keeps
<1>3. ASSUME NEW s \in Process, Travel!CreatePackage(s) PROVE TravelInv'
  <2> DEFINE store == [offline[s] EXCEPT !.package = "READY"]
  <2>1. store \in SiteStore /\ store.sync = offline[s].sync /\ store.conflicts = offline[s].conflicts
    BY <1>2 DEF SiteStore
  <2>2. offline' = [offline EXCEPT ![s] = store] /\ exported' = exported /\ merged' = merged
    BY <1>3 DEF Travel!CreatePackage
  <2> HIDE DEF store
  <2>3. \A q \in merged[s] : Keeps(store, q)
    BY <1>2, <2>1 DEF Keeps
  <2> QED BY <2>1, <2>2, <2>3, SiteKeeps DEF TravelInv
<1>4. ASSUME NEW s \in Process, Travel!StartExecution(s) PROVE TravelInv'
  <2> DEFINE runs == Append(offline[s].runs, "RUNNING")
             store == [offline[s] EXCEPT !.package = "EXECUTED", !.runs = runs]
  <2>1. runs \in Seq({"RUNNING", "SUCCEEDED", "FAILED"})
    BY <1>2 DEF SiteStore
  <2>2. offline' = [offline EXCEPT ![s] = store] /\ exported' = exported /\ merged' = merged
    BY <1>4 DEF Travel!StartExecution
  <2> HIDE DEF runs
  <2>3. store \in SiteStore /\ store.sync = offline[s].sync /\ store.conflicts = offline[s].conflicts
    BY <1>2, <2>1 DEF SiteStore
  <2> HIDE DEF store
  <2>4. \A q \in merged[s] : Keeps(store, q)
    BY <1>2, <2>3 DEF Keeps
  <2> QED BY <2>2, <2>3, <2>4, SiteKeeps DEF TravelInv
<1>5. ASSUME NEW s \in Process, NEW i \in 1..TravelRuns, NEW status \in {"SUCCEEDED", "FAILED"},
             Travel!FinishExecution(s, i, status)
      PROVE  TravelInv'
  <2> DEFINE runs == [offline[s].runs EXCEPT ![i] = status]
             store == [offline[s] EXCEPT !.runs = runs]
  <2>1. runs \in Seq({"RUNNING", "SUCCEEDED", "FAILED"})
    <3>1. offline[s].runs \in Seq({"RUNNING", "SUCCEEDED", "FAILED"})
      BY <1>2 DEF SiteStore
    <3>2. offline[s].runs \in [1..Len(offline[s].runs) -> {"RUNNING", "SUCCEEDED", "FAILED"}] /\ Len(offline[s].runs) \in Nat
      BY <3>1
    <3>3. runs \in [1..Len(offline[s].runs) -> {"RUNNING", "SUCCEEDED", "FAILED"}]
      BY <3>2
    <3> QED BY <3>2, <3>3
  <2>2. offline' = [offline EXCEPT ![s] = store] /\ exported' = exported /\ merged' = merged
    BY <1>5 DEF Travel!FinishExecution
  <2> HIDE DEF runs
  <2>3. store \in SiteStore /\ store.sync = offline[s].sync /\ store.conflicts = offline[s].conflicts
    BY <1>2, <2>1 DEF SiteStore
  <2> HIDE DEF store
  <2>4. \A q \in merged[s] : Keeps(store, q)
    BY <1>2, <2>3 DEF Keeps
  <2> QED BY <2>2, <2>3, <2>4, SiteKeeps DEF TravelInv
<1>6. ASSUME NEW s \in Process, Travel!Export(s) PROVE TravelInv'
  <2>1. Travel!Records(s) \in Seq(SyncRecord)
    <3>1. offline[s].runs \in Seq({"RUNNING", "SUCCEEDED", "FAILED"})
      BY <1>2 DEF SiteStore
    <3> DEFINE first == [entity |-> <<s, 0>>, digest |-> "PACKAGE"]
               others == [i \in DOMAIN offline[s].runs |-> [entity |-> <<s, i>>, digest |-> offline[s].runs[i]]]
    <3>2. first \in SyncRecord
      BY DEF SyncRecord, Digest
    <3>3. \A i \in DOMAIN offline[s].runs : i \in Nat /\ offline[s].runs[i] \in Digest
      BY <3>1 DEF Digest
    <3>4. \A i \in DOMAIN offline[s].runs : [entity |-> <<s, i>>, digest |-> offline[s].runs[i]] \in SyncRecord
      BY <3>3 DEF SyncRecord
    <3>5. DOMAIN offline[s].runs = 1..Len(offline[s].runs) /\ Len(offline[s].runs) \in Nat
      BY <3>1
    <3>6. others \in [1..Len(offline[s].runs) -> SyncRecord]
      BY <3>4, <3>5
    <3>7. others \in Seq(SyncRecord)
      BY <3>5, <3>6
    <3> HIDE DEF first, others
    <3>8. <<first>> \o others \in Seq(SyncRecord)
      BY <3>2, <3>7
    <3> QED BY <3>8 DEF Travel!Records, first, others
  <2> DEFINE sync == offline[s].sync \o Travel!Records(s)
             store == [offline[s] EXCEPT !.sync = sync]
  <2>2. offline[s].sync \in Seq(SyncRecord) /\ offline[s].conflicts \in Seq(Conflict)
    BY <1>2 DEF SiteStore
  <2>3. sync \in Seq(SyncRecord)
    BY <2>1, <2>2
  <2>4. offline' = [offline EXCEPT ![s] = store] /\ merged' = merged
        /\ exported' = exported \cup {Travel!Records(s)[i] : i \in DOMAIN Travel!Records(s)}
    BY <1>6 DEF Travel!Export
  <2>5. exported' \subseteq SyncRecord
    BY <2>1, <2>4 DEF TravelInv
  <2>6. store \in SiteStore /\ store.sync = offline[s].sync \o Travel!Records(s) /\ store.conflicts = offline[s].conflicts \o <<>>
    <3> HIDE DEF sync
    <3>1. store \in SiteStore /\ store.sync = sync /\ store.conflicts = offline[s].conflicts
      BY <1>2, <2>3 DEF SiteStore
    <3> QED BY <2>2, <3>1 DEF sync
  <2> HIDE DEF store, sync
  <2>7. <<>> \in Seq(Conflict)
    OBVIOUS
  <2>8. ASSUME NEW q \in merged[s] PROVE Keeps(store, q)
    BY <1>2, <2>1, <2>6, <2>7, LongerKeeps
  <2> QED BY <2>4, <2>5, <2>6, <2>8, SiteKeeps
<1>7. ASSUME NEW s \in Process, NEW r \in exported, Travel!Merge(s, r) PROVE TravelInv'
  <2>1. r \in SyncRecord
    BY DEF TravelInv
  <2> DEFINE store == Travel!Taken(offline[s], r)
  <2>2. offline' = [offline EXCEPT ![s] = store] /\ merged' = [merged EXCEPT ![s] = merged[s] \cup {r}] /\ exported' = exported
    BY <1>7 DEF Travel!Merge
  <2>3. store \in SiteStore /\ Keeps(store, r) /\ \A q \in SyncRecord : Keeps(offline[s], q) => Keeps(store, q)
    BY <1>2, <2>1, TakenKeeps
  <2> HIDE DEF store
  <2>4. offline' \in [Process -> SiteStore] /\ merged' \in [Process -> SUBSET SyncRecord]
    BY <2>1, <2>2, <2>3 DEF TravelInv
  <2>5. ASSUME NEW t \in Process, NEW q \in merged'[t] PROVE Keeps(offline'[t], q)
    <3>1. CASE t # s
      BY <1>2, <2>2, <3>1 DEF TravelInv
    <3>2. CASE t = s
      <4>1. offline'[t] = store /\ merged'[t] = merged[s] \cup {r} /\ merged[s] \subseteq SyncRecord
        BY <2>2, <3>2 DEF TravelInv
      <4> QED BY <1>2, <2>3, <4>1
    <3> QED BY <3>1, <3>2
  <2>6. NothingForgotten'
    BY <2>5 DEF NothingForgotten, Travel!NothingForgotten, Keeps
  <2> QED BY <2>2, <2>4, <2>6 DEF TravelInv
<1>8. CASE Travel!Next
  BY <1>3, <1>4, <1>5, <1>6, <1>7, <1>8 DEF Travel!Next
<1> QED BY <1>1, <1>8

----------------------------------------------------------------------------
(* Incidents.  A call that waits keeps what it read: a payload it will write   *)
(* back is as sound as the one it replaces, and what it takes on was founded   *)
(* when it began.                                                              *)

Fails == Diagnosis!Failure
Plans == Diagnosis!Plan
Statuses == {"DETECTED", "TRIAGING", "CONTAINED", "REPRODUCING", "DIAGNOSING", "HYPOTHESIS", "EXPERIMENTING",
             "ROOT_CAUSE_FOUND", "FIXING", "VERIFYING", "LEARNED", "REGRESSION_LOCKED", "ESCALATED"}
AnIncident == [status : Statuses, task : BOOLEAN, severe : BOOLEAN, hypothesis : BOOLEAN, evidence : BOOLEAN,
               cause : BOOLEAN, box : BOOLEAN, place : BOOLEAN, experiment : BOOLEAN, failure : {0} \cup Fails,
               plan : {0} \cup Plans, test : {NoTest} \cup Test]
FailureState == {"absent", "OPEN", "RESOLVED", "CONTAINED", "ANALYZING", "VERIFIED"}
PlanState == {"absent", "PREPARED", "EXECUTING", "VERIFIED", "REJECTED"}
AFailure == [state : FailureState, test : Test \cup {NoTest}]
APlan == [state : PlanState, failure : {0} \cup Fails, box : BOOLEAN, checkpoint : BOOLEAN]
Payload == [failures : [Fails -> AFailure], plans : [Plans -> APlan]]

\* What a payload says is verified was proved, and none of its plans is one
\* that is still to be made.
Sound(payload, proven, last) ==
    /\ \A p \in Plans : payload.plans[p].state # "absent" => p <= last
    /\ \A p \in Plans : payload.plans[p].state = "VERIFIED" => p \in proven
    /\ \A f \in Fails : payload.failures[f].state = "VERIFIED" =>
           \E p \in Plans : payload.plans[p].state = "VERIFIED" /\ payload.plans[p].failure = f

Grounded(i) == i.evidence = TRUE /\ i.cause = TRUE

\* The call of a verification that waits, and any call that waits.
PlanCall(call, used, proven, last) ==
    /\ call.plan \in Plans /\ call.was \in Payload /\ call.was.plans[call.plan].state = "EXECUTING"
    /\ Sound(call.was, proven, last)
    /\ call.fixing \in BOOLEAN /\ call.evidence \in BOOLEAN
    /\ ~used /\ call.fixing = TRUE => call.evidence = TRUE

Waits(call, used, i, proven, last) ==
    /\ call.at = "snapshot" => call.incident \in AnIncident
    /\ call.at = "restoring" => call.payload \in Payload /\ Sound(call.payload, proven, last)
    /\ call.at = "smoke" => PlanCall(call, used, proven, last)
    /\ call.at = "suite" /\ call.of = "plan" => PlanCall(call.call, used, proven, last)
    /\ call.at = "suite" /\ call.of = "fix" /\ ~used => Grounded(i)

DiagnosisInv ==
    /\ incident \in AnIncident /\ reliability \in Payload /\ recorded \in [failures : Nat, plans : Nat]
    /\ raw \in BOOLEAN
    /\ DOMAIN pending = Process
    /\ \A c \in Process : Waits(pending[c], raw, incident, proved, recorded.plans)
    /\ ~raw /\ incident.status \in Diagnosis!CauseKnown => Grounded(incident)
    /\ ~raw /\ incident.status \in Diagnosis!Final => passed # {}
    /\ ~raw /\ known = "ESTABLISHED" => passed # {} /\ incident.evidence = TRUE
    /\ Sound(reliability, proved, recorded.plans)

\* What brings an incident into a state in which its cause is known.
LEMMA CauseFrom ==
    ASSUME NEW i \in AnIncident, NEW s, Diagnosis!CanGo(i, s)
    PROVE  /\ s = "ROOT_CAUSE_FOUND" => i.status \in {"EXPERIMENTING", "VERIFYING"}
           /\ s = "FIXING" => i.status = "ROOT_CAUSE_FOUND"
           /\ s = "VERIFYING" => i.status = "FIXING"
           /\ s = "LEARNED" => i.status = "VERIFYING"
           /\ s = "REGRESSION_LOCKED" => i.status = "LEARNED"
<1>1. i.status \in Statuses
  BY DEF AnIncident
<1>2. s # "ESCALATED" => s \in Diagnosis!Successors[i.status]
  BY DEF Diagnosis!CanGo
<1>3. /\ Diagnosis!Successors["DETECTED"] = {"TRIAGING"} /\ Diagnosis!Successors["TRIAGING"] = {"CONTAINED"}
      /\ Diagnosis!Successors["CONTAINED"] = {"REPRODUCING"} /\ Diagnosis!Successors["REPRODUCING"] = {"DIAGNOSING"}
      /\ Diagnosis!Successors["DIAGNOSING"] = {"HYPOTHESIS"} /\ Diagnosis!Successors["HYPOTHESIS"] = {"EXPERIMENTING"}
      /\ Diagnosis!Successors["EXPERIMENTING"] = {"ROOT_CAUSE_FOUND", "HYPOTHESIS"}
      /\ Diagnosis!Successors["ROOT_CAUSE_FOUND"] = {"FIXING"} /\ Diagnosis!Successors["FIXING"] = {"VERIFYING"}
      /\ Diagnosis!Successors["VERIFYING"] = {"LEARNED", "ROOT_CAUSE_FOUND"}
      /\ Diagnosis!Successors["LEARNED"] = {"REGRESSION_LOCKED"} /\ Diagnosis!Successors["REGRESSION_LOCKED"] = {}
      /\ Diagnosis!Successors["ESCALATED"] = {"TRIAGING"}
  BY DEF Diagnosis!Successors
<1> QED BY <1>1, <1>2, <1>3 DEF Statuses

\* A step to a state changes the state and nothing else, or nothing.
LEMMA ToStep ==
    ASSUME NEW i \in AnIncident, NEW s \in Statuses
    PROVE  /\ Diagnosis!To(i, s) \in AnIncident
           /\ Diagnosis!To(i, s) = i \/ (Diagnosis!CanGo(i, s) /\ Diagnosis!To(i, s) = [i EXCEPT !.status = s])
<1>1. [i EXCEPT !.status = s] \in AnIncident
  BY DEF AnIncident
<1> QED BY <1>1 DEF Diagnosis!To

\* A state of the investigation is not one in which the cause is known.
LEMMA EarlyStep ==
    ASSUME NEW i \in AnIncident,
           NEW s \in {"TRIAGING", "CONTAINED", "REPRODUCING", "DIAGNOSING", "HYPOTHESIS", "EXPERIMENTING", "ESCALATED"}
    PROVE  /\ Diagnosis!To(i, s) \in AnIncident
           /\ Diagnosis!To(i, s).evidence = i.evidence /\ Diagnosis!To(i, s).cause = i.cause
           /\ Diagnosis!To(i, s).status \in Diagnosis!CauseKnown => Diagnosis!To(i, s) = i
<1>1. s \in Statuses /\ s \notin Diagnosis!CauseKnown
  BY DEF Statuses, Diagnosis!CauseKnown, Diagnosis!Final
<1>2. CASE Diagnosis!To(i, s) = i
  BY <1>2
<1>3. CASE Diagnosis!To(i, s) = [i EXCEPT !.status = s]
  BY <1>1, <1>3, ToStep DEF AnIncident
<1> QED BY <1>1, <1>2, <1>3, ToStep

\* A patch of known fields leaves an incident an incident.
LEMMA PatchedStep ==
    ASSUME NEW i \in AnIncident, NEW patch \in Patch
    PROVE  Diagnosis!Patched(i, patch) \in AnIncident
<1> DEFINE q == Diagnosis!Patched(i, patch)
<1>1. DOMAIN i = {"status", "task", "severe", "hypothesis", "evidence", "cause", "box", "place", "experiment",
                  "failure", "plan", "test"}
  BY DEF AnIncident
<1>2. q = [field \in DOMAIN i |-> IF field \in DOMAIN patch THEN patch[field] ELSE i[field]]
  BY DEF Diagnosis!Patched
<1> HIDE DEF q
<1>3. \A field \in DOMAIN patch : patch[field] \in Diagnosis!Field[field]
  BY PatchAssumption
<1>4. /\ Diagnosis!Field["status"] = Diagnosis!Status /\ Diagnosis!Field["task"] = BOOLEAN
      /\ Diagnosis!Field["severe"] = BOOLEAN /\ Diagnosis!Field["hypothesis"] = BOOLEAN
      /\ Diagnosis!Field["evidence"] = BOOLEAN /\ Diagnosis!Field["cause"] = BOOLEAN
      /\ Diagnosis!Field["box"] = BOOLEAN /\ Diagnosis!Field["place"] = BOOLEAN
      /\ Diagnosis!Field["experiment"] = BOOLEAN /\ Diagnosis!Field["failure"] = {0} \cup Fails
      /\ Diagnosis!Field["plan"] = {0} \cup Plans /\ Diagnosis!Field["test"] = {NoTest} \cup Test
  BY DEF Diagnosis!Field, Fails, Plans
<1>5. Diagnosis!Status \subseteq Statuses
  BY DEF Diagnosis!Status, Diagnosis!Successors, Statuses
<1>6. /\ q.status \in Statuses /\ q.task \in BOOLEAN /\ q.severe \in BOOLEAN /\ q.hypothesis \in BOOLEAN
      /\ q.evidence \in BOOLEAN /\ q.cause \in BOOLEAN /\ q.box \in BOOLEAN /\ q.place \in BOOLEAN
      /\ q.experiment \in BOOLEAN /\ q.failure \in {0} \cup Fails /\ q.plan \in {0} \cup Plans
      /\ q.test \in {NoTest} \cup Test
  <2>1. q.status \in Statuses
    BY <1>1, <1>2, <1>3, <1>4, <1>5 DEF AnIncident
  <2>2. /\ q.task \in BOOLEAN /\ q.severe \in BOOLEAN /\ q.hypothesis \in BOOLEAN
        /\ q.evidence \in BOOLEAN /\ q.cause \in BOOLEAN
    BY <1>1, <1>2, <1>3, <1>4 DEF AnIncident
  <2>3. q.box \in BOOLEAN /\ q.place \in BOOLEAN /\ q.experiment \in BOOLEAN
    BY <1>1, <1>2, <1>3, <1>4 DEF AnIncident
  <2>4. q.failure \in {0} \cup Fails /\ q.plan \in {0} \cup Plans /\ q.test \in {NoTest} \cup Test
    BY <1>1, <1>2, <1>3, <1>4 DEF AnIncident
  <2> QED BY <2>1, <2>2, <2>3, <2>4
<1>7. q = [status |-> q.status, task |-> q.task, severe |-> q.severe, hypothesis |-> q.hypothesis,
           evidence |-> q.evidence, cause |-> q.cause, box |-> q.box, place |-> q.place,
           experiment |-> q.experiment, failure |-> q.failure, plan |-> q.plan, test |-> q.test]
  BY <1>1, <1>2
<1>8. q \in AnIncident
  BY <1>6, <1>7 DEF AnIncident
<1> QED BY <1>8 DEF q

----------------------------------------------------------------------------
\* What the writes to a payload keep of it.

\* A payload stays as sound as it was while more is proved and made.
LEMMA SoundLater ==
    ASSUME NEW payload \in Payload, NEW proven, NEW later, NEW last \in Nat, NEW then \in Nat,
           Sound(payload, proven, last), proven \subseteq later, last <= then
    PROVE  Sound(payload, later, then)
<1>1. \A p \in Plans : p \in Nat
  BY HistoryAssumption DEF Plans, Diagnosis!Plan
<1> QED BY <1>1 DEF Sound

\* A failure may change in anything but that it becomes verified.
LEMMA FailureKeeps ==
    ASSUME NEW payload \in Payload, NEW proven, NEW last, Sound(payload, proven, last), NEW f \in Fails,
           NEW failure \in AFailure, failure.state = "VERIFIED" => payload.failures[f].state = "VERIFIED"
    PROVE  /\ [payload EXCEPT !.failures[f] = failure] \in Payload
           /\ Sound([payload EXCEPT !.failures[f] = failure], proven, last)
<1> DEFINE q == [payload EXCEPT !.failures[f] = failure]
<1>1. q \in Payload /\ q.plans = payload.plans /\ q.failures = [payload.failures EXCEPT ![f] = failure]
  BY DEF Payload
<1>2. \A g \in Fails : q.failures[g].state = "VERIFIED" => payload.failures[g].state = "VERIFIED"
  BY <1>1 DEF Payload
<1> HIDE DEF q
<1>3. Sound(q, proven, last)
  BY <1>1, <1>2 DEF Sound
<1> QED BY <1>1, <1>3 DEF q

\* A plan that is not verified may become anything but verified.
LEMMA PlanKeeps ==
    ASSUME NEW payload \in Payload, NEW proven, NEW last, Sound(payload, proven, last), NEW p \in Plans, p <= last,
           NEW plan \in APlan, plan.state # "VERIFIED", payload.plans[p].state # "VERIFIED"
    PROVE  /\ [payload EXCEPT !.plans[p] = plan] \in Payload
           /\ Sound([payload EXCEPT !.plans[p] = plan], proven, last)
<1> DEFINE q == [payload EXCEPT !.plans[p] = plan]
<1>1. q \in Payload /\ q.failures = payload.failures /\ q.plans = [payload.plans EXCEPT ![p] = plan]
  BY DEF Payload
<1>2. \A r \in Plans : r # p => q.plans[r] = payload.plans[r]
  BY <1>1 DEF Payload
<1>3. q.plans[p] = plan
  BY <1>1 DEF Payload
<1> HIDE DEF q
<1>4. \A r \in Plans : q.plans[r].state # "absent" => r <= last
  BY <1>2, <1>3 DEF Sound
<1>5. \A r \in Plans : q.plans[r].state = "VERIFIED" => r \in proven
  BY <1>2, <1>3 DEF Sound
<1>6. \A f \in Fails : q.failures[f].state = "VERIFIED" =>
          \E r \in Plans : q.plans[r].state = "VERIFIED" /\ q.plans[r].failure = f
  <2>1. TAKE f \in Fails
  <2>2. HAVE q.failures[f].state = "VERIFIED"
  <2>3. PICK r \in Plans : payload.plans[r].state = "VERIFIED" /\ payload.plans[r].failure = f
    BY <1>1, <2>2 DEF Sound
  <2> QED BY <1>2, <2>3
<1>7. Sound(q, proven, last)
  BY <1>4, <1>5, <1>6 DEF Sound
<1> QED BY <1>1, <1>7 DEF q

\* The failure of a plan is contained or analysed again.
LEMMA WithFailureKeeps ==
    ASSUME NEW payload \in Payload, NEW proven, NEW last, Sound(payload, proven, last), NEW f \in {0} \cup Fails,
           NEW s \in FailureState \ {"VERIFIED"}
    PROVE  /\ Diagnosis!WithFailure(payload, f, s) \in Payload
           /\ Diagnosis!WithFailure(payload, f, s).plans = payload.plans
           /\ Sound(Diagnosis!WithFailure(payload, f, s), proven, last)
<1>1. CASE f # 0 /\ payload.failures[f].state # "absent"
  <2> DEFINE failure == [payload.failures[f] EXCEPT !.state = s]
  <2>1. f \in Fails
    BY <1>1
  <2>2. Diagnosis!WithFailure(payload, f, s) = [payload EXCEPT !.failures[f].state = s]
    BY <1>1 DEF Diagnosis!WithFailure
  <2>3. failure \in AFailure /\ failure.state # "VERIFIED"
    BY <2>1 DEF Payload, AFailure
  <2>4. [payload EXCEPT !.failures[f].state = s] = [payload EXCEPT !.failures[f] = failure]
    BY <2>1 DEF Payload
  <2>5. [payload EXCEPT !.failures[f] = failure].plans = payload.plans
    BY <2>1 DEF Payload
  <2> HIDE DEF failure
  <2> QED BY <2>1, <2>2, <2>3, <2>4, <2>5, FailureKeeps
<1>2. CASE ~(f # 0 /\ payload.failures[f].state # "absent")
  BY <1>2 DEF Diagnosis!WithFailure
<1> QED BY <1>1, <1>2

\* The state of a plan that is not verified changes to another such state.
LEMMA PlanStateKeeps ==
    ASSUME NEW payload \in Payload, NEW proven, NEW last, Sound(payload, proven, last), NEW p \in Plans,
           payload.plans[p].state \notin {"absent", "VERIFIED"}, NEW s \in PlanState \ {"VERIFIED"}
    PROVE  /\ [payload EXCEPT !.plans[p].state = s] \in Payload
           /\ Sound([payload EXCEPT !.plans[p].state = s], proven, last)
<1> DEFINE plan == [payload.plans[p] EXCEPT !.state = s]
<1>1. [payload EXCEPT !.plans[p].state = s] = [payload EXCEPT !.plans[p] = plan]
  BY DEF Payload
<1>2. plan \in APlan /\ plan.state = s
  BY DEF Payload, APlan
<1>3. p <= last
  BY DEF Sound
<1> HIDE DEF plan
<1> QED BY <1>1, <1>2, <1>3, PlanKeeps

\* A plan whose tests passed is verified together with its failure.
LEMMA VerdictKeeps ==
    ASSUME NEW payload \in Payload, NEW proven, NEW last, Sound(payload, proven, last), NEW p \in Plans, p \in proven,
           payload.plans[p].state = "EXECUTING"
    PROVE  LET w == Diagnosis!WithFailure(payload, payload.plans[p].failure, "VERIFIED")
               q == [w EXCEPT !.plans[p].state = "VERIFIED"]
           IN  q \in Payload /\ Sound(q, proven, last)
<1> DEFINE g == payload.plans[p].failure
           w == Diagnosis!WithFailure(payload, g, "VERIFIED")
           q == [w EXCEPT !.plans[p].state = "VERIFIED"]
<1>1. g \in {0} \cup Fails
  BY DEF Payload, APlan
<1>2. w = payload \/ (g \in Fails /\ w = [payload EXCEPT !.failures[g].state = "VERIFIED"])
  BY <1>1 DEF Diagnosis!WithFailure
<1>3. w \in Payload /\ w.plans = payload.plans
      /\ \A f \in Fails : f # g => w.failures[f] = payload.failures[f]
  BY <1>2 DEF Payload, AFailure, FailureState
<1> HIDE DEF w
<1>4. q \in Payload /\ q.failures = w.failures
  BY <1>3 DEF Payload, APlan, PlanState
<1>5. q.plans[p].state = "VERIFIED" /\ q.plans[p].failure = g
  BY <1>3 DEF Payload, APlan
<1>6. \A r \in Plans : r # p => q.plans[r] = payload.plans[r]
  BY <1>3 DEF Payload, APlan
<1> HIDE DEF q, g
<1>7. \A r \in Plans : q.plans[r].state # "absent" => r <= last
  BY <1>5, <1>6 DEF Sound
<1>8. \A r \in Plans : q.plans[r].state = "VERIFIED" => r \in proven
  BY <1>6 DEF Sound
<1>9. \A f \in Fails : q.failures[f].state = "VERIFIED" =>
          \E r \in Plans : q.plans[r].state = "VERIFIED" /\ q.plans[r].failure = f
  <2>1. TAKE f \in Fails
  <2>2. HAVE q.failures[f].state = "VERIFIED"
  <2>3. CASE f = g
    BY <1>5, <2>3
  <2>4. CASE f # g
    <3>1. payload.failures[f].state = "VERIFIED"
      BY <1>3, <1>4, <2>2, <2>4
    <3>2. PICK r \in Plans : payload.plans[r].state = "VERIFIED" /\ payload.plans[r].failure = f
      BY <3>1 DEF Sound
    <3>3. r # p
      BY <3>2
    <3> QED BY <1>6, <3>2, <3>3
  <2> QED BY <2>3, <2>4
<1>10. Sound(q, proven, last)
  BY <1>7, <1>8, <1>9 DEF Sound
<1> QED BY <1>4, <1>10 DEF q, w, g

----------------------------------------------------------------------------
\* What no call of this part needs to say: the final states are known ones.
LEMMA FinalIsKnown == \A s : s \in Diagnosis!Final => s \in Diagnosis!CauseKnown
BY DEF Diagnosis!CauseKnown

\* What a step of the diagnosis takes for granted.
LEMMA DiagnosisTyped ==
    ASSUME DiagnosisInv
    PROVE  /\ incident \in AnIncident /\ recorded \in [failures : Nat, plans : Nat] /\ reliability \in Payload
           /\ recorded.failures \in Nat /\ recorded.plans \in Nat
           /\ raw \in BOOLEAN /\ Sound(reliability, proved, recorded.plans)
           /\ ~raw /\ incident.status \in Diagnosis!CauseKnown => Grounded(incident)
BY DEF DiagnosisInv

\* A step of an incident that keeps what it is founded on, and writes a sound payload.
LEMMA StepKeeps ==
    ASSUME DiagnosisInv, incident' \in AnIncident, reliability' \in Payload, recorded' \in [failures : Nat, plans : Nat],
           recorded.plans <= recorded'.plans, proved \subseteq proved', Sound(reliability', proved', recorded'.plans),
           raw' = raw,
           ~raw => /\ incident.evidence = TRUE => incident'.evidence = TRUE
                   /\ incident.cause = TRUE => incident'.cause = TRUE
                   /\ incident'.status \in Diagnosis!CauseKnown =>
                        incident.status \in Diagnosis!CauseKnown \/ Grounded(incident')
                   /\ incident'.status \in Diagnosis!Final => incident.status \in Diagnosis!Final \/ passed' # {}
                   /\ passed # {} => passed' # {}
                   /\ known' = "ESTABLISHED" =>
                        known = "ESTABLISHED" \/ (passed' # {} /\ incident'.evidence = TRUE),
           \/ pending' = pending
           \/ \E c \in Process : \E call :
                 pending' = [pending EXCEPT ![c] = call] /\ Waits(call, raw, incident', proved', recorded'.plans)
    PROVE  DiagnosisInv'
<1>1. ~raw' => (Grounded(incident) => Grounded(incident'))
  BY DEF Grounded
<1>2. ASSUME NEW call, Waits(call, raw, incident, proved, recorded.plans)
      PROVE  Waits(call, raw', incident', proved', recorded'.plans)
  <2>1. recorded.plans \in Nat /\ recorded'.plans \in Nat
    BY DiagnosisTyped
  <2>2. \A payload \in Payload : Sound(payload, proved, recorded.plans) => Sound(payload, proved', recorded'.plans)
    BY <2>1, SoundLater
  <2>3. \A inner : PlanCall(inner, raw, proved, recorded.plans) => PlanCall(inner, raw', proved', recorded'.plans)
    BY <2>2 DEF PlanCall
  <2> QED BY <1>1, <1>2, <2>2, <2>3 DEF Waits
<1>3. DOMAIN pending' = Process /\ \A c \in Process : Waits(pending'[c], raw', incident', proved', recorded'.plans)
  <2>1. CASE pending' = pending
    BY <1>2, <2>1 DEF DiagnosisInv
  <2>2. ASSUME NEW c \in Process, NEW call, pending' = [pending EXCEPT ![c] = call],
               Waits(call, raw, incident', proved', recorded'.plans)
        PROVE  DOMAIN pending' = Process /\ \A d \in Process : Waits(pending'[d], raw', incident', proved', recorded'.plans)
    <3>1. DOMAIN pending' = Process
      BY <2>2 DEF DiagnosisInv
    <3>2. ASSUME NEW d \in Process PROVE Waits(pending'[d], raw', incident', proved', recorded'.plans)
      <4>1. CASE d = c
        BY <2>2, <4>1 DEF DiagnosisInv
      <4>2. CASE d # c
        <5>1. pending'[d] = pending[d]
          BY <2>2, <4>2 DEF DiagnosisInv
        <5> QED BY <1>2, <5>1 DEF DiagnosisInv
      <4> QED BY <4>1, <4>2
    <3> QED BY <3>1, <3>2
  <2> QED BY <2>1, <2>2
<1>4. ~raw' /\ incident'.status \in Diagnosis!CauseKnown => Grounded(incident')
  BY <1>1 DEF DiagnosisInv
<1>5. ~raw' /\ incident'.status \in Diagnosis!Final => passed' # {}
  BY DEF DiagnosisInv
<1>6. ~raw' /\ known' = "ESTABLISHED" => passed' # {} /\ incident'.evidence = TRUE
  BY DEF DiagnosisInv
<1>7. raw' \in BOOLEAN
  BY DEF DiagnosisInv
<1>8. Diagnosis!CauseKnown' = Diagnosis!CauseKnown /\ Diagnosis!Final' = Diagnosis!Final
  BY DEF Diagnosis!CauseKnown, Diagnosis!Final
<1> QED BY <1>3, <1>4, <1>5, <1>6, <1>7, <1>8 DEF DiagnosisInv

\* The same where the payload is left alone.
LEMMA QuietKeeps ==
    ASSUME DiagnosisInv, incident' \in AnIncident, UNCHANGED <<reliability, recorded, proved, raw>>,
           ~raw => /\ incident.evidence = TRUE => incident'.evidence = TRUE
                   /\ incident.cause = TRUE => incident'.cause = TRUE
                   /\ incident'.status \in Diagnosis!CauseKnown =>
                        incident.status \in Diagnosis!CauseKnown \/ Grounded(incident')
                   /\ incident'.status \in Diagnosis!Final => incident.status \in Diagnosis!Final \/ passed' # {}
                   /\ passed # {} => passed' # {}
                   /\ known' = "ESTABLISHED" =>
                        known = "ESTABLISHED" \/ (passed' # {} /\ incident'.evidence = TRUE),
           \/ pending' = pending
           \/ \E c \in Process : \E call :
                 pending' = [pending EXCEPT ![c] = call] /\ Waits(call, raw, incident', proved, recorded.plans)
    PROVE  DiagnosisInv'
<1>1. /\ reliability' \in Payload /\ recorded' \in [failures : Nat, plans : Nat] /\ recorded.plans <= recorded'.plans
      /\ proved \subseteq proved' /\ Sound(reliability', proved', recorded'.plans)
  BY DiagnosisTyped
<1> QED BY <1>1, StepKeeps

\* A write of a sound payload, the incident left alone.
LEMMA PayloadKeeps ==
    ASSUME DiagnosisInv, reliability' \in Payload, recorded' \in [failures : Nat, plans : Nat],
           recorded.plans <= recorded'.plans, Sound(reliability', proved, recorded'.plans),
           UNCHANGED <<incident, known, raw, passed, proved, pending>>
    PROVE  DiagnosisInv'
<1>1. incident' \in AnIncident /\ proved \subseteq proved' /\ Sound(reliability', proved', recorded'.plans)
  BY DiagnosisTyped
<1> QED BY <1>1, FinalIsKnown, StepKeeps

----------------------------------------------------------------------------
\* A failure is made: it is not verified.
LEMMA NewFailureKeeps ==
    ASSUME DiagnosisInv, NEW f \in Fails, NEW t \in Test \cup {NoTest}, Diagnosis!NewFailure(f, t)
    PROVE  /\ reliability' \in Payload /\ recorded' \in [failures : Nat, plans : Nat]
           /\ recorded'.plans = recorded.plans /\ Sound(reliability', proved, recorded'.plans)
<1> DEFINE failure == [state |-> "OPEN", test |-> t]
<1>1. recorded \in [failures : Nat, plans : Nat] /\ reliability \in Payload /\ Sound(reliability, proved, recorded.plans)
  BY DiagnosisTyped
<1>2. /\ f = recorded.failures + 1 /\ recorded' = [recorded EXCEPT !.failures = f]
      /\ reliability' = [reliability EXCEPT !.failures[f] = failure]
  BY DEF Diagnosis!NewFailure
<1>3. recorded' \in [failures : Nat, plans : Nat] /\ recorded'.plans = recorded.plans
  BY <1>1, <1>2
<1>4. failure \in AFailure /\ failure.state # "VERIFIED"
  BY DEF AFailure, FailureState
<1> HIDE DEF failure
<1> QED BY <1>1, <1>2, <1>3, <1>4, FailureKeeps

\* A plan is made: it is not verified, and no plan was there before.
LEMMA NewPlanKeeps ==
    ASSUME DiagnosisInv, NEW p \in Plans, NEW plan \in APlan, plan.state = "PREPARED", Diagnosis!NewPlan(p, plan)
    PROVE  /\ reliability' \in Payload /\ recorded' \in [failures : Nat, plans : Nat]
           /\ recorded.plans <= recorded'.plans /\ Sound(reliability', proved, recorded'.plans)
<1>1. /\ recorded \in [failures : Nat, plans : Nat] /\ reliability \in Payload
      /\ Sound(reliability, proved, recorded.plans) /\ recorded.plans \in Nat
  BY DiagnosisTyped
<1>2. /\ p = recorded.plans + 1 /\ recorded' = [recorded EXCEPT !.plans = p]
      /\ reliability' = [reliability EXCEPT !.plans[p] = plan]
  BY DEF Diagnosis!NewPlan
<1>3. recorded' \in [failures : Nat, plans : Nat] /\ recorded'.plans = p /\ recorded.plans <= p /\ p \in Nat
  BY <1>1, <1>2
<1>4. reliability.plans[p].state # "VERIFIED"
  BY <1>1, <1>2 DEF Sound
<1>5. Sound(reliability, proved, p)
  BY <1>1, <1>3, SoundLater
<1>6. reliability' \in Payload /\ Sound(reliability', proved, p)
  BY <1>1, <1>2, <1>3, <1>4, <1>5, PlanKeeps
<1> QED BY <1>3, <1>6

\* A failure is made, and the incident refers to it or stays as it is.
LEMMA DiagnoseKeeps ==
    ASSUME DiagnosisInv, NEW i \in AnIncident, NEW f \in Fails, Diagnosis!Diagnose(i, f),
           i.evidence = incident.evidence, i.cause = incident.cause,
           i.status \in Diagnosis!CauseKnown => i.status = incident.status
    PROVE  /\ incident' \in AnIncident /\ reliability' \in Payload /\ recorded' \in [failures : Nat, plans : Nat]
           /\ recorded'.plans = recorded.plans /\ Sound(reliability', proved, recorded'.plans)
           /\ incident'.evidence = incident.evidence /\ incident'.cause = incident.cause
           /\ incident'.status \in Diagnosis!CauseKnown => incident'.status = incident.status
<1> DEFINE d == Diagnosis!To(i, "DIAGNOSING")
<1>1. Diagnosis!NewFailure(f, NoTest) /\ (incident' = i \/ incident' = [d EXCEPT !.failure = f])
  BY DEF Diagnosis!Diagnose
<1>2. /\ reliability' \in Payload /\ recorded' \in [failures : Nat, plans : Nat]
      /\ recorded'.plans = recorded.plans /\ Sound(reliability', proved, recorded'.plans)
  BY <1>1, NewFailureKeeps
<1>3. /\ d \in AnIncident /\ d.evidence = i.evidence /\ d.cause = i.cause
      /\ d.status \in Diagnosis!CauseKnown => d.status = i.status
  BY EarlyStep
<1> HIDE DEF d
<1>4. CASE incident' = i
  BY <1>2, <1>4
<1>5. CASE incident' = [d EXCEPT !.failure = f]
  <2>1. /\ incident' \in AnIncident /\ incident'.evidence = d.evidence /\ incident'.cause = d.cause
        /\ incident'.status = d.status
    BY <1>3, <1>5 DEF AnIncident
  <2> QED BY <1>2, <1>3, <2>1
<1> QED BY <1>1, <1>4, <1>5

\* Triage takes an incident whose cause is not known no further.
LEMMA TriagedStep ==
    ASSUME NEW i \in AnIncident
    PROVE  /\ Diagnosis!Triaged(i) \in AnIncident
           /\ Diagnosis!Triaged(i).evidence = i.evidence /\ Diagnosis!Triaged(i).cause = i.cause
           /\ Diagnosis!Triaged(i).status \in Diagnosis!CauseKnown => Diagnosis!Triaged(i).status = i.status
<1> DEFINE a == Diagnosis!To(i, "TRIAGING")
           b == Diagnosis!To(a, "CONTAINED")
<1>1. /\ a \in AnIncident /\ a.evidence = i.evidence /\ a.cause = i.cause
      /\ a.status \in Diagnosis!CauseKnown => a.status = i.status
  BY EarlyStep
<1>2. /\ b \in AnIncident /\ b.evidence = a.evidence /\ b.cause = a.cause
      /\ b.status \in Diagnosis!CauseKnown => b.status = a.status
  <2> HIDE DEF a
  <2> QED BY <1>1, EarlyStep
<1>3. Diagnosis!Triaged(i) = i \/ Diagnosis!Triaged(i) = b
  BY DEF Diagnosis!Triaged, Diagnosis!Contained
<1> QED BY <1>1, <1>2, <1>3

LEMMA InvestigateKeeps ==
    ASSUME DiagnosisInv, NEW c \in Process, Diagnosis!Investigate(c)
    PROVE  DiagnosisInv'
<1> DEFINE t == Diagnosis!Triaged(incident)
<1>1. UNCHANGED <<tests, known, sandbox, experiment, raw, passed, proved>>
  BY DEF Diagnosis!Investigate
<1>2. incident \in AnIncident /\ recorded.plans \in Nat
  BY DiagnosisTyped
<1>3. /\ t \in AnIncident /\ t.evidence = incident.evidence /\ t.cause = incident.cause
      /\ t.status \in Diagnosis!CauseKnown => t.status = incident.status
  BY <1>2, TriagedStep
<1> HIDE DEF t
<1>4. CASE /\ incident' = t /\ UNCHANGED <<reliability, recorded>>
           /\ pending' = [pending EXCEPT ![c] = [at |-> "creating"]]
  <2>1. Waits([at |-> "creating"], raw, incident', proved, recorded.plans)
    BY DEF Waits
  <2> QED BY <1>1, <1>3, <1>4, <2>1, FinalIsKnown, QuietKeeps
<1>5. ASSUME NEW f \in Fails, Diagnosis!Diagnose(Diagnosis!To(t, "REPRODUCING"), f), pending' = pending
      PROVE  DiagnosisInv'
  <2> DEFINE i == Diagnosis!To(t, "REPRODUCING")
  <2>1. /\ i \in AnIncident /\ i.evidence = t.evidence /\ i.cause = t.cause
        /\ i.status \in Diagnosis!CauseKnown => i.status = t.status
    BY <1>3, EarlyStep
  <2>2. Diagnosis!Diagnose(i, f)
    BY <1>5
  <2> HIDE DEF i
  <2>3. /\ incident' \in AnIncident /\ reliability' \in Payload /\ recorded' \in [failures : Nat, plans : Nat]
        /\ recorded'.plans = recorded.plans /\ Sound(reliability', proved, recorded'.plans)
        /\ incident'.evidence = incident.evidence /\ incident'.cause = incident.cause
        /\ incident'.status \in Diagnosis!CauseKnown => incident'.status = incident.status
    BY <1>3, <2>1, <2>2, DiagnoseKeeps
  <2>4. /\ recorded.plans <= recorded'.plans /\ proved \subseteq proved'
        /\ Sound(reliability', proved', recorded'.plans)
    BY <1>1, <1>2, <2>3
  <2> QED BY <1>1, <1>5, <2>3, <2>4, FinalIsKnown, StepKeeps
<1> QED BY <1>4, <1>5 DEF Diagnosis!Investigate, Diagnosis!Await, Diagnosis!Now, t, Fails

LEMMA SandboxStartedKeeps ==
    ASSUME DiagnosisInv, NEW c \in Process, Diagnosis!SandboxStarted(c)
    PROVE  DiagnosisInv'
<1> DEFINE r == Diagnosis!To(incident, "REPRODUCING")
           i == [r EXCEPT !.box = TRUE, !.place = TRUE]
<1>1. UNCHANGED <<tests, known, sandbox, experiment, raw, passed, proved>>
      /\ pending' = [pending EXCEPT ![c] = [at |-> "free"]]
  BY DEF Diagnosis!SandboxStarted, Diagnosis!Return, Diagnosis!Resume, Diagnosis!Free
<1>2. incident \in AnIncident /\ recorded.plans \in Nat
  BY DiagnosisTyped
<1>3. /\ r \in AnIncident /\ r.evidence = incident.evidence /\ r.cause = incident.cause
      /\ r.status \in Diagnosis!CauseKnown => r.status = incident.status
  BY <1>2, EarlyStep
<1>4. \A last : Waits([at |-> "free"], raw, incident', proved', last)
  BY DEF Waits
<1> HIDE DEF r
<1>5. ASSUME NEW f \in Fails, Diagnosis!Diagnose(i, f) PROVE DiagnosisInv'
  <2>1. /\ i \in AnIncident /\ i.evidence = incident.evidence /\ i.cause = incident.cause /\ i.status = r.status
    BY <1>3 DEF AnIncident
  <2> HIDE DEF i
  <2>2. /\ incident' \in AnIncident /\ reliability' \in Payload /\ recorded' \in [failures : Nat, plans : Nat]
        /\ recorded'.plans = recorded.plans /\ Sound(reliability', proved, recorded'.plans)
        /\ incident'.evidence = incident.evidence /\ incident'.cause = incident.cause
        /\ incident'.status \in Diagnosis!CauseKnown => incident'.status = incident.status
    BY <1>3, <1>5, <2>1, DiagnoseKeeps
  <2>3. /\ recorded.plans <= recorded'.plans /\ proved \subseteq proved'
        /\ Sound(reliability', proved', recorded'.plans)
    BY <1>1, <1>2, <2>2
  <2> QED BY <1>1, <1>4, <2>2, <2>3, FinalIsKnown, StepKeeps
<1>6. CASE UNCHANGED <<incident, reliability, recorded>>
  BY <1>1, <1>2, <1>4, <1>6, FinalIsKnown, QuietKeeps
<1> QED BY <1>5, <1>6 DEF Diagnosis!SandboxStarted, r, Fails

\* A call that waits or is over and leaves the incident and the payload alone.
LEMMA WaitKeeps ==
    ASSUME DiagnosisInv, NEW c \in Process, NEW call, pending' = [pending EXCEPT ![c] = call],
           Waits(call, raw, incident, proved, recorded.plans),
           UNCHANGED <<incident, reliability, known, recorded, raw, passed, proved>>
    PROVE  DiagnosisInv'
<1>1. incident \in AnIncident
  BY DiagnosisTyped
<1>2. Waits(call, raw, incident', proved, recorded.plans)
  OBVIOUS
<1> QED BY <1>1, <1>2, QuietKeeps

LEMMA WaitingKeeps ==
    ASSUME DiagnosisInv, NEW c \in Process,
           \/ Diagnosis!SandboxCreated(c) \/ Diagnosis!Refused(c) \/ Diagnosis!PrepareRecovery(c)
           \/ \E p \in Plans, b \in BOOLEAN : Diagnosis!VerifyRecovery(c, p, b)
           \/ \E b \in BOOLEAN : Diagnosis!SmokeDone(c, b)
    PROVE  DiagnosisInv'
<1> USE DEF Diagnosis!Resume, Diagnosis!Return, Diagnosis!Await, Diagnosis!Free
<1>1. incident \in AnIncident /\ reliability \in Payload /\ Sound(reliability, proved, recorded.plans)
  BY DiagnosisTyped
<1>2. CASE Diagnosis!SandboxCreated(c)
  <2>1. PICK s \in {"free", "starting"} : pending' = [pending EXCEPT ![c] = [at |-> s]]
    BY <1>2 DEF Diagnosis!SandboxCreated
  <2>2. Waits([at |-> s], raw, incident, proved, recorded.plans)
    BY DEF Waits
  <2> QED BY <1>2, <2>1, <2>2, WaitKeeps DEF Diagnosis!SandboxCreated
<1>3. CASE Diagnosis!Refused(c)
  <2>1. Waits([at |-> "free"], raw, incident, proved, recorded.plans)
    BY DEF Waits
  <2> QED BY <1>3, <2>1, WaitKeeps DEF Diagnosis!Refused
<1>4. CASE Diagnosis!PrepareRecovery(c)
  <2>1. Waits([at |-> "snapshot", incident |-> incident], raw, incident, proved, recorded.plans)
    BY <1>1 DEF Waits
  <2> QED BY <1>4, <2>1, WaitKeeps DEF Diagnosis!PrepareRecovery
<1>5. ASSUME NEW p \in Plans, NEW b \in BOOLEAN, Diagnosis!VerifyRecovery(c, p, b) PROVE DiagnosisInv'
  <2> DEFINE call == [at |-> "smoke", plan |-> p, was |-> reliability,
                      fixing |-> b /\ incident.status = "FIXING", evidence |-> incident.evidence]
  <2>1. pending' = [pending EXCEPT ![c] = call] /\ reliability.plans[p].state = "EXECUTING"
        /\ UNCHANGED <<incident, reliability, known, recorded, raw, passed, proved>>
    BY <1>5 DEF Diagnosis!VerifyRecovery
  <2>2. /\ call.at = "smoke" /\ call.plan = p /\ call.was = reliability /\ call.evidence = incident.evidence
        /\ call.fixing \in BOOLEAN /\ (call.fixing = TRUE => incident.status = "FIXING")
    OBVIOUS
  <2> HIDE DEF call
  <2>3. ~raw /\ incident.status = "FIXING" => incident.evidence = TRUE
    BY DEF DiagnosisInv, Grounded, Diagnosis!CauseKnown
  <2>4. incident.evidence \in BOOLEAN
    BY <1>1 DEF AnIncident
  <2>5. PlanCall(call, raw, proved, recorded.plans)
    BY <1>1, <2>1, <2>2, <2>3, <2>4 DEF PlanCall
  <2>6. Waits(call, raw, incident, proved, recorded.plans)
    BY <2>2, <2>5 DEF Waits
  <2> QED BY <2>1, <2>6, WaitKeeps
<1>6. ASSUME NEW b \in BOOLEAN, Diagnosis!SmokeDone(c, b) PROVE DiagnosisInv'
  <2>1. PICK suite : pending' = [pending EXCEPT ![c] =
                        [at |-> "suite", of |-> "plan", call |-> pending[c], smoke |-> b, suite |-> suite]]
    BY <1>6 DEF Diagnosis!SmokeDone
  <2> DEFINE call == [at |-> "suite", of |-> "plan", call |-> pending[c], smoke |-> b, suite |-> suite]
  <2>2. PlanCall(pending[c], raw, proved, recorded.plans)
    BY <1>6 DEF Diagnosis!SmokeDone, DiagnosisInv, Waits
  <2>3. call.at = "suite" /\ call.of = "plan" /\ call.call = pending[c]
    OBVIOUS
  <2>4. pending' = [pending EXCEPT ![c] = call]
    BY <2>1
  <2> HIDE DEF call
  <2>5. Waits(call, raw, incident, proved, recorded.plans)
    BY <2>2, <2>3 DEF Waits
  <2>6. UNCHANGED <<incident, reliability, known, recorded, raw, passed, proved>>
    BY <1>6 DEF Diagnosis!SmokeDone
  <2> QED BY <2>4, <2>5, <2>6, WaitKeeps
<1> QED BY <1>2, <1>3, <1>4, <1>5, <1>6

----------------------------------------------------------------------------
\* A hypothesis, an experiment, the evidence of one: the cause stays unknown.
LEMMA EarlyKeeps ==
    ASSUME DiagnosisInv, incident' \in AnIncident,
           incident.evidence = TRUE => incident'.evidence = TRUE, incident'.cause = incident.cause,
           incident'.status \in Diagnosis!CauseKnown => incident'.status = incident.status,
           UNCHANGED <<reliability, known, recorded, raw, passed, proved, pending>>
    PROVE  DiagnosisInv'
BY FinalIsKnown, QuietKeeps

LEMMA ExperimentKeeps ==
    ASSUME DiagnosisInv, NEW c \in Process,
           Diagnosis!FormHypothesis(c) \/ Diagnosis!StartExperiment(c) \/ Diagnosis!RecordEvidence(c) \/ Diagnosis!Escalate(c)
    PROVE  DiagnosisInv'
<1> USE DEF Diagnosis!Now
<1>1. incident \in AnIncident
  BY DiagnosisTyped
<1>2. CASE Diagnosis!FormHypothesis(c)
  <2> DEFINE t == Diagnosis!To(incident, "HYPOTHESIS")
  <2>1. /\ t \in AnIncident /\ t.evidence = incident.evidence /\ t.cause = incident.cause
        /\ t.status \in Diagnosis!CauseKnown => t.status = incident.status
    BY <1>1, EarlyStep
  <2>2. incident' = [t EXCEPT !.hypothesis = TRUE]
    BY <1>2 DEF Diagnosis!FormHypothesis
  <2> HIDE DEF t
  <2>3. /\ incident' \in AnIncident /\ incident'.evidence = t.evidence /\ incident'.cause = t.cause
        /\ incident'.status = t.status
    BY <2>1, <2>2 DEF AnIncident
  <2> QED BY <1>2, <2>1, <2>3, EarlyKeeps DEF Diagnosis!FormHypothesis
<1>3. CASE Diagnosis!StartExperiment(c)
  <2> DEFINE t == Diagnosis!To(incident, "EXPERIMENTING")
  <2>1. /\ t \in AnIncident /\ t.evidence = incident.evidence /\ t.cause = incident.cause
        /\ t.status \in Diagnosis!CauseKnown => t.status = incident.status
    BY <1>1, EarlyStep
  <2>2. incident' = [t EXCEPT !.experiment = TRUE] \/ incident' = incident
    BY <1>3 DEF Diagnosis!StartExperiment
  <2> HIDE DEF t
  <2>3. CASE incident' = incident
    BY <1>1, <1>3, <2>3, EarlyKeeps DEF Diagnosis!StartExperiment
  <2>4. CASE incident' = [t EXCEPT !.experiment = TRUE]
    <3>1. /\ incident' \in AnIncident /\ incident'.evidence = t.evidence /\ incident'.cause = t.cause
          /\ incident'.status = t.status
      BY <2>1, <2>4 DEF AnIncident
    <3> QED BY <1>3, <2>1, <3>1, EarlyKeeps DEF Diagnosis!StartExperiment
  <2> QED BY <2>2, <2>3, <2>4
<1>4. CASE Diagnosis!RecordEvidence(c)
  <2>1. incident' = [incident EXCEPT !.evidence = TRUE]
    BY <1>4 DEF Diagnosis!RecordEvidence
  <2>2. /\ incident' \in AnIncident /\ incident'.evidence = TRUE /\ incident'.cause = incident.cause
        /\ incident'.status = incident.status
    BY <1>1, <2>1 DEF AnIncident
  <2> QED BY <1>4, <2>2, EarlyKeeps DEF Diagnosis!RecordEvidence
<1>5. CASE Diagnosis!Escalate(c)
  <2> DEFINE t == Diagnosis!To(incident, "ESCALATED")
  <2>1. /\ t \in AnIncident /\ t.evidence = incident.evidence /\ t.cause = incident.cause
        /\ t.status \in Diagnosis!CauseKnown => t.status = incident.status
    BY <1>1, EarlyStep
  <2> HIDE DEF t
  <2> QED BY <1>5, <2>1, EarlyKeeps DEF Diagnosis!Escalate, t
<1> QED BY <1>2, <1>3, <1>4, <1>5

\* A root cause is established with evidence: the incident is grounded.
LEMMA RootCauseKeeps ==
    ASSUME DiagnosisInv, NEW i \in AnIncident, Diagnosis!RootCause(i),
           i.evidence = TRUE, i.status \notin Diagnosis!Final \/ i.status = incident.status,
           UNCHANGED <<known, recorded, raw, passed, proved, pending>>
    PROVE  DiagnosisInv'
<1> DEFINE r == Diagnosis!To(i, "ROOT_CAUSE_FOUND")
<1>1. r \in AnIncident /\ (r = i \/ r = [i EXCEPT !.status = "ROOT_CAUSE_FOUND"])
  BY ToStep DEF Statuses
<1>2. r.evidence = i.evidence /\ (r.status = i.status \/ r.status = "ROOT_CAUSE_FOUND")
  <2> HIDE DEF r
  <2> QED BY <1>1 DEF AnIncident
<1>3. incident' = [r EXCEPT !.cause = TRUE]
  BY DEF Diagnosis!RootCause
<1>4. reliability' = reliability \/
        (i.failure # 0 /\ reliability' = [reliability EXCEPT !.failures[i.failure] = [state |-> "RESOLVED", test |-> NoTest]])
  BY DEF Diagnosis!RootCause, Diagnosis!Exists, Diagnosis!Resolved
<1> HIDE DEF r
<1>5. /\ incident' \in AnIncident /\ incident'.evidence = TRUE /\ incident'.cause = TRUE
      /\ incident'.status = r.status
  BY <1>1, <1>2, <1>3 DEF AnIncident
<1>6. reliability' \in Payload /\ Sound(reliability', proved, recorded.plans)
  <2>1. CASE reliability' = reliability
    BY <2>1, DiagnosisTyped
  <2>2. CASE /\ i.failure # 0
             /\ reliability' = [reliability EXCEPT !.failures[i.failure] = [state |-> "RESOLVED", test |-> NoTest]]
    <3>1. i.failure \in Fails
      BY <2>2 DEF AnIncident
    <3> DEFINE failure == [state |-> "RESOLVED", test |-> NoTest]
    <3>2. failure \in AFailure /\ failure.state # "VERIFIED"
      BY DEF AFailure, FailureState
    <3>3. reliability' = [reliability EXCEPT !.failures[i.failure] = failure]
      BY <2>2
    <3> HIDE DEF failure
    <3> QED BY <3>1, <3>2, <3>3, FailureKeeps, DiagnosisTyped
  <2> QED BY <1>4, <2>1, <2>2
<1>7. /\ recorded' \in [failures : Nat, plans : Nat] /\ recorded.plans <= recorded'.plans
      /\ proved \subseteq proved' /\ Sound(reliability', proved', recorded'.plans)
  BY <1>6, DiagnosisTyped
<1>8. Grounded(incident')
  BY <1>5 DEF Grounded
<1>9. incident'.status \in Diagnosis!Final => incident.status \in Diagnosis!Final
  BY <1>2, <1>5 DEF Diagnosis!Final
<1> QED BY <1>5, <1>6, <1>7, <1>8, <1>9, StepKeeps

LEMMA EstablishKeeps ==
    ASSUME DiagnosisInv, NEW c \in Process, NEW claims \in BOOLEAN, Diagnosis!EstablishRootCause(c, claims)
    PROVE  DiagnosisInv'
<1> DEFINE i == [incident EXCEPT !.evidence = incident.evidence \/ claims]
<1>1. incident \in AnIncident
  BY DiagnosisTyped
<1>2. Diagnosis!RootCause(i)
  BY DEF Diagnosis!EstablishRootCause
<1>3. incident.evidence \/ claims
  BY DEF Diagnosis!EstablishRootCause
<1>4. i \in AnIncident /\ i.evidence = (incident.evidence \/ claims) /\ i.status = incident.status
  BY <1>1 DEF AnIncident
<1> HIDE DEF i
<1>5. i.evidence = TRUE
  BY <1>3, <1>4
<1> QED BY <1>2, <1>4, <1>5, RootCauseKeeps DEF Diagnosis!EstablishRootCause, Diagnosis!Now

LEMMA FromFailureKeeps ==
    ASSUME DiagnosisInv, NEW c \in Process, Diagnosis!FromFailure(c)
    PROVE  DiagnosisInv'
<1> DEFINE h == Diagnosis!To(incident, "HYPOTHESIS")
           hyp == IF incident.status = "DIAGNOSING" THEN [h EXCEPT !.hypothesis = TRUE] ELSE incident
           try == hyp.status = "HYPOTHESIS"
           e == Diagnosis!To(hyp, "EXPERIMENTING")
           exp == IF try THEN [e EXCEPT !.experiment = TRUE] ELSE hyp
           i == [exp EXCEPT !.evidence = TRUE]
<1>1. incident \in AnIncident
  BY DiagnosisTyped
<1>2. UNCHANGED <<known, recorded, raw, passed, proved, pending>>
  BY DEF Diagnosis!FromFailure, Diagnosis!Now
<1>3. \/ incident' = hyp /\ UNCHANGED reliability
      \/ Diagnosis!RootCause(i) /\ exp.status = "EXPERIMENTING"
      \/ exp.evidence /\ Diagnosis!RootCause(exp) /\ exp.status = "VERIFYING"
  BY DEF Diagnosis!FromFailure
<1>4. /\ h \in AnIncident /\ h.evidence = incident.evidence /\ h.cause = incident.cause
      /\ h.status \in Diagnosis!CauseKnown => h.status = incident.status
  BY <1>1, EarlyStep
<1> HIDE DEF h
<1>5. /\ hyp \in AnIncident /\ hyp.evidence = incident.evidence /\ hyp.cause = incident.cause
      /\ hyp.status \in Diagnosis!CauseKnown => hyp.status = incident.status
  <2> DEFINE q == [h EXCEPT !.hypothesis = TRUE]
  <2>1. q \in AnIncident /\ q.evidence = h.evidence /\ q.cause = h.cause /\ q.status = h.status
    BY <1>4 DEF AnIncident
  <2>2. hyp = q \/ hyp = incident
    OBVIOUS
  <2> HIDE DEF q, hyp
  <2> QED BY <1>1, <1>4, <2>1, <2>2
<1> HIDE DEF hyp
<1>6. e \in AnIncident
  BY <1>5, EarlyStep
<1> HIDE DEF e
<1>7. exp \in AnIncident
  BY <1>5, <1>6 DEF AnIncident
<1> HIDE DEF exp
<1>8. i \in AnIncident /\ i.status = exp.status /\ i.evidence = TRUE
  BY <1>7 DEF AnIncident
<1>9. exp.evidence \in BOOLEAN
  BY <1>7 DEF AnIncident
<1> HIDE DEF i
<1>10. CASE incident' = hyp /\ UNCHANGED reliability
  BY <1>2, <1>5, <1>10, EarlyKeeps
<1>11. CASE Diagnosis!RootCause(i) /\ exp.status = "EXPERIMENTING"
  <2>1. i.status \notin Diagnosis!Final
    BY <1>8, <1>11 DEF Diagnosis!Final
  <2> QED BY <1>2, <1>8, <1>11, <2>1, RootCauseKeeps
<1>12. CASE exp.evidence /\ Diagnosis!RootCause(exp) /\ exp.status = "VERIFYING"
  <2>1. exp.evidence = TRUE
    BY <1>9, <1>12
  <2>2. exp.status \notin Diagnosis!Final
    BY <1>12 DEF Diagnosis!Final
  <2> QED BY <1>2, <1>7, <1>12, <2>1, <2>2, RootCauseKeeps
<1> QED BY <1>3, <1>10, <1>11, <1>12

----------------------------------------------------------------------------
LEMMA ResolveKeeps ==
    ASSUME DiagnosisInv, NEW c \in Process, NEW f \in Fails, NEW t \in Test \cup {NoTest}, Diagnosis!Resolve(c, f, t)
    PROVE  DiagnosisInv'
<1> DEFINE failure == [state |-> "RESOLVED", test |-> t]
<1>1. reliability' = [reliability EXCEPT !.failures[f] = failure]
  BY DEF Diagnosis!Resolve, Diagnosis!Resolved
<1>2. failure \in AFailure /\ failure.state # "VERIFIED"
  BY DEF AFailure, FailureState
<1> HIDE DEF failure
<1>3. reliability' \in Payload /\ Sound(reliability', proved, recorded.plans)
  BY <1>1, <1>2, FailureKeeps, DiagnosisTyped
<1>4. UNCHANGED <<incident, known, recorded, raw, passed, proved, pending>>
  BY DEF Diagnosis!Resolve, Diagnosis!Now
<1>5. recorded' \in [failures : Nat, plans : Nat] /\ recorded.plans <= recorded'.plans /\ recorded'.plans = recorded.plans
  BY <1>4, DiagnosisTyped
<1> QED BY <1>3, <1>4, <1>5, PayloadKeeps

\* A failure or a plan by the reliability route.
LEMMA RouteKeeps ==
    ASSUME DiagnosisInv, NEW c \in Process, NEW f \in {0} \cup Fails,
           \/ \E t \in Test \cup {NoTest} : f # 0 /\ Diagnosis!RecordFailure(c, f, t)
           \/ \E p \in Plans, box \in BOOLEAN, checkpoint \in BOOLEAN : Diagnosis!Prepare(c, p, f, box, checkpoint)
    PROVE  DiagnosisInv'
<1>1. ASSUME NEW t \in Test \cup {NoTest}, f \in Fails, Diagnosis!RecordFailure(c, f, t) PROVE DiagnosisInv'
  <2>1. Diagnosis!NewFailure(f, t) /\ UNCHANGED <<incident, known, raw, passed, proved, pending>>
    BY <1>1 DEF Diagnosis!RecordFailure, Diagnosis!Now
  <2>2. /\ reliability' \in Payload /\ recorded' \in [failures : Nat, plans : Nat]
        /\ recorded'.plans = recorded.plans /\ Sound(reliability', proved, recorded'.plans)
    BY <1>1, <2>1, NewFailureKeeps
  <2>3. recorded.plans <= recorded'.plans
    BY <2>2, DiagnosisTyped
  <2> QED BY <2>1, <2>2, <2>3, PayloadKeeps
<1>2. ASSUME NEW p \in Plans, NEW box \in BOOLEAN, NEW checkpoint \in BOOLEAN, Diagnosis!Prepare(c, p, f, box, checkpoint)
      PROVE  DiagnosisInv'
  <2> DEFINE plan == [state |-> "PREPARED", failure |-> f, box |-> box, checkpoint |-> checkpoint]
  <2>1. Diagnosis!NewPlan(p, plan) /\ UNCHANGED <<incident, known, raw, passed, proved, pending>>
    BY <1>2 DEF Diagnosis!Prepare, Diagnosis!Now
  <2>2. plan \in APlan /\ plan.state = "PREPARED"
    BY DEF APlan, PlanState
  <2> HIDE DEF plan
  <2>3. /\ reliability' \in Payload /\ recorded' \in [failures : Nat, plans : Nat]
        /\ recorded.plans <= recorded'.plans /\ Sound(reliability', proved, recorded'.plans)
    BY <2>1, <2>2, NewPlanKeeps
  <2> QED BY <2>1, <2>3, PayloadKeeps
<1> QED BY <1>1, <1>2

LEMMA RegressionKeeps ==
    ASSUME DiagnosisInv, NEW c \in Process, NEW t \in Test, Diagnosis!CreateRegressionTest(c, t)
    PROVE  DiagnosisInv'
<1> DEFINE f == incident.failure
           failure == [reliability.failures[f] EXCEPT !.test = t]
<1>1. incident \in AnIncident /\ reliability \in Payload /\ Sound(reliability, proved, recorded.plans)
  BY DiagnosisTyped
<1>2. incident' = [incident EXCEPT !.test = t]
  BY DEF Diagnosis!CreateRegressionTest
<1>3. /\ incident' \in AnIncident /\ incident'.evidence = incident.evidence /\ incident'.cause = incident.cause
      /\ incident'.status = incident.status
  BY <1>1, <1>2 DEF AnIncident
<1>4. \/ reliability' = reliability
      \/ f # 0 /\ reliability' = [reliability EXCEPT !.failures[f].test = t]
  BY DEF Diagnosis!CreateRegressionTest, Diagnosis!Exists
<1>5. reliability' \in Payload /\ Sound(reliability', proved, recorded.plans)
  <2>1. CASE reliability' = reliability
    BY <1>1, <2>1
  <2>2. CASE f # 0 /\ reliability' = [reliability EXCEPT !.failures[f].test = t]
    <3>1. f \in Fails
      BY <1>1, <2>2 DEF AnIncident
    <3> HIDE DEF f
    <3>2. failure \in AFailure /\ failure.state = reliability.failures[f].state
      BY <1>1, <3>1 DEF Payload, AFailure
    <3>3. reliability' = [reliability EXCEPT !.failures[f] = failure]
      BY <1>1, <2>2, <3>1 DEF Payload
    <3> HIDE DEF failure
    <3> QED BY <1>1, <3>1, <3>2, <3>3, FailureKeeps
  <2> QED BY <1>4, <2>1, <2>2
<1>6. UNCHANGED <<known, recorded, raw, passed, proved, pending>>
  BY DEF Diagnosis!CreateRegressionTest, Diagnosis!Now
<1>7. /\ recorded' \in [failures : Nat, plans : Nat] /\ recorded.plans <= recorded'.plans
      /\ proved \subseteq proved' /\ Sound(reliability', proved', recorded'.plans)
  BY <1>5, <1>6, DiagnosisTyped
<1> QED BY <1>3, <1>5, <1>6, <1>7, FinalIsKnown, StepKeeps

\* The plan is made from what was read before the snapshot.
LEMMA PreparedKeeps ==
    ASSUME DiagnosisInv, NEW c \in Process, NEW p \in Plans, NEW checkpoint \in BOOLEAN,
           Diagnosis!RecoveryPrepared(c, p, checkpoint)
    PROVE  DiagnosisInv'
<1> DEFINE i == pending[c].incident
           plan == [state |-> "PREPARED", failure |-> i.failure, box |-> i.box, checkpoint |-> checkpoint]
           t == Diagnosis!To(incident, "FIXING")
<1>1. /\ pending[c].at = "snapshot" /\ Diagnosis!NewPlan(p, plan)
      /\ incident' = incident \/ (Diagnosis!CanGo(incident, "FIXING") /\ incident' = [t EXCEPT !.plan = p])
      /\ pending' = [pending EXCEPT ![c] = [at |-> "free"]]
      /\ UNCHANGED <<known, raw, passed, proved>>
  BY DEF Diagnosis!RecoveryPrepared, Diagnosis!Return, Diagnosis!Resume, Diagnosis!Free
<1>2. incident \in AnIncident
  BY DiagnosisTyped
<1>3. i \in AnIncident
  BY <1>1 DEF DiagnosisInv, Waits
<1> HIDE DEF i
<1>4. plan \in APlan /\ plan.state = "PREPARED"
  BY <1>3 DEF APlan, PlanState, AnIncident
<1> HIDE DEF plan
<1>5. /\ reliability' \in Payload /\ recorded' \in [failures : Nat, plans : Nat]
      /\ recorded.plans <= recorded'.plans /\ Sound(reliability', proved, recorded'.plans)
  BY <1>1, <1>4, NewPlanKeeps
<1>6. proved \subseteq proved' /\ Sound(reliability', proved', recorded'.plans)
  BY <1>1, <1>5
<1>7. Waits([at |-> "free"], raw, incident', proved', recorded'.plans)
  BY DEF Waits
<1>8. CASE incident' = incident
  BY <1>1, <1>2, <1>5, <1>6, <1>7, <1>8, FinalIsKnown, StepKeeps
<1>9. CASE Diagnosis!CanGo(incident, "FIXING") /\ incident' = [t EXCEPT !.plan = p]
  <2>1. t \in AnIncident /\ (t = incident \/ t = [incident EXCEPT !.status = "FIXING"])
    BY <1>2, ToStep DEF Statuses
  <2>2. t.evidence = incident.evidence /\ t.cause = incident.cause /\ (t.status = incident.status \/ t.status = "FIXING")
    <3> HIDE DEF t
    <3> QED BY <1>2, <2>1 DEF AnIncident
  <2>3. incident.status = "ROOT_CAUSE_FOUND"
    BY <1>2, <1>9, CauseFrom
  <2> HIDE DEF t
  <2>4. /\ incident' \in AnIncident /\ incident'.evidence = t.evidence /\ incident'.cause = t.cause
        /\ incident'.status = t.status
    BY <1>9, <2>1 DEF AnIncident
  <2>5. incident.status \in Diagnosis!CauseKnown
    BY <2>3 DEF Diagnosis!CauseKnown
  <2>6. incident'.status \notin Diagnosis!Final
    BY <2>2, <2>3, <2>4 DEF Diagnosis!Final
  <2> QED BY <1>1, <1>5, <1>6, <1>7, <2>2, <2>4, <2>5, <2>6, StepKeeps
<1> QED BY <1>1, <1>8, <1>9

\* The payload a recovery writes is as sound as the one it read.
LEMMA ExecutingKeeps ==
    ASSUME DiagnosisInv, NEW p \in Plans, reliability.plans[p].state = "PREPARED"
    PROVE  Diagnosis!Executing(p) \in Payload /\ Sound(Diagnosis!Executing(p), proved, recorded.plans)
<1> DEFINE f == reliability.plans[p].failure
           w == Diagnosis!WithFailure(reliability, f, "CONTAINED")
<1>1. reliability \in Payload /\ Sound(reliability, proved, recorded.plans)
  BY DiagnosisTyped
<1>2. f \in {0} \cup Fails
  BY <1>1 DEF Payload, APlan
<1> HIDE DEF f
<1>3. w \in Payload /\ w.plans = reliability.plans /\ Sound(w, proved, recorded.plans)
  BY <1>1, <1>2, WithFailureKeeps DEF FailureState
<1>4. Diagnosis!Executing(p) = [w EXCEPT !.plans[p].state = "EXECUTING"]
  BY DEF Diagnosis!Executing, f
<1> HIDE DEF w
<1>5. w.plans[p].state \notin {"absent", "VERIFIED"}
  BY <1>3
<1> QED BY <1>3, <1>4, <1>5, PlanStateKeeps DEF PlanState

LEMMA ExecuteKeeps ==
    ASSUME DiagnosisInv, NEW c \in Process, Diagnosis!ExecuteRecovery(c)
    PROVE  DiagnosisInv'
<1> DEFINE p == incident.plan
           e == Diagnosis!Executing(p)
<1>1. incident \in AnIncident
  BY DiagnosisTyped
<1>2. p \in Plans /\ reliability.plans[p].state = "PREPARED"
  BY <1>1 DEF AnIncident, Diagnosis!ExecuteRecovery
<1>3. e \in Payload /\ Sound(e, proved, recorded.plans)
  BY <1>2, ExecutingKeeps
<1>4. UNCHANGED <<incident, known, recorded, raw, passed, proved>>
  BY DEF Diagnosis!ExecuteRecovery
<1>5. \/ pending' = [pending EXCEPT ![c] = [at |-> "restoring", payload |-> e]] /\ UNCHANGED reliability
      \/ pending' = pending /\ reliability' = e
  BY DEF Diagnosis!ExecuteRecovery, Diagnosis!Await, Diagnosis!Now
<1> HIDE DEF e
<1>6. CASE pending' = [pending EXCEPT ![c] = [at |-> "restoring", payload |-> e]] /\ UNCHANGED reliability
  <2>1. Waits([at |-> "restoring", payload |-> e], raw, incident, proved, recorded.plans)
    BY <1>3 DEF Waits
  <2> QED BY <1>4, <1>6, <2>1, WaitKeeps
<1>7. CASE pending' = pending /\ reliability' = e
  <2>1. recorded' \in [failures : Nat, plans : Nat] /\ recorded.plans <= recorded'.plans /\ recorded'.plans = recorded.plans
    BY <1>4, DiagnosisTyped
  <2> QED BY <1>3, <1>4, <1>7, <2>1, PayloadKeeps
<1> QED BY <1>5, <1>6, <1>7

\* What a call writes back was sound when it was read, and is.
LEMMA RestoredKeeps ==
    ASSUME DiagnosisInv, NEW c \in Process, Diagnosis!Restored(c)
    PROVE  DiagnosisInv'
<1> DEFINE payload == pending[c].payload
<1>1. pending[c].at = "restoring" /\ reliability' = payload
      /\ pending' = [pending EXCEPT ![c] = [at |-> "free"]] /\ UNCHANGED <<incident, known, recorded, raw, passed, proved>>
  BY DEF Diagnosis!Restored, Diagnosis!Return, Diagnosis!Resume, Diagnosis!Free
<1>2. payload \in Payload /\ Sound(payload, proved, recorded.plans)
  BY <1>1 DEF DiagnosisInv, Waits
<1> HIDE DEF payload
<1>3. Waits([at |-> "free"], raw, incident', proved', recorded'.plans)
  BY DEF Waits
<1>4. /\ incident' \in AnIncident /\ reliability' \in Payload /\ recorded' \in [failures : Nat, plans : Nat]
      /\ recorded.plans <= recorded'.plans /\ proved \subseteq proved' /\ Sound(reliability', proved', recorded'.plans)
  BY <1>1, <1>2, DiagnosisTyped
<1> QED BY <1>1, <1>3, <1>4, FinalIsKnown, StepKeeps

\* A verdict is written into the payload that was read before the tests; an
\* accepted plan takes a fixing incident on with the evidence it had before: it
\* was grounded then.
LEMMA PlanVerifiedKeeps ==
    ASSUME DiagnosisInv, NEW c \in Process, NEW failing, Diagnosis!PlanVerified(c, failing)
    PROVE  DiagnosisInv'
<1> DEFINE call == pending[c].call
           p == call.plan
           g == call.was.plans[p].failure
           ok == pending[c].smoke /\ Diagnosis!SuitePassed(pending[c].suite, failing)
           w == Diagnosis!WithFailure(call.was, g, IF ok THEN "VERIFIED" ELSE "ANALYZING")
           q == [w EXCEPT !.plans[p].state = IF ok THEN "VERIFIED" ELSE "REJECTED"]
           t == Diagnosis!To(incident, "VERIFYING")
<1>1. /\ pending[c].at = "suite" /\ pending[c].of = "plan"
      /\ passed' = passed \cup (pending[c].suite \ failing)
      /\ reliability' = q
      /\ \/ incident' = incident
         \/ /\ call.fixing /\ Diagnosis!CanGo(incident, "VERIFYING")
            /\ incident' = [t EXCEPT !.evidence = call.evidence, !.plan = p]
      /\ proved' = (IF pending[c].smoke /\ pending[c].suite # {} /\ failing = {} THEN proved \cup {p} ELSE proved)
      /\ pending' = [pending EXCEPT ![c] = [at |-> "free"]]
      /\ UNCHANGED <<known, recorded, raw>>
  BY DEF Diagnosis!PlanVerified, Diagnosis!SuiteRun, Diagnosis!Return, Diagnosis!Resume, Diagnosis!Free
<1>2. PlanCall(call, raw, proved, recorded.plans)
  BY <1>1 DEF DiagnosisInv, Waits
<1>3. incident \in AnIncident /\ recorded \in [failures : Nat, plans : Nat] /\ recorded.plans \in Nat
  BY DiagnosisTyped
<1>4. proved \subseteq proved' /\ (ok => p \in proved')
  BY <1>1 DEF Diagnosis!SuitePassed
<1>5. p \in Plans /\ call.was \in Payload /\ call.was.plans[p].state = "EXECUTING" /\ call.evidence \in BOOLEAN
      /\ call.fixing \in BOOLEAN /\ Sound(call.was, proved, recorded.plans)
  BY <1>2 DEF PlanCall
<1> HIDE DEF call, ok
<1>6. Sound(call.was, proved', recorded.plans)
  BY <1>3, <1>4, <1>5, SoundLater
<1>7. q \in Payload /\ Sound(q, proved', recorded.plans)
  <2>1. CASE ok
    <3>1. q = [Diagnosis!WithFailure(call.was, call.was.plans[p].failure, "VERIFIED") EXCEPT !.plans[p].state = "VERIFIED"]
      BY <2>1
    <3> HIDE DEF q
    <3> QED BY <1>4, <1>5, <1>6, <2>1, <3>1, VerdictKeeps
  <2>2. CASE ~ok
    <3> DEFINE v == Diagnosis!WithFailure(call.was, g, "ANALYZING")
    <3>1. q = [v EXCEPT !.plans[p].state = "REJECTED"]
      BY <2>2
    <3>2. g \in {0} \cup Fails
      BY <1>5 DEF Payload, APlan
    <3> HIDE DEF g, p, q
    <3>3. v \in Payload /\ v.plans = call.was.plans /\ Sound(v, proved', recorded.plans)
      BY <1>5, <1>6, <3>2, WithFailureKeeps DEF FailureState
    <3> HIDE DEF v
    <3>4. v.plans[p].state \notin {"absent", "VERIFIED"}
      BY <1>5, <3>3
    <3> QED BY <1>5, <3>1, <3>3, <3>4, PlanStateKeeps DEF PlanState
  <2> QED BY <2>1, <2>2
<1> HIDE DEF q, p
<1>8. /\ reliability' \in Payload /\ recorded' \in [failures : Nat, plans : Nat]
      /\ recorded.plans <= recorded'.plans /\ Sound(reliability', proved', recorded'.plans)
  BY <1>1, <1>3, <1>7
<1>9. passed # {} => passed' # {}
  BY <1>1
<1>10. Waits([at |-> "free"], raw, incident', proved', recorded'.plans)
  BY DEF Waits
<1>11. CASE incident' = incident
  BY <1>1, <1>3, <1>4, <1>8, <1>9, <1>10, <1>11, FinalIsKnown, StepKeeps
<1>12. CASE /\ call.fixing /\ Diagnosis!CanGo(incident, "VERIFYING")
            /\ incident' = [t EXCEPT !.evidence = call.evidence, !.plan = p]
  <2>1. t \in AnIncident /\ (t = incident \/ t = [incident EXCEPT !.status = "VERIFYING"])
    BY <1>3, ToStep DEF Statuses
  <2>2. t.cause = incident.cause /\ (t.status = incident.status \/ t.status = "VERIFYING")
    <3> HIDE DEF t
    <3> QED BY <1>3, <2>1 DEF AnIncident
  <2>3. incident.status = "FIXING"
    BY <1>3, <1>12, CauseFrom
  <2> HIDE DEF t
  <2>4. /\ incident' \in AnIncident /\ incident'.evidence = call.evidence /\ incident'.cause = t.cause
        /\ incident'.status = t.status
    BY <1>5, <1>12, <2>1 DEF AnIncident
  <2>5. call.fixing = TRUE
    BY <1>5, <1>12
  <2>6. ~raw => call.evidence = TRUE
    BY <1>2, <2>5 DEF PlanCall
  <2>7. incident.status \in Diagnosis!CauseKnown
    BY <2>3 DEF Diagnosis!CauseKnown
  <2>8. incident'.status \notin Diagnosis!Final
    BY <2>2, <2>3, <2>4 DEF Diagnosis!Final
  <2> QED BY <1>1, <1>4, <1>8, <1>9, <1>10, <2>2, <2>4, <2>6, <2>7, <2>8, StepKeeps
<1> QED BY <1>1, <1>11, <1>12

----------------------------------------------------------------------------
\* What is verified was grounded, and stays it while the suite runs.
LEMMA VerifyFixKeeps ==
    ASSUME DiagnosisInv, NEW c \in Process, Diagnosis!VerifyFix(c)
    PROVE  DiagnosisInv'
<1> DEFINE t == Diagnosis!To(incident, "VERIFYING")
<1>1. PICK learned, suite : pending' = [pending EXCEPT ![c] =
                               [at |-> "suite", of |-> "fix", learned |-> learned, suite |-> suite]]
  BY DEF Diagnosis!VerifyFix, Diagnosis!Await
<1>2. /\ incident.status \in {"VERIFYING", "LEARNED"} \/ Diagnosis!CanGo(incident, "VERIFYING")
      /\ incident' = t /\ UNCHANGED <<reliability, known, recorded, raw, passed, proved>>
  BY DEF Diagnosis!VerifyFix
<1>3. /\ incident \in AnIncident
      /\ ~raw /\ incident.status \in Diagnosis!CauseKnown => Grounded(incident)
  BY DiagnosisTyped
<1>4. incident.status \in {"VERIFYING", "LEARNED", "FIXING"}
  BY <1>2, <1>3, CauseFrom
<1>5. incident.status \in Diagnosis!CauseKnown
  BY <1>4 DEF Diagnosis!CauseKnown, Diagnosis!Final
<1>6. t \in AnIncident /\ (t = incident \/ t = [incident EXCEPT !.status = "VERIFYING"])
  BY <1>3, ToStep DEF Statuses
<1> HIDE DEF t
<1>7. /\ t.evidence = incident.evidence /\ t.cause = incident.cause
      /\ (t.status = incident.status \/ t.status = "VERIFYING")
  BY <1>3, <1>6 DEF AnIncident
<1>8. ~raw => Grounded(incident')
  BY <1>2, <1>3, <1>5, <1>7 DEF Grounded
<1>9. Waits([at |-> "suite", of |-> "fix", learned |-> learned, suite |-> suite], raw, incident', proved, recorded.plans)
  BY <1>8 DEF Waits
<1>10. incident'.status \in Diagnosis!Final => incident.status \in Diagnosis!Final
  BY <1>2, <1>7 DEF Diagnosis!Final
<1> QED BY <1>1, <1>2, <1>5, <1>6, <1>7, <1>9, <1>10, QuietKeeps

\* The answer finds a grounded incident, whatever has become of it.
LEMMA FixVerifiedKeeps ==
    ASSUME DiagnosisInv, NEW c \in Process, NEW failing, Diagnosis!FixVerified(c, failing)
    PROVE  DiagnosisInv'
<1> DEFINE r == Diagnosis!To(incident, "ROOT_CAUSE_FOUND")
           l == Diagnosis!To(incident, "LEARNED")
<1>1. /\ pending[c].at = "suite" /\ pending[c].of = "fix"
      /\ passed' = passed \cup (pending[c].suite \ failing)
      /\ \/ incident' = r \/ incident' = incident
         \/ Diagnosis!SuitePassed(pending[c].suite, failing) /\ incident' = l
      /\ pending' = [pending EXCEPT ![c] = [at |-> "free"]]
      /\ UNCHANGED <<reliability, known, recorded, raw, proved>>
  BY DEF Diagnosis!FixVerified, Diagnosis!SuiteRun, Diagnosis!Return, Diagnosis!Resume, Diagnosis!Free
<1>2. incident \in AnIncident
  BY DiagnosisTyped
<1>3. ~raw => Grounded(incident)
  BY <1>1 DEF DiagnosisInv, Waits
<1>4. Diagnosis!SuitePassed(pending[c].suite, failing) => passed' # {}
  BY <1>1 DEF Diagnosis!SuitePassed
<1>5. /\ r \in AnIncident /\ (r = incident \/ r = [incident EXCEPT !.status = "ROOT_CAUSE_FOUND"])
      /\ l \in AnIncident /\ (l = incident \/ l = [incident EXCEPT !.status = "LEARNED"])
  BY <1>2, ToStep DEF Statuses
<1> HIDE DEF r, l
<1>6. /\ r.evidence = incident.evidence /\ r.cause = incident.cause
      /\ (r.status = incident.status \/ r.status = "ROOT_CAUSE_FOUND")
      /\ l.evidence = incident.evidence /\ l.cause = incident.cause
  BY <1>2, <1>5 DEF AnIncident
<1>7. incident' \in AnIncident /\ incident'.evidence = incident.evidence /\ incident'.cause = incident.cause
  BY <1>1, <1>2, <1>5, <1>6
<1>8. ~raw => Grounded(incident')
  BY <1>3, <1>7 DEF Grounded
<1>9. incident'.status \in Diagnosis!Final => incident.status \in Diagnosis!Final \/ passed' # {}
  BY <1>1, <1>4, <1>6 DEF Diagnosis!Final
<1>10. Waits([at |-> "free"], raw, incident', proved, recorded.plans)
  BY DEF Waits
<1>11. passed # {} => passed' # {}
  BY <1>1
<1> QED BY <1>1, <1>7, <1>8, <1>9, <1>10, <1>11, QuietKeeps

LEMMA LearnKeeps ==
    ASSUME DiagnosisInv, NEW c \in Process, NEW verification \in BOOLEAN, Diagnosis!Learn(c, verification)
    PROVE  DiagnosisInv'
<1> DEFINE l == Diagnosis!To(incident, "REGRESSION_LOCKED")
<1>1. /\ incident.status = "LEARNED" /\ known' = Diagnosis!StateOf(incident, verification)
      /\ incident' = l \/ incident' = incident
      /\ UNCHANGED <<reliability, recorded, raw, passed, proved, pending>>
  BY DEF Diagnosis!Learn, Diagnosis!Now
<1>2. incident \in AnIncident
  BY DiagnosisTyped
<1>3. incident.status \in Diagnosis!Final /\ incident.status \in Diagnosis!CauseKnown
  BY <1>1 DEF Diagnosis!Final, Diagnosis!CauseKnown
<1>4. ~raw => passed # {}
  BY <1>3 DEF DiagnosisInv
<1>5. l \in AnIncident /\ (l = incident \/ l = [incident EXCEPT !.status = "REGRESSION_LOCKED"])
  BY <1>2, ToStep DEF Statuses
<1> HIDE DEF l
<1>6. incident' \in AnIncident /\ incident'.evidence = incident.evidence /\ incident'.cause = incident.cause
  BY <1>1, <1>2, <1>5 DEF AnIncident
<1>7. known' = "ESTABLISHED" => incident.evidence
  BY <1>1 DEF Diagnosis!StateOf
<1>8. incident.evidence \in BOOLEAN
  BY <1>2 DEF AnIncident
<1>9. known' = "ESTABLISHED" => incident'.evidence = TRUE
  BY <1>6, <1>7, <1>8
<1> QED BY <1>1, <1>3, <1>4, <1>6, <1>9, QuietKeeps

\* The raw route, with whatever the caller's patch sets: from here on nothing
\* is said of what is founded.
LEMMA TransitionKeeps ==
    ASSUME DiagnosisInv, NEW c \in Process, NEW s \in Statuses, NEW patch \in Patch, Diagnosis!Transition(c, s, patch)
    PROVE  DiagnosisInv'
<1> DEFINE t == Diagnosis!To(incident, s)
<1>1. incident' = Diagnosis!Patched(t, patch) /\ raw' = TRUE
      /\ UNCHANGED <<reliability, known, recorded, passed, proved, pending>>
  BY DEF Diagnosis!Transition, Diagnosis!Now
<1>2. incident \in AnIncident
  BY DiagnosisTyped
<1>3. t \in AnIncident
  BY <1>2, ToStep
<1> HIDE DEF t
<1>4. incident' \in AnIncident
  BY <1>1, <1>3, PatchedStep
<1>5. \A call : Waits(call, raw, incident, proved, recorded.plans) => Waits(call, raw', incident', proved', recorded'.plans)
  BY <1>1 DEF Waits, PlanCall
<1>6. DOMAIN pending' = Process /\ \A d \in Process : Waits(pending'[d], raw', incident', proved', recorded'.plans)
  BY <1>1, <1>5 DEF DiagnosisInv
<1>7. /\ reliability' \in Payload /\ recorded' \in [failures : Nat, plans : Nat]
      /\ Sound(reliability', proved', recorded'.plans)
  BY <1>1, DiagnosisTyped
<1> QED BY <1>1, <1>4, <1>6, <1>7 DEF DiagnosisInv

LEMMA DiagnosisStays == DiagnosisInv /\ UNCHANGED diagnosisVars => DiagnosisInv'
<1> SUFFICES ASSUME DiagnosisInv, UNCHANGED diagnosisVars PROVE DiagnosisInv'
  OBVIOUS
<1>1. UNCHANGED <<incident, reliability, known, recorded, raw, passed, proved, pending>>
  BY DEF diagnosisVars
<1>2. incident' \in AnIncident
  BY <1>1, DiagnosisTyped
<1> QED BY <1>1, <1>2, QuietKeeps

LEMMA DiagnosisKeeps == DiagnosisInv /\ [Diagnosis!Next]_diagnosisVars => DiagnosisInv'
<1> SUFFICES ASSUME DiagnosisInv, [Diagnosis!Next]_diagnosisVars PROVE DiagnosisInv'
  OBVIOUS
<1>1. CASE UNCHANGED diagnosisVars
  BY <1>1, DiagnosisStays
<1>2. Diagnosis!Status \subseteq Statuses
  BY DEF Diagnosis!Status, Diagnosis!Successors, Statuses
<1>3. Diagnosis!Failure = Fails /\ Diagnosis!Plan = Plans
  BY DEF Fails, Plans
<1>4. ASSUME NEW c \in Process,
             \/ Diagnosis!Investigate(c) \/ Diagnosis!SandboxCreated(c) \/ Diagnosis!SandboxStarted(c)
             \/ Diagnosis!Refused(c) \/ Diagnosis!FormHypothesis(c) \/ Diagnosis!StartExperiment(c)
             \/ Diagnosis!RecordEvidence(c) \/ Diagnosis!FromFailure(c) \/ Diagnosis!PrepareRecovery(c)
             \/ Diagnosis!ExecuteRecovery(c) \/ Diagnosis!Restored(c) \/ Diagnosis!VerifyFix(c) \/ Diagnosis!Escalate(c)
      PROVE  DiagnosisInv'
  BY <1>4, InvestigateKeeps, WaitingKeeps, SandboxStartedKeeps, ExperimentKeeps, FromFailureKeeps, ExecuteKeeps,
     RestoredKeeps, VerifyFixKeeps
<1>5. ASSUME NEW c \in Process, NEW b \in BOOLEAN,
             Diagnosis!SmokeDone(c, b) \/ Diagnosis!Learn(c, b) \/ Diagnosis!EstablishRootCause(c, b)
      PROVE  DiagnosisInv'
  BY <1>5, WaitingKeeps, LearnKeeps, EstablishKeeps
<1>6. ASSUME NEW c \in Process, NEW f \in Fails, NEW t \in Test \cup {NoTest},
             Diagnosis!RecordFailure(c, f, t) \/ Diagnosis!Resolve(c, f, t)
      PROVE  DiagnosisInv'
  <2>1. f # 0 /\ f \in {0} \cup Fails
    BY DEF Fails, Diagnosis!Failure
  <2> QED BY <1>6, <2>1, RouteKeeps, ResolveKeeps
<1>7. ASSUME NEW c \in Process, NEW p \in Plans, NEW b \in BOOLEAN,
             Diagnosis!RecoveryPrepared(c, p, b) \/ Diagnosis!VerifyRecovery(c, p, b)
      PROVE  DiagnosisInv'
  BY <1>7, PreparedKeeps, WaitingKeeps
<1>8. ASSUME NEW c \in Process, NEW p \in Plans, NEW f \in {0} \cup Fails, NEW box \in BOOLEAN, NEW checkpoint \in BOOLEAN,
             Diagnosis!Prepare(c, p, f, box, checkpoint)
      PROVE  DiagnosisInv'
  BY <1>8, RouteKeeps
<1>9. ASSUME NEW c \in Process, NEW failing \in SUBSET Test, Diagnosis!PlanVerified(c, failing) \/ Diagnosis!FixVerified(c, failing)
      PROVE  DiagnosisInv'
  BY <1>9, PlanVerifiedKeeps, FixVerifiedKeeps
<1>10. ASSUME NEW c \in Process, NEW t \in Test, Diagnosis!CreateRegressionTest(c, t) PROVE DiagnosisInv'
  BY <1>10, RegressionKeeps
<1>11. ASSUME NEW c \in Process, NEW s \in Diagnosis!Status, NEW patch \in Patch, Diagnosis!Transition(c, s, patch)
       PROVE  DiagnosisInv'
  BY <1>2, <1>11, TransitionKeeps
<1>12. CASE Diagnosis!Next
  <2>1. PICK c \in Process :
           \/ Diagnosis!Investigate(c) \/ Diagnosis!SandboxCreated(c) \/ Diagnosis!SandboxStarted(c)
           \/ Diagnosis!Refused(c) \/ Diagnosis!FormHypothesis(c) \/ Diagnosis!StartExperiment(c)
           \/ Diagnosis!RecordEvidence(c) \/ Diagnosis!FromFailure(c) \/ Diagnosis!PrepareRecovery(c)
           \/ Diagnosis!ExecuteRecovery(c) \/ Diagnosis!Restored(c) \/ Diagnosis!VerifyFix(c) \/ Diagnosis!Escalate(c)
           \/ \E b \in BOOLEAN : Diagnosis!SmokeDone(c, b) \/ Diagnosis!Learn(c, b)
           \/ \E claims \in BOOLEAN : Diagnosis!EstablishRootCause(c, claims)
           \/ \E f \in Fails, t \in Test \cup {NoTest} : Diagnosis!RecordFailure(c, f, t) \/ Diagnosis!Resolve(c, f, t)
           \/ \E p \in Plans, b \in BOOLEAN : Diagnosis!RecoveryPrepared(c, p, b) \/ Diagnosis!VerifyRecovery(c, p, b)
           \/ \E p \in Plans, f \in {0} \cup Fails, box \in BOOLEAN, checkpoint \in BOOLEAN :
                 Diagnosis!Prepare(c, p, f, box, checkpoint)
           \/ \E failing \in SUBSET Test : Diagnosis!PlanVerified(c, failing) \/ Diagnosis!FixVerified(c, failing)
           \/ \E t \in Test : Diagnosis!CreateRegressionTest(c, t)
           \/ \E s \in Diagnosis!Status, patch \in Patch : Diagnosis!Transition(c, s, patch)
    BY <1>3, <1>12, Zenon DEF Diagnosis!Next
  <2> QED BY <1>4, <1>5, <1>6, <1>7, <1>8, <1>9, <1>10, <1>11, <2>1, Zenon
<1> QED BY <1>1, <1>12

LEMMA DiagnosisStarts == Diagnosis!Init => DiagnosisInv
<1> SUFFICES ASSUME Diagnosis!Init PROVE DiagnosisInv
  OBVIOUS
<1>1. incident \in AnIncident /\ incident.status = "DETECTED"
  <2>1. PICK patch \in Patch : incident = [Diagnosis!Patched(Diagnosis!Blank, patch) EXCEPT !.status = "DETECTED"]
    BY DEF Diagnosis!Init
  <2>2. Diagnosis!Blank \in AnIncident
    BY DEF Diagnosis!Blank, AnIncident, Statuses
  <2>3. Diagnosis!Patched(Diagnosis!Blank, patch) \in AnIncident
    BY <2>2, PatchedStep
  <2> QED BY <2>1, <2>3 DEF AnIncident, Statuses
<1>2. reliability \in Payload /\ Sound(reliability, proved, recorded.plans)
  <2>1. Diagnosis!NoFailure \in AFailure /\ Diagnosis!NoFailure.state = "absent"
    BY DEF Diagnosis!NoFailure, AFailure, FailureState
  <2>2. Diagnosis!NoPlan \in APlan /\ Diagnosis!NoPlan.state = "absent"
    BY DEF Diagnosis!NoPlan, APlan, PlanState
  <2>3. reliability = [failures |-> [f \in Fails |-> Diagnosis!NoFailure], plans |-> [p \in Plans |-> Diagnosis!NoPlan]]
    BY DEF Diagnosis!Init, Fails, Plans
  <2>4. reliability \in Payload
    BY <2>1, <2>2, <2>3 DEF Payload
  <2>5. /\ \A f \in Fails : reliability.failures[f].state = "absent"
        /\ \A p \in Plans : reliability.plans[p].state = "absent"
    BY <2>1, <2>2, <2>3
  <2> QED BY <2>4, <2>5 DEF Sound
<1>3. recorded \in [failures : Nat, plans : Nat] /\ raw \in BOOLEAN /\ known = "nothing"
  BY DEF Diagnosis!Init
<1>4. DOMAIN pending = Process /\ \A c \in Process : Waits(pending[c], raw, incident, proved, recorded.plans)
  <2>1. DOMAIN pending = Process /\ \A c \in Process : pending[c] = [at |-> "free"]
    BY DEF Diagnosis!Init, Diagnosis!Free
  <2>2. \A c \in Process : pending[c].at = "free"
    BY <2>1
  <2> QED BY <2>1, <2>2 DEF Waits
<1>5. incident.status \notin Diagnosis!CauseKnown \cup Diagnosis!Final
  BY <1>1 DEF Diagnosis!CauseKnown, Diagnosis!Final
<1> QED BY <1>1, <1>2, <1>3, <1>4, <1>5 DEF DiagnosisInv

LEMMA DiagnosisShows == DiagnosisInv => LearnedIsFounded /\ RecoveriesProved
<1> SUFFICES ASSUME DiagnosisInv PROVE LearnedIsFounded /\ RecoveriesProved
  OBVIOUS
<1>1. LearnedIsFounded
  BY DEF DiagnosisInv, Grounded, LearnedIsFounded, Diagnosis!LearnedIsFounded, Diagnosis!RootCauseHasEvidence,
         Diagnosis!LearnedAfterPass
<1>2. RecoveriesProved
  BY DEF DiagnosisInv, Sound, RecoveriesProved, Diagnosis!RecoveriesProved, Fails, Plans
<1> QED BY <1>1, <1>2

----------------------------------------------------------------------------
(* The parts in one system: each moves by its own steps only; the calls of    *)
(* four of them are counted together.                                         *)

HistoryInv == GuardingInv /\ InstallInv /\ TravelInv /\ DiagnosisInv

LEMMA HistoryStarts == AnyInit => HistoryInv
BY GuardingStarts, InstallStarts, TravelStarts, DiagnosisStarts DEF AnyInit, HistoryInv

LEMMA HistoryStays ==
    /\ GuardingInv /\ UNCHANGED guardingVars => GuardingInv'
    /\ InstallInv /\ UNCHANGED installVars => InstallInv'
    /\ TravelInv /\ UNCHANGED travelVars => TravelInv'
    /\ DiagnosisInv /\ UNCHANGED diagnosisVars => DiagnosisInv'
<1>1. GuardingInv /\ UNCHANGED guardingVars => GuardingInv'
  BY GuardingKeeps DEF guardingVars, Guarding!vars
<1>2. InstallInv /\ UNCHANGED installVars => InstallInv'
  BY DEF InstallInv, installVars
<1>3. TravelInv /\ UNCHANGED travelVars => TravelInv'
  BY TravelKeeps
<1> QED BY <1>1, <1>2, <1>3, DiagnosisStays

LEMMA HistoryKeeps == HistoryInv /\ [AnyNext]_anyVars => HistoryInv'
<1> SUFFICES ASSUME HistoryInv, [AnyNext]_anyVars PROVE HistoryInv'
  OBVIOUS
<1>1. CASE UNCHANGED anyVars
  BY <1>1, HistoryStays DEF anyVars, HistoryInv
<1>2. CASE UNCHANGED <<diagnosisVars, travelVars, installVars, guardingVars>>
  BY <1>2, HistoryStays DEF HistoryInv
<1>3. CASE Diagnosis!Next /\ UNCHANGED <<travelVars, installVars, guardingVars>>
  BY <1>3, HistoryStays, DiagnosisKeeps DEF HistoryInv
<1>4. CASE Travel!Next /\ UNCHANGED <<diagnosisVars, installVars, guardingVars>>
  BY <1>4, HistoryStays, TravelKeeps DEF HistoryInv
<1>5. CASE Install!Next /\ UNCHANGED <<diagnosisVars, travelVars, guardingVars>>
  BY <1>5, HistoryStays, InstallKeeps DEF HistoryInv
<1>6. CASE Guarding!Next /\ UNCHANGED <<diagnosisVars, travelVars, installVars>>
  BY <1>6, HistoryStays, GuardingKeeps DEF HistoryInv
<1> QED BY <1>1, <1>2, <1>3, <1>4, <1>5, <1>6 DEF AnyNext

LEMMA HistoryAlways == AnySpec => []HistoryInv
BY HistoryStarts, HistoryKeeps, PTL DEF AnySpec

----------------------------------------------------------------------------
(* What follows.                                                              *)

\* What a result says of the isolation of its command held while the command
\* ran (ns-isolation.ts:391-398, 487-491, runtime-local.ts:310-315), for any
\* callers, setups and hosts, whenever the host changes between the probe, the
\* start and the report.
THEOREM ClaimsAlwaysHold == AnySpec => []ClaimsHold
<1>1. HistoryInv => ClaimsHold
  BY DEF HistoryInv, GuardingInv, ClaimsHold
<1> QED BY <1>1, HistoryAlways, PTL

\* A sandbox is asked for once for a module (apps.ts:57-70), for any modules
\* and processes, whichever of them restarts, as long as none wrote over
\* another's change.
THEOREM InstallsAskOnce == AnySpec => []InstallsOnce
<1>1. HistoryInv => InstallsOnce
  BY DEF HistoryInv, InstallInv, InstallsOnce, Install!AskedOnce
<1> QED BY <1>1, HistoryAlways, PTL

\* A record that a site merged is there, or a conflict about its entity is
\* (offline.ts:185-192), for any number of sites and runs, in whatever order
\* packages travel and however often.
THEOREM NothingIsForgotten == AnySpec => []NothingForgotten
<1>1. HistoryInv => NothingForgotten
  BY DEF HistoryInv, TravelInv
<1> QED BY <1>1, HistoryAlways, PTL

\* A root cause has evidence and a lesson has a test that passed
\* (error-intelligence.ts:296-306,440-470), for any callers and tests, while
\* other calls write between what a call reads and what it writes back.
THEOREM LearnedIsAlwaysFounded == AnySpec => []LearnedIsFounded
<1>1. HistoryInv => LearnedIsFounded
  BY DiagnosisShows DEF HistoryInv
<1> QED BY <1>1, HistoryAlways, PTL

\* A plan is verified only after its smoke test and a suite with a test passed,
\* and a failure only while a plan that names it is (reliability.ts:170-237), for
\* any callers, failures and plans, whatever callers set of an incident, and
\* whatever payload read before an await is written over newer records.
THEOREM RecoveriesAreProved == AnySpec => []RecoveriesProved
<1>1. HistoryInv => RecoveriesProved
  BY DiagnosisShows DEF HistoryInv
<1> QED BY <1>1, HistoryAlways, PTL
=============================================================================
