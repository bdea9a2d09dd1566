------------------------------ MODULE Records ------------------------------
(***************************************************************************)
(* What the system writes down about itself: the event log                 *)
(* (events/log.ts), the audit chain (audit.ts), the provenance graph       *)
(* (provenance.ts), evidence (artifacts.ts) and the Creator's inbox        *)
(* (inbox.ts), written together by observe (observability.ts), the         *)
(* execution broker and the workshop.                                      *)
(*                                                                         *)
(* Each of these callers is synchronous, so inside one process nothing     *)
(* comes between its accesses to the stores; another process, or a kill,   *)
(* may.  A caller is therefore the sequence of the accesses it still has   *)
(* to make (todo).  An access by update is one step, a read followed by    *)
(* an unconditional write is two.                                          *)
(*                                                                         *)
(* Events, audit records, artifacts and inbox items have numbers for ids;  *)
(* a hash is the id of the record it was computed over.                    *)
(***************************************************************************)
EXTENDS Naturals, Sequences, FiniteSets, SequencesExt, TLC

CONSTANTS
    Process,
    Start,          \* what the processes are asked to write: calls of Programs
    MaxEvents,      \* bound on the calls, weighed by the events they append
    MaxCrashes,
    KeepEvents,     \* maxRetained (5000)
    KeepRecords,    \* BOB_AUDIT_MAX_RECORDS; 0 when it is not set
    KeepNodes, KeepEdges, KeepArtifacts, KeepItems   \* 5000, 10000, 2000, 500

ASSUME RecordsAssumption ==
    /\ {MaxEvents, MaxCrashes, KeepRecords} \subseteq Nat
    /\ {KeepEvents, KeepNodes, KeepEdges, KeepArtifacts, KeepItems} \subseteq Nat \ {0}
    /\ Start \subseteq {"observe", "link", "execute", "deny", "workshop", "notify", "resolve", "verify"}

VARIABLES
    events, eventCut,    \* the log, and trimmedThrough
    audit, auditCut,     \* the chain, and trimmedThrough
    nodes, edges,        \* provenance
    artifacts, inbox,
    prog,                \* of each process: the accesses ahead of it
    made,                \* ids given out: events, records, artifacts, items
    calls, crashes,
    audited,             \* history: events an audit record was written for
    broken,              \* history: events whose writer was killed or threw
    stale                \* history: logs whose checkpoint a late write replaced: "events", "audit"

logs == <<events, eventCut, audit, auditCut>>
graph == <<nodes, edges>>
things == <<artifacts, inbox>>
counts == <<calls, crashes>>
vars == <<logs, graph, things, prog, made, counts, audited, broken, stale>>

NoCut == [seq |-> 0, id |-> 0]
Idle == [todo |-> <<>>, rescue |-> <<>>, guarded |-> 0, event |-> 0, first |-> 0,
         artifact |-> 0, item |-> 0, seen |-> <<>>]

Keep(s, n) == SubSeq(s, 1 + (IF Len(s) > n THEN Len(s) - n ELSE 0), Len(s))

\* A log that an earlier version trimmed has no checkpoint.
Legacy == <<[id |-> 1, seq |-> 3, parent |-> 0, cause |-> 0, by |-> "observe"]>>
LegacyAudit == <<[id |-> 1, seq |-> 3, event |-> 0, prev |-> 0]>>

Init ==
    /\ \/ events = <<>> /\ audit = <<>> /\ made = [event |-> 0, record |-> 0, artifact |-> 0, item |-> 0]
       \/ /\ events = Legacy /\ audit = LegacyAudit
          /\ made = [event |-> 1, record |-> 1, artifact |-> 0, item |-> 0]
    /\ eventCut = NoCut /\ auditCut = NoCut
    /\ nodes = <<>> /\ edges = <<>> /\ artifacts = <<>> /\ inbox = <<>>
    /\ prog = [p \in Process |-> Idle]
    /\ calls = 0 /\ crashes = 0
    /\ audited = 1..made.event
    /\ broken = {} /\ stale = {}

----------------------------------------------------------------------------
(* What a caller does, access by access.  A node is a kind and a number; 0 *)
(* stands for the one this caller has just made.                           *)

None == <<"none", 0>>
TooLong == <<"long", 0>>        \* an id assertRealIdentifier refuses
TheEvent == <<"event", 0>>
TheArtifact == <<"artifact", 0>>
TheItem == <<"item", 0>>
Run == <<"run", 1>>
Sandbox == <<"sandbox", 1>>
Item == <<"workshop", 1>>
Output == <<"output", 1>>

Event(by, cause, parent) == <<[do |-> "append", by |-> by, cause |-> cause, parent |-> parent]>>
Node(n) == <<[do |-> "node", id |-> n]>>
Edge(a, b) == <<[do |-> "edge", from |-> a, to |-> b]>>
Audit(named) == <<[do |-> "audit", named |-> named]>>
Do(what) == <<[do |-> what]>>

ObservedUnaudited(resource, run, link, cause) ==    \* mutant: no audit record without a resource
    Event("observe", cause, FALSE) \o Node(TheEvent)
    \o (IF resource = None THEN <<>> ELSE Node(resource) \o Edge(TheEvent, resource))
    \o (IF run = None THEN <<>> ELSE Node(run) \o Edge(TheEvent, run))
    \o (IF link = <<>> THEN <<>> ELSE Edge(link[1], link[2]))
    \o (IF resource = None THEN <<>> ELSE Audit(TRUE))

\* observe: the audit record comes last, after whatever may throw.
Observed(resource, run, link, cause) ==
    Event("observe", cause, FALSE) \o Node(TheEvent)
    \o (IF resource = None THEN <<>> ELSE Node(resource) \o Edge(TheEvent, resource))
    \o (IF run = None THEN <<>> ELSE Node(run) \o Edge(TheEvent, run))
    \o (IF link = <<>> THEN <<>> ELSE Edge(link[1], link[2]))
    \o Audit(TRUE)

Evidence(anchor) == Do("artifact") \o Node(TheArtifact) \o Edge(anchor, TheArtifact) \o Audit(FALSE)

\* executeWorkshopStep: its events carry no audit record of their own.
WorkshopEvent(parent) == Event("workshop", 0, parent) \o Node(TheEvent) \o Edge(TheEvent, Run)

Program(todo, guarded, rescue) == [Idle EXCEPT !.todo = todo, !.guarded = guarded, !.rescue = rescue]
Plain(todo) == Program(todo, 0, <<>>)

\* The calls of the processes.  The id of a run is the client's in an inbox item.
Calls(kind) ==
    CASE kind = "observe" -> {Plain(Observed(None, None, <<>>, c)) : c \in 0..made.event}
      [] kind = "link" -> {Plain(Observed(Sandbox, None, <<Sandbox, Run>>, 0))}
      [] kind = "execute" -> {Plain(Observed(Sandbox, r, <<>>, 0) \o Audit(FALSE)
                                    \o Evidence(IF r = None THEN Sandbox ELSE r)
                                    \o Observed(TheArtifact, r, <<>>, 0)) : r \in {None, Run}}
      [] kind = "deny" -> {Program(Observed(s, None, <<>>, 0) \o Audit(FALSE)
                                   \o Evidence(IF s = None THEN TheArtifact ELSE s),
                                   4, Observed(None, None, <<>>, 0)) : s \in {None, Sandbox}}
      [] kind = "workshop" -> {Program(Node(Item) \o Node(Run) \o Edge(Run, Item) \o WorkshopEvent(FALSE) \o Audit(FALSE)
                                       \o Node(Output) \o Edge(Run, Output) \o Edge(Run, Item) \o WorkshopEvent(TRUE),
                                       6, WorkshopEvent(TRUE) \o Audit(FALSE))}
      [] kind = "notify" -> {Plain(Do("notify") \o Observed(TheItem, r, <<>>, 0)) : r \in {None, TooLong}}
      [] kind = "resolve" -> {Plain(<<[do |-> "resolve", item |-> i]>> \o Observed(<<"item", i>>, None, <<>>, 0)) :
                                 i \in 1..made.item}
      [] kind = "verify" -> {Plain(Do("repairEvents")), Plain(Do("repairAudit"))}

Weight(kind) == IF kind \in {"execute", "deny", "workshop"} THEN 2 ELSE 1

Call(p) ==
    /\ prog[p] = Idle
    /\ \E kind \in Start : /\ calls' = calls + Weight(kind) /\ calls' <= MaxEvents
                           /\ \E c \in Calls(kind) : prog' = [prog EXCEPT ![p] = c]
    /\ UNCHANGED <<logs, graph, things, made, crashes, audited, broken, stale>>

----------------------------------------------------------------------------
(* The accesses.                                                           *)

Next1(p) == Head(prog[p].todo)
At(p, what) == prog[p].todo # <<>> /\ Next1(p).do = what
Rest(p) == Tail(prog[p].todo)
Done(q) == IF q.todo = <<>> THEN Idle ELSE q
Advance(p, q) == prog' = [prog EXCEPT ![p] = Done([q EXCEPT !.todo = Rest(p), !.seen = <<>>])]
Step(p) == Advance(p, prog[p])
Name(p, n) == CASE n = TheEvent -> <<"event", prog[p].event>>
                [] n = TheArtifact -> <<"artifact", prog[p].artifact>>
                [] n = TheItem -> <<"item", prog[p].item>>
                [] OTHER -> n

\* An exception: the caller ends, or goes on in its catch.
Throw(p) ==
    LET q == prog[p]
        rescued == q.rescue # <<>> /\ Len(q.todo) <= q.guarded IN
    /\ prog' = [prog EXCEPT ![p] = IF rescued THEN [q EXCEPT !.todo = q.rescue, !.rescue = <<>>] ELSE Idle]
    /\ broken' = IF rescued THEN broken ELSE broken \cup ({q.event} \ {0})

\* appendDomainEvent, up to its write.
AppendRead(p) ==
    /\ At(p, "append") /\ prog[p].seen = <<>>
    /\ prog' = [prog EXCEPT ![p].seen = <<events, eventCut>>]
    /\ UNCHANGED <<logs, graph, things, made, counts, audited, broken, stale>>

\* The checkpoint is the last event removed.
Trimmed(log, cut) ==
    LET n == Len(log) - KeepEvents IN
    IF n <= 0 THEN [events |-> log, cut |-> cut]
    ELSE [events |-> Keep(log, KeepEvents), cut |-> [seq |-> log[n].seq, id |-> log[n].id]]

\* Its write is unconditional: what another process appended meanwhile is gone.
AppendWrite(p) ==
    /\ At(p, "append") /\ prog[p].seen # <<>>
    /\ LET log == prog[p].seen[1]
           last == IF log = <<>> THEN [seq |-> 0, id |-> 0] ELSE Last(log)
           id == made.event + 1
           new == [id |-> id, seq |-> last.seq + 1, by |-> Next1(p).by, cause |-> Next1(p).cause,
                   parent |-> IF Next1(p).parent /\ prog[p].first # 0 THEN prog[p].first ELSE last.id]
           kept == Trimmed(log \o <<new>>, prog[p].seen[2]) IN
       /\ events' = kept.events /\ eventCut' = kept.cut
       /\ made' = [made EXCEPT !.event = id]
       /\ Advance(p, [prog[p] EXCEPT !.event = id, !.first = IF @ = 0 THEN id ELSE @])
    /\ UNCHANGED <<audit, auditCut, graph, things, counts, audited, broken, stale>>

\* addProvenanceNode.  A node that is known keeps its old place.
AddNode(p) ==
    /\ At(p, "node")
    /\ LET n == Name(p, Next1(p).id) IN
       \/ n = TooLong /\ Throw(p) /\ UNCHANGED nodes
       \/ /\ n # TooLong
          /\ nodes' = IF n \in ToSet(nodes) THEN nodes ELSE Keep(nodes \o <<n>>, KeepNodes)
          /\ Step(p) /\ UNCHANGED broken
    /\ UNCHANGED <<logs, edges, things, made, counts, audited, stale>>

\* addProvenanceEdge.
AddEdge(p) ==
    /\ At(p, "edge")
    /\ LET e == <<Name(p, Next1(p).from), Name(p, Next1(p).to)>> IN
       \/ /\ e[1] # e[2] /\ {e[1], e[2]} \subseteq ToSet(nodes)
          /\ edges' = IF e \in ToSet(edges) THEN edges ELSE Keep(edges \o <<e>>, KeepEdges)
          /\ Step(p) /\ UNCHANGED broken
       \/ /\ e[1] = e[2] \/ ~({e[1], e[2]} \subseteq ToSet(nodes))
          /\ Throw(p) /\ UNCHANGED edges
    /\ UNCHANGED <<logs, nodes, things, made, counts, audited, stale>>

CutOnce(chain) ==    \* mutant: a checkpoint, once set, stays
    LET n == Len(chain) - KeepRecords IN
    IF KeepRecords = 0 \/ n <= 0 \/ auditCut # NoCut THEN auditCut ELSE [seq |-> chain[n].seq, id |-> chain[n].id]

CutOf(chain) ==
    LET n == Len(chain) - KeepRecords IN
    IF KeepRecords = 0 \/ n <= 0 THEN auditCut ELSE [seq |-> chain[n].seq, id |-> chain[n].id]

\* recordAudit reads and appends in one update, and keeps all records unless
\* a bound is configured.
RecordAudit(p) ==
    /\ At(p, "audit")
    /\ LET last == IF audit = <<>> THEN NoCut ELSE Last(audit)
           id == made.record + 1
           event == IF Next1(p).named THEN prog[p].event ELSE 0
           chain == audit \o <<[id |-> id, seq |-> last.seq + 1, event |-> event, prev |-> last.id]>> IN
       /\ audit' = IF KeepRecords = 0 THEN chain ELSE Keep(chain, KeepRecords)
       /\ auditCut' = CutOf(chain)
       /\ made' = [made EXCEPT !.record = id]
       /\ audited' = audited \cup ({event} \ {0})
    /\ Step(p)
    /\ UNCHANGED <<events, eventCut, graph, things, counts, broken, stale>>

\* recordArtifact: the newest is first.
RecordArtifact(p) ==
    /\ At(p, "artifact")
    /\ LET id == made.artifact + 1 IN
       /\ artifacts' = SubSeq(<<id>> \o artifacts, 1, IF Len(artifacts) < KeepArtifacts THEN Len(artifacts) + 1 ELSE KeepArtifacts)
       /\ made' = [made EXCEPT !.artifact = id]
       /\ Advance(p, [prog[p] EXCEPT !.artifact = id])
    /\ UNCHANGED <<logs, graph, inbox, counts, audited, broken, stale>>

\* notifyInbox's update.
Notify(p) ==
    /\ At(p, "notify")
    /\ LET id == made.item + 1 IN
       /\ inbox' = Keep(inbox \o <<[id |-> id, by |-> {}]>>, KeepItems)
       /\ made' = [made EXCEPT !.item = id]
       /\ Advance(p, [prog[p] EXCEPT !.item = id])
    /\ UNCHANGED <<logs, graph, artifacts, counts, audited, broken, stale>>

\* resolveInbox, up to its write.
ResolveRead(p) ==
    /\ At(p, "resolve") /\ prog[p].seen = <<>>
    /\ prog' = [prog EXCEPT ![p] =
           IF \E item \in ToSet(inbox) : item.id = Next1(p).item /\ item.by = {} THEN [@ EXCEPT !.seen = <<inbox>>]
           ELSE Idle]
    /\ UNCHANGED <<logs, graph, things, made, counts, audited, broken, stale>>

\* Its write is unconditional too.
ResolveWrite(p) ==
    /\ At(p, "resolve") /\ prog[p].seen # <<>>
    /\ LET read == prog[p].seen[1] IN
       inbox' = [i \in DOMAIN read |-> IF read[i].id = Next1(p).item THEN [read[i] EXCEPT !.by = {p}] ELSE read[i]]
    /\ Step(p)
    /\ UNCHANGED <<logs, graph, artifacts, made, counts, audited, broken, stale>>

----------------------------------------------------------------------------
(* Verification, which first gives an old log its checkpoint.              *)

NeedsCut(log, cut) == log # <<>> /\ Head(log).seq > 1 /\ cut = NoCut

\* ensureEventTrimCheckpoint and ensureRetentionCheckpoint, up to their update.
RepairRead(p) ==
    /\ \/ At(p, "repairEvents") /\ prog[p].seen = <<>>
          /\ prog' = [prog EXCEPT ![p] = IF NeedsCut(events, eventCut)
                THEN [@ EXCEPT !.seen = <<[seq |-> Head(events).seq - 1, id |-> Head(events).parent]>>] ELSE Idle]
       \/ At(p, "repairAudit") /\ prog[p].seen = <<>>
          /\ prog' = [prog EXCEPT ![p] = IF NeedsCut(audit, auditCut)
                THEN [@ EXCEPT !.seen = <<[seq |-> Head(audit).seq - 1, id |-> Head(audit).prev]>>] ELSE Idle]
    /\ UNCHANGED <<logs, graph, things, made, counts, audited, broken, stale>>

\* The update does not ask again whether there is a checkpoint by now.
RepairWrite(p) ==
    /\ \/ /\ At(p, "repairEvents") /\ prog[p].seen # <<>>
          /\ eventCut' = prog[p].seen[1] /\ UNCHANGED auditCut
          /\ stale' = IF eventCut = NoCut THEN stale ELSE stale \cup {"events"}
       \/ /\ At(p, "repairAudit") /\ prog[p].seen # <<>>
          /\ auditCut' = prog[p].seen[1] /\ UNCHANGED eventCut
          /\ stale' = IF auditCut = NoCut THEN stale ELSE stale \cup {"audit"}
    /\ Step(p)
    /\ UNCHANGED <<events, audit, graph, things, made, counts, audited, broken>>

EventIds == {e.id : e \in ToSet(events)}
Following(log, cut) == \A i \in DOMAIN log : log[i].seq = i + (IF NeedsCut(log, cut) THEN Head(log).seq - 1 ELSE cut.seq)

\* verifyEventChain, apart from the times.
ParentsKnown == \A i \in DOMAIN events : LET e == events[i] IN
    \/ e.parent = 0
    \/ \E f \in ToSet(events) : f.id = e.parent /\ f.seq < e.seq
    \/ i = 1 /\ (NeedsCut(events, eventCut) \/ e.parent = eventCut.id)
CausesKnown == \A e \in ToSet(events) : e.cause = 0 \/ \E f \in ToSet(events) : f.id = e.cause /\ f.seq < e.seq
EventChainValid == Following(events, eventCut) /\ ParentsKnown /\ CausesKnown

\* verifyAuditChain.
AuditChainValid ==
    /\ Following(audit, auditCut)
    /\ \A i \in DOMAIN audit : audit[i].prev = IF i > 1 THEN audit[i - 1].id
                                              ELSE IF NeedsCut(audit, auditCut) THEN audit[1].prev ELSE auditCut.id

----------------------------------------------------------------------------
Kill(p) ==
    /\ prog[p] # Idle /\ crashes < MaxCrashes
    /\ prog' = [prog EXCEPT ![p] = Idle]
    /\ crashes' = crashes + 1
    /\ broken' = broken \cup ({prog[p].event} \ {0})
    /\ UNCHANGED <<logs, graph, things, made, calls, audited, stale>>

Next == \E p \in Process :
    \/ Call(p) \/ AppendRead(p) \/ AppendWrite(p) \/ AddNode(p) \/ AddEdge(p) \/ RecordAudit(p)
    \/ RecordArtifact(p) \/ Notify(p) \/ ResolveRead(p) \/ ResolveWrite(p)
    \/ RepairRead(p) \/ RepairWrite(p) \/ Kill(p)

Symmetry == Permutations(Process)

Spec == Init /\ [][Next]_vars

----------------------------------------------------------------------------
(* Properties.                                                             *)

\* Whatever processes append at the same time, the sequence numbers that are
\* kept follow each other from the checkpoint on: events that were overwritten
\* leave no gap that verifyEventChain could see (log.ts:69-88).  Only a
\* checkpoint reconstructed from an outdated read breaks that (log.ts:141).
SequenceUnbroken == "events" \in stale \/ Following(events, eventCut)

\* verifyEventChain finds fault only with events that name a cause or parent
\* which retention removed or another process overwrote, never with the order
\* in which several processes append (log.ts:145-170).
FaultsAreForgotten ==
    "events" \in stale \/ EventChainValid
    \/ \E i \in DOMAIN events :
          \/ events[i].cause \notin EventIds \cup {0}
          \/ (i > 1 \/ events[i].by = "workshop") /\ events[i].parent \notin EventIds \cup {0}

\* The audit chain verifies in every state, under retention and with several
\* processes, unless a checkpoint was reconstructed from an outdated read
\* (recordAudit, audit.ts:82-103; ensureRetentionCheckpoint, audit.ts:142).
AuditUnbroken == "audit" \in stale \/ AuditChainValid

\* Both chains verify whatever processes write, and whenever one is killed.
LogsVerify == SequenceUnbroken /\ FaultsAreForgotten /\ AuditUnbroken

\* An event that observe appended has its audit record as soon as its writer is
\* done, unless the writer was killed or an endpoint it named was refused
\* (observability.ts:70-118).
EventsAudited == \A e \in ToSet(events) :
    e.by = "observe" => e.id \in audited \cup broken \cup {prog[p].event : p \in Process}

==============================================================================
