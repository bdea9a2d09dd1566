------------------------------ MODULE Science ------------------------------
(***************************************************************************)
(* Experiments and what they establish (science.ts), and their route       *)
(* (app/api/science/route.ts).                                             *)
(*                                                                         *)
(* A call reads the whole payload, changes it and writes it whole; between *)
(* the two, another process may write.  Of the runs of an experiment what  *)
(* validateCausalChain looks at remains: which kinds there are, accepted   *)
(* or not, and whether the first baseline came before the first control.   *)
(* Texts, exit codes (an accepted run has the exit code 0,                 *)
(* execution-broker.ts:539), status, progress, the events (module Records) *)
(* and the copy of the record in the control plane are left out; so are    *)
(* patches with values of another type and an id that another record has.  *)
(***************************************************************************)
EXTENDS Naturals, FiniteSets, TLC

CONSTANTS
    Process,
    Experiment,
    MaxCalls,      \* bound: calls
    MaxRecords     \* bound: experiments a call finds when it creates one more, and that one

VARIABLES
    science,    \* the store "science": of each experiment its record
    read,       \* what a call under way in a process has read; an empty function when there is none
    begun,      \* the ids that have had a record: runs that found it then may await executeAuthorized still
    patched,    \* history: of each experiment the fields requests have patched that updateExperiment declares no patch of
    calls

vars == <<science, read, begun, patched, calls>>

Kind == {"BASELINE", "CONTROL", "REPLICATION"}
Knowledge == {"NONE", "HYPOTHESIS", "SUPPORTED", "CONTRADICTED", "ESTABLISHED"}    \* NONE: no such experiment

Undeclared == {"evidenceIds", "experimentId"}

\* runs and baselineFirst belong to the id, whatever record has it.
New == [state |-> "NONE", runs |-> {}, baselineFirst |-> FALSE,
        evidence |-> FALSE, unexplained |-> FALSE]    \* unexplained: confounders, and no alternative explanation
Nothing == <<>>

TypeOK ==
    /\ science \in [Experiment -> [state : Knowledge, runs : SUBSET (Kind \X BOOLEAN), baselineFirst : BOOLEAN,
                                      evidence : BOOLEAN, unexplained : BOOLEAN]]
    /\ patched \in [Experiment -> SUBSET Undeclared]

\* The store a run starts with: empty, or with an experiment on its way, of
\* which a baseline and then a control were accepted.
Tried == [state |-> "SUPPORTED", runs |-> {<<"BASELINE", TRUE>>, <<"CONTROL", TRUE>>}, baselineFirst |-> TRUE,
          evidence |-> FALSE, unexplained |-> FALSE]
Before(tried) == [e \in Experiment |-> IF e \in tried THEN Tried ELSE New]

Init ==
    /\ begun \in {{}} \cup {{e} : e \in Experiment}
    /\ science = Before(begun)
    /\ read = [p \in Process |-> Nothing]
    /\ patched = [e \in Experiment |-> {}]
    /\ calls = 0

\* store.read(): the payload as it is now.
Read(p) ==
    /\ calls < MaxCalls /\ read[p] = Nothing
    /\ calls' = calls + 1
    /\ read' = [read EXCEPT ![p] = science]
    /\ UNCHANGED <<science, begun, patched>>

\* store.write(payload); Write: what was read, with the record of e changed.
\* Where nothing changes, it is CreateOther.
Put(p, payload) ==
    /\ science' = payload
    /\ read' = [read EXCEPT ![p] = Nothing]
    /\ begun' = begun \cup {e \in Experiment : payload[e].state # "NONE"}
    /\ UNCHANGED calls
Write(p, e, record) == record # read[p][e] /\ Put(p, [read[p] EXCEPT ![e] = record])
Reading(p, e) == read[p] # Nothing /\ read[p][e].state # "NONE"

----------------------------------------------------------------------------
\* createExperiment: no evidence, whatever the caller says of it.
CreateExperiment(p, e, unexplained) ==
    /\ read[p] # Nothing /\ read[p][e].state = "NONE"
    /\ Cardinality({f \in Experiment : read[p][f].state # "NONE"}) < MaxRecords
    /\ Write(p, e, [read[p][e] EXCEPT !.state = "HYPOTHESIS", !.evidence = FALSE, !.unexplained = unexplained])
    /\ UNCHANGED patched

\* updateExperiment assigns whatever the request patches; only the state
\* ESTABLISHED is refused.  A patch of several fields is several of these.
Patchable == {"state", "evidence", "unexplained"}
Values(field) == IF field = "state" THEN Knowledge \ {"NONE", "ESTABLISHED"} ELSE BOOLEAN

UpdateExperiment(p, e, field, value) ==
    /\ Reading(p, e)
    /\ Write(p, e, [read[p][e] EXCEPT ![field] = value])
    /\ patched' = IF field = "evidence" THEN [patched EXCEPT ![e] = @ \cup {"evidenceIds"}] ELSE patched

\* ... the id as well: the record moves, the runs of either id stay.
Renamed(payload, e, f) ==
    [payload EXCEPT ![e] = [New EXCEPT !.runs = payload[e].runs, !.baselineFirst = payload[e].baselineFirst],
                    ![f] = [payload[e] EXCEPT !.runs = payload[f].runs, !.baselineFirst = payload[f].baselineFirst]]

Rename(p, e, f) ==
    /\ Reading(p, e) /\ e # f /\ read[p][f].state = "NONE"
    /\ Put(p, Renamed(read[p], e, f))
    /\ patched' = [patched EXCEPT ![f] = @ \cup patched[e] \cup {"experimentId"}]

AddEvidence(p, e) ==
    Reading(p, e) /\ Write(p, e, [read[p][e] EXCEPT !.evidence = TRUE]) /\ UNCHANGED patched

\* createObjective, createDecision and addEvidence for an id without a record
\* add what no experiment looks at, and write the experiments back as read.
CreateOther(p) == read[p] # Nothing /\ Put(p, read[p]) /\ UNCHANGED patched

Ran(record, kind) == \E accepted \in BOOLEAN : <<kind, accepted>> \in record.runs

\* runExperiment looks for the record, awaits executeAuthorized (module
\* Execution), for as long as that takes, and then reads the payload that it
\* writes, with or without a record by now.
WithRun(record, kind, accepted) ==
    [record EXCEPT !.runs = @ \cup {<<kind, accepted>>},
                   !.baselineFirst = IF Ran(record, "CONTROL") THEN @ ELSE Ran(record, "BASELINE") \/ kind = "BASELINE",
                   !.state = IF @ = "NONE" THEN @ ELSE IF accepted THEN "SUPPORTED" ELSE "CONTRADICTED"]

RunExperiment(p, e, kind, accepted) ==
    /\ read[p] # Nothing /\ e \in begun
    /\ Write(p, e, WithRun(read[p][e], kind, accepted))
    /\ UNCHANGED patched

\* validateCausalChain.
ReasonsHasty(record) ==    \* mutant: replications are looked at, their outcome is not
    \/ \E kind \in Kind : ~Ran(record, kind)
    \/ ~record.evidence \/ ~record.baselineFirst \/ record.unexplained
Reasons(record) ==
    \/ \E kind \in Kind : ~Ran(record, kind)
    \/ ~record.evidence \/ ~record.baselineFirst \/ record.unexplained
    \/ <<"REPLICATION", FALSE>> \in record.runs

Contradicted(record) == <<"CONTROL", FALSE>> \in record.runs \/ record.state = "CONTRADICTED"

Judged(record) ==
    IF Contradicted(record) THEN "CONTRADICTED"
    ELSE IF ~Reasons(record) THEN "ESTABLISHED"
    ELSE IF Ran(record, "REPLICATION") \/ record.evidence THEN "SUPPORTED" ELSE "HYPOTHESIS"

ValidateCausalChain(p, e) ==
    Reading(p, e) /\ Write(p, e, [read[p][e] EXCEPT !.state = Judged(read[p][e])]) /\ UNCHANGED patched

Next ==
    \E p \in Process :
       \/ Read(p) \/ CreateOther(p)
       \/ \E e \in Experiment :
             \/ AddEvidence(p, e) \/ ValidateCausalChain(p, e)
             \/ \E unexplained \in BOOLEAN : CreateExperiment(p, e, unexplained)
             \/ \E field \in Patchable : \E value \in Values(field) : UpdateExperiment(p, e, field, value)
             \/ \E f \in Experiment : Rename(p, e, f)
             \/ \E kind \in Kind, accepted \in BOOLEAN : RunExperiment(p, e, kind, accepted)

Spec == Init /\ [][Next]_vars

Symmetry == Permutations(Process) \cup Permutations(Experiment)

----------------------------------------------------------------------------
(* Properties.                                                             *)

\* What ESTABLISHED asks for: evidence, a baseline that came before the
\* control, a control that no run contradicts and replications that all agree.
\* What a request has patched of the record is excepted.
Earned(record, fields) ==
    record.state = "ESTABLISHED" =>
       /\ "evidenceIds" \in fields \/ record.evidence
       /\ \/ "experimentId" \in fields
          \/ /\ record.baselineFirst
             /\ \A kind \in Kind : Ran(record, kind)
             /\ <<"CONTROL", FALSE>> \notin record.runs /\ <<"REPLICATION", FALSE>> \notin record.runs

\* An experiment is ESTABLISHED only while the store holds what that asks for
\* (science.ts:14-17, docs/EXPERIMENTS.md:26-30), but for the fields that a
\* request patched although updateExperiment does not declare them (188-194):
\* whichever runs, declared updates and validations of whichever processes overlap.
EarnedUnlessPatched == \A e \in Experiment : Earned(science[e], patched[e])
=============================================================================
