---------------------------- MODULE MCAgentWorker ----------------------------
(* Instances of AgentWorker for TLC. *)
EXTENDS AgentWorker, TLC

CONSTANTS c1, c2, j1, j2, r1, r2, t1, t2, local, node, w1, w2

OneCycle == {c1}
TwoCycles == {c1, c2}
OwnIds == [c \in Cycle |-> IF c = c1 THEN w1 ELSE w2]
SharedId == [c \in Cycle |-> node]
Workers == {local, node, w1, w2}
TwoJobs == {j1, j2}
OneRun == {r1}
TwoRuns == {r1, r2}
OneTask == {t1}
TwoTasks == {t1, t2}
SecondTask == {t2}
None == {}

Symmetric == Permutations(Job) \cup Permutations(Run)
==============================================================================
