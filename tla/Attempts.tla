------------------------------ MODULE Attempts ------------------------------
(***************************************************************************)
(* What the job queue (lib/queue.ts) and the run lifecycle (lib/runs.ts)   *)
(* share: a job carries the id of the run it executes, and both count      *)
(* attempts against the same default budget.                               *)
(***************************************************************************)
EXTENDS Naturals

CONSTANTS
    Run,          \* run ids: the bound on how many runs are ever created
    Nobody,       \* an undefined field or parameter
    MaxAttempts   \* maxAttempts of every job and run

ASSUME AttemptsAssumption == MaxAttempts \in Nat \ {0}
=============================================================================
