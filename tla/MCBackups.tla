----------------------------- MODULE MCBackups -----------------------------
(* Backups of two stores of which one has a name that begins with the      *)
(* other's: workshop and workshop-executions.                              *)
EXTENDS Backups

Names == <<"workshop", "executions">>
Begun == [s \in {"workshop", "executions"} |-> IF s = "workshop" THEN {"executions"} ELSE {}]
=============================================================================
