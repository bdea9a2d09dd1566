---------------------------- MODULE MCExecution ----------------------------
(* Execution on small instances: two tasks of one agent, of which the second *)
(* needs an approval.                                                        *)
EXTENDS Execution

CONSTANTS plain, guarded, agent

MCAssignedTo == [t \in Task |-> agent]
MCEdgeOf == [e \in Edge |-> [from |-> Creator, to |-> Worker, caps |-> Capability, risk |-> 1]]
MCNeedsApproval == Task \cap {guarded}
=============================================================================
