--------------------------- MODULE MCDurableStore ---------------------------
(* Instances of DurableStore for TLC.  Processes are interchangeable.      *)
EXTENDS DurableStore, TLC

CONSTANTS p1, p2, p3

TwoProc == {p1, p2}
ThreeProc == {p1, p2, p3}
OnlyUpdates == {"update"}
BothModes == {"update", "write"}
Interchangeable == Permutations(Proc)
=============================================================================
