SPECIFICATION Spec
CONSTANTS
    Box = {b1, b2}
    File = {f1}
    Caller = {c1, c2}
    Mode = {"local", "oci"}
    KeepSnapshots = 1
    MaxCalls = 5
    MaxWrites = 2
    MaxSnapshots = 2
    MaxFaults = 1
SYMMETRY Symmetry
CHECK_DEADLOCK FALSE
INVARIANTS
    SandboxHasPlace
