SPECIFICATION Spec
CONSTANTS
    p1 = p1
    p2 = p2
    p3 = p3
    Nobody = Nobody
    Proc <- ThreeProc
    MaxOps = 1
    Retries = 2
    Modes <- OnlyUpdates
    MaxCrashes = 1
    Stalls = FALSE
    OldFormat = FALSE
SYMMETRY Interchangeable
INVARIANTS
    NoLostUpdate
\* Every process may have made its MaxOps calls.
CHECK_DEADLOCK FALSE
