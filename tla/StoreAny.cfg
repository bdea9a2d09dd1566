SPECIFICATION AnySpec
CONSTANTS
    p1 = p1
    p2 = p2
    p3 = p3
    Nobody = Nobody
    Proc <- TwoProc
    MaxOps = 2
    Retries = 2
    Modes <- OnlyUpdates
    MaxCrashes = 1
    Stalls = FALSE
    OldFormat = FALSE
INVARIANTS
    LossNeedsTheft
    Exclusive
    RefusedLeavesNoTrace
PROPERTIES
    SignedOrphansGo
    CallsReturn
    Implements
\* Every process may have made its MaxOps calls.
CHECK_DEADLOCK FALSE
