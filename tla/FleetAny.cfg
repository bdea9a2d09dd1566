CONSTANTS
    MaxDevice = 2
    MaxSize = 2
    DeviceCalls = 5
    MaxNew = 1
    PlaneCalls = 4
    MaxRecords = 1
    TrialCalls = 5
    Provider = {a}
    ProviderCalls = 4
    Box = {b1, b2}
    File = {f1}
    Caller = {c1, c2}
    Mode = {"local", "oci"}
    KeepSnapshots = 1
    MaxCalls = 5
    MaxWrites = 2
    MaxSnapshots = 2
    MaxFaults = 1
SPECIFICATION AnySpec
INVARIANTS
    NothingLeftBehind
    OneHolder
    AskedOnce
    PlansHold
    BoundIsEnabled
    EarnedUnlessPatched
SYMMETRY Symmetry
CHECK_DEADLOCK FALSE
