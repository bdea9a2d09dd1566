CONSTANTS
    Parts = {"records", "incidents", "apps", "isolation", "offline", "backups"}
    Test = {own_test}
    NoTest = NoTest
    OtherTests = {}
    Patch <- SomePatches
    MaxFailures = 1
    MaxPlans = 2
    DiagnosisCalls = 6
    TravelRuns = 1
    TravelCalls = 9
    Module = {m1, m2}
    Approval = {a1}
    InstallCalls = 6
    Commands = 2
    MaxChanges = 1
    MaxRestarts = 1
    Process = {p1, p2}
    Start = {"observe", "link", "execute", "deny", "workshop", "notify", "resolve", "verify"}
    MaxEvents = 3
    MaxCrashes = 1
    KeepEvents = 2
    KeepRecords = 2
    KeepNodes = 1
    KeepEdges = 1
    KeepArtifacts = 1
    KeepItems = 1
SPECIFICATION AnySpec
INVARIANTS
    LogsVerify
    EventsAudited
    LearnedIsFounded
    RecoveriesProved
    InstallsOnce
    ClaimsHold
    NothingForgotten
PROPERTIES
    PolicyKeepsNewest
SYMMETRY AnySymmetry
CHECK_DEADLOCK FALSE
