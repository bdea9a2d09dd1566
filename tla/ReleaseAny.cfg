CONSTANTS
    Caller = {c1, c2}
    Build = {b1}
    SourceBuild = b1
    MaxReleases = 2
    MaxDeployments = 2
    MaxCalls = 5
    MaxRulings = 1
    Switches = {"SYSTEM", "release"}
SPECIFICATION Spec
PROPERTIES
    MovesToIntact
    ActiveIsMeasured
    EndedForGood
CHECK_DEADLOCK FALSE
