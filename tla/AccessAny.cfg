SPECIFICATION Spec
CONSTANTS
    Process = {p1, p2}
    Threshold = 2
    Period = 2
    KeepSteps = 2
    KeepSessions = 2
    Exercises = {{"root", "session"}, {"root", "secret"}, {"secret", "login", "totp"}, {"login", "session"}}
    MaxTime = 3
    MaxRoots = 2
    MaxSecrets = 2
    MaxSessions = 3
    MaxLogins = 3
    MaxCrashes = 1
SYMMETRY Symmetry
CHECK_DEADLOCK FALSE
INVARIANTS
    LoginPrepared
    LoginsBounded
PROPERTIES
    ClosedForGood
