CONSTANTS
    Store <- Names
    Extends <- Begun
    MaxFiles = 3
    KeepPerStore = 1
    MaxCalls = 6
SPECIFICATION Spec
PROPERTIES
    BackupCovers
CHECK_DEADLOCK FALSE
