CONSTANTS
    c1 = c1
    c2 = c2
    j1 = j1
    j2 = j2
    r1 = r1
    r2 = r2
    r3 = r3
    t1 = t1
    t2 = t2
    local = local
    node = node
    w1 = w1
    w2 = w2
    OwnId <- OwnIds
    Nobody = Nobody
    Cycle <- OneCycle
    Owner <- SharedId
    Job <- TwoJobs
    Run <- OneRun
    Task <- OneTask
    Posted <- None
    Worker <- Workers
    Operator = local
    MaxAttempts = 2
    Docker = TRUE
    Manual = FALSE
    Stalls = FALSE
    MaxCrashes = 1
    MaxStarts = 2
SPECIFICATION LiveSpec
INVARIANTS
    RunBudget
PROPERTIES
    HeldJobsReturn
    RunningSettles
    UsesQueue
