CONSTANTS
    p1 = p1
    p2 = p2
    plain = plain
    guarded = guarded
    agent = agent
    Process = {p1, p2}
    Governing = {p1}
    MaxTokens = 2
    KeepTokens = 1
    MaxUses = 1
    Principal = {Creator, Worker, agent}
    Creator = Creator
    Worker = Worker
    Task = {plain, guarded}
    Capability = {execute}
    Edge = {e1}
    EdgeOf <- MCEdgeOf
    Agent = {agent}
    AssignedTo <- MCAssignedTo
    NeedsApproval <- MCNeedsApproval
    Computer = {c1}
    Delegation = {d1}
    CentreId = {a1}
    ControlId = {a2}
    MaxCommands = 3
    None = None
SPECIFICATION ExecSpec
INVARIANTS
    NoOveruse
    SwitchesHold
PROPERTIES
    RevokedForGood
    StopHolds
    DecisionsFinal
CHECK_DEADLOCK FALSE
