\* checked with MCSentinelAgent
SPECIFICATION Spec
CONSTANTS
    s1 = s1
    n1 = n1
    Signals = {s1}
    NodeOf <- mcNodeOf
    TopNodes <- mcTopNodes
    MaxReconnectAttempts = 2
    Supported = {s1}
    MaxPolls = 2
    StartBalance = 2
    Outcomes <- mcOutcomes
    Configs <- mcConfigs
    NaN = NaN
    MaxPublished = 2
    Spenders = {"Router", "OrderVault"}
    MaxLives = 2
INVARIANTS
    OvershootBoundedByRace
    PositionsAccountedFor
    DashboardAgrees
    HandledTwiceExplained
    MissedExplained
PROPERTIES
    HandlersSettle
    StreamRecovers
CHECK_DEADLOCK FALSE
