\* checked with MCGMXExecutor
SPECIFICATION GMXSpec
CONSTANTS
    s1 = s1
    s2 = s2
    n1 = n1
    Signals = {s1, s2}
    NodeOf <- mcNodeOf
    TopNodes <- mcTopNodes
    Supported = {s1, s2}
    MaxPolls = 2
    Configs <- mcConfigs
    NaN = NaN
    MaxPublished = 1
INVARIANTS
    MaxOpenPositions
CHECK_DEADLOCK FALSE
