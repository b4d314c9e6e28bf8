SPECIFICATION DashSpec
CONSTANTS
    s1 = s1
    s2 = s2
    api1 = api1
    api2 = api2
    id1 = id1
    id2 = id2
    junctionA = junctionA
    junctionB = junctionB
    ErrorAnswer = ErrorAnswer
    NotShown = NotShown
    Nobody = Nobody
    Sessions <- MCOneSession
    Deployments <- MCOneReplica
    Fetched <- MCPaths
    Place <- MCPlace
    TTL = 2
    Faults <- MCNoFaults
    MaxAttempts = 3
    MaxLoads <- MCTwoLoads
CHECK_DEADLOCK FALSE
INVARIANT
    PredictionIsForTheChosenHotspot
