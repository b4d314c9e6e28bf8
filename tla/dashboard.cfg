SPECIFICATION DashSpec
CONSTANTS
    s1 = s1
    s2 = s2
    api1 = api1
    api2 = api2
    id1 = id1
    id2 = id2
    junctionA = junctionA
    junctionB = junctionB
    ErrorAnswer = ErrorAnswer
    NotShown = NotShown
    Nobody = Nobody
    Sessions <- MCSessions
    Deployments <- MCReplicas
    Fetched <- MCFetched
    Place <- MCRenamed
    TTL = 1
    Faults <- MCFaults
    MaxAttempts = 2
    MaxLoads <- MCLoads
CHECK_DEADLOCK FALSE
INVARIANTS
    DashTypeOK
    RecoveredPagesAreCurrent
PROPERTIES
    ShownWithinTTL
    SessionsGoForward
    EveryPageEnds
