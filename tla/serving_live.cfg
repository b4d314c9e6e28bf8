SPECIFICATION ServingFairSpec
CONSTANTS
    j1 = j1
    j2 = j2
    j3 = j3
    t1 = t1
    t2 = t2
    r1 = r1
    NoJob = NoJob
    NoPointer = NoPointer
    TornPointer = TornPointer
    NoMae = NoMae
    NoThread = NoThread
    NoBundle = NoBundle
    LoadError = LoadError
    Jobs <- MCThreeJobs
    RunIds = {1, 2, 3}
    IdOf <- MCThreeIds
    NChunks = 1
    MaeValues <- MCTwoMaes
    ForcedJobs <- MCNobody
    BadFeeds <- MCBad
    RequireGate = TRUE
    MaxRegressionPct = 10
    Serial = TRUE
    MayCrash <- MCKilled
    Replicas <- MCOneReplica
    Threads <- MCThreads
    ReplicaOf <- MCSameReplica
    TTL = 1
    ForceFlags = {FALSE}
    RestartsAllowed = FALSE
CHECK_DEADLOCK FALSE
INVARIANT
    PromotedRunTrainedOnOwnFeed
PROPERTIES
    NewRunEventuallyServed
    TornPointerIsReplaced
