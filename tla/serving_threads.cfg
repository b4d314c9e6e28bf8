SPECIFICATION ServingSpec
CONSTANTS
    j1 = j1
    j2 = j2
    j3 = j3
    t1 = t1
    t2 = t2
    r1 = r1
    NoJob = NoJob
    NoPointer = NoPointer
    TornPointer = TornPointer
    NoMae = NoMae
    NoThread = NoThread
    NoBundle = NoBundle
    LoadError = LoadError
    Jobs <- MCTwoJobs
    RunIds = {1, 2}
    IdOf <- MCTwoIds
    NChunks = 1
    MaeValues <- MCTwoMaes
    ForcedJobs <- MCForced
    BadFeeds <- MCNobody
    RequireGate = TRUE
    MaxRegressionPct = 10
    Serial = FALSE
    MayCrash <- MCTwoJobs
    Replicas <- MCOneReplica
    Threads <- MCThreads
    ReplicaOf <- MCSameReplica
    TTL = 1
    ForceFlags = {FALSE, TRUE}
    RestartsAllowed = TRUE
CHECK_DEADLOCK FALSE
INVARIANTS
    StoreTypeOK
    ServedBundleIsOneRun
    MapMatchesServedRun
    TrainInv
    PromotedRunComplete
    ClearedWhatItRead
PROPERTIES
    PromotedRunImmutable
    NoErrorOnceServed
    ServesPublishedRunsInOrder
