SPECIFICATION ServingSpec
CONSTANTS
    j1 = j1
    j2 = j2
    j3 = j3
    t1 = t1
    t2 = t2
    r1 = r1
    NoJob = NoJob
    NoPointer = NoPointer
    TornPointer = TornPointer
    NoMae = NoMae
    NoThread = NoThread
    NoBundle = NoBundle
    LoadError = LoadError
    Jobs <- MCTwoJobs
    RunIds = {1, 2}
    IdOf <- MCCollidingIds
    NChunks = 1
    MaeValues <- MCOneMae
    ForcedJobs <- MCNobody
    BadFeeds <- MCNobody
    RequireGate = TRUE
    MaxRegressionPct = 10
    Serial = FALSE
    MayCrash <- MCNobody
    Replicas <- MCOneReplica
    Threads <- MCOneThread
    ReplicaOf <- MCItsReplica
    TTL = 1
    ForceFlags = {FALSE}
    RestartsAllowed = FALSE
CHECK_DEADLOCK FALSE
INVARIANT
    ModelAndEncoderTogether
