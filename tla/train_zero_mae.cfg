SPECIFICATION TrainSpec
CONSTANTS
    j1 = j1
    j2 = j2
    NoJob = NoJob
    NoPointer = NoPointer
    TornPointer = TornPointer
    NoMae = NoMae
    Jobs <- MCTwoJobs
    RunIds = {1, 2}
    IdOf <- MCTwoIds
    NChunks = 1
    MaeValues <- MCMaes
    ForcedJobs <- MCNobody
    BadFeeds <- MCNobody
    RequireGate = TRUE
    MaxRegressionPct = 10
    Serial = TRUE
    MayCrash <- MCNobody
CHECK_DEADLOCK FALSE
INVARIANT
    GatedRunKeepsArtifacts
