SPECIFICATION ScoreSpec
CONSTANTS
    Inputs <- MCInputs
    Stations <- MCStations
    SafeKey <- MCSafeKey
    MaxRejectedPct = 50
    MinClusterSize = 2
    MaxClusters = 2
    MaxParts = 8
    Severity <- MCSeverity
    DefaultSeverity = 2
    Weight <- MCWeight
    DefaultWeight = 1
    GrowthMin <- MCGrowthMin
    GrowthMax <- MCGrowthMax
    UrgentGrowth <- MCUrgent
    HighRecency <- MCHighRecency
    MaxPoints = 2
CHECK_DEADLOCK FALSE
INVARIANTS
    IngestTypeOK
    EveryDropHasAReason
    EveryValidRowIsStoredOnce
    OnlyGoodFeedsGoOn
    EveryRowMeetsItsAssignment
    NoRowIsCountedTwice
    ScoreTypeOK
    LeaderboardOfWholeFeed
    EveryRankedHotspotCanBeForecast
    DispatchMatchesActivity
    HeatmapIsBounded
