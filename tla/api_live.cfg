SPECIFICATION ApiFairSpec
CONSTANTS
    j1 = j1
    j2 = j2
    r1 = r1
    lp = lp
    q1 = q1
    q2 = q2
    c1 = c1
    c2 = c2
    ka = ka
    kb = kb
    kx = kx
    NoJob = NoJob
    NoPointer = NoPointer
    TornPointer = TornPointer
    NoThread = NoThread
    NoBundle = NoBundle
    LoadError = LoadError
    NoKey = NoKey
    Jobs <- MCJobs
    RunIds = {1, 2}
    JobOf <- MCJobOf
    Knows <- MCKnows
    Replicas <- MCReplicas
    TheReplica = r1
    Loop = lp
    Threads <- MCThreads
    ReplicaOf <- MCReplicaOf
    RequestKinds <- MCProbes
    ApiKeys <- MCKeys
    Limit = 1
    PoolSize = 1
    MaxScrapes = 1
    TTL = 1
    ForceFlags = {FALSE}
    RestartsAllowed = FALSE
CHECK_DEADLOCK FALSE
PROPERTIES
    HealthAnswers
    EveryRequestIsAnswered
