SPECIFICATION SettingsSpec
CONSTANTS
    r1 = r1
    r2 = r2
    j1 = j1
    ka = ka
    kb = kb
    dsn1 = dsn1
    dsn2 = dsn2
    dsn3 = dsn3
    rulesA = rulesA
    NoField = NoField
    Defaults = Defaults
    Replicas <- MCReplicas
    Jobs <- MCJobs
    Deployments <- MCDeployments
    Rules <- MCRules
    MaxKills = 2
    Keys <- MCKeys
CHECK_DEADLOCK FALSE
INVARIANTS
    SettingsTypeOK
    SecretsFromOneVersion
    NoOutageOpensReplica
    KeyRotationHasNoDowntime
PROPERTY
    ReplicaComesUp
