SPECIFICATION HBFairSpec
CONSTANTS
    Versions = {v1, v2}
    Nothing = Nothing
    Drift = 1
    Interval = 2
    SameNamespace = FALSE
    MaxHBOps = 2
PROPERTIES
    VerdictsAreKept
    SecretReachesConsumer
    HeartbeatTellsLife
