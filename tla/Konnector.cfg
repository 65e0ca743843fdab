SPECIFICATION FairSpec
CONSTANTS
    b1 = b1
    b2 = b2
    b3 = b3
    s1 = s1
    s2 = s2
    Bindings = {b1, b2, b3}
    Secrets = {s1, s2}
    SecretOf <- MCSecretOf
    Kubeconfigs = {k1, k2, bad}
    Valid = {k1, k2}
    NoConfig = NoConfig
    Idle = Idle
    Workers = 2
    StartMayFail = TRUE
    MaxOps = 2
INVARIANTS
    TypeOK
    OneControllerPerKubeconfig
    StoppedWhenUnused
PROPERTIES
    Served
CHECK_DEADLOCK FALSE
