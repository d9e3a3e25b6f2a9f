CONSTANTS
    w1 = w1
    Instances = {1, 2}
    NoInstance = none
    RefreshTime = 2
    Lifetimes = {3, 7}
    Never = never
    MaxTime = 6
    RenewRetries = 1
    InsecureJwt = TRUE
    Workers = {w1}
    ConnectRetries = 1
    PingRetries = 1
SPECIFICATION FairSpec
INVARIANTS ExitNamesInstance VerdictsBeforeCleanUp RenewalTimely
PROPERTIES QuietAfterExit ShutdownEnds
CHECK_DEADLOCK FALSE
