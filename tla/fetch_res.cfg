CONSTANTS
    k1 = k1
    k2 = k2
    k3 = k3
    f1 = f1
    f2 = f2
    Keys = {k1, k2, k3}
    Leftovers = {"full"}
    Fetchers = {f1, f2}
    ResCap = 1
    MaxRetries = 1
    NoKey = noKey
SPECIFICATION FairSpec
INVARIANTS SuccessIsComplete NothingOutlivesCall FailureHasCause
PROPERTIES ImplementsTransfer
CHECK_DEADLOCK FALSE
