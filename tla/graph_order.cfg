CONSTANTS
    Ids = {n1, n2, n3, n4}
    Listed = {n1, n2, n3}
    NoNode = none
SPECIFICATION VerifiedSpec
INVARIANTS DependenciesFirst
CHECK_DEADLOCK FALSE
