CONSTANTS
    w1 = w1
    w2 = w2
    t1 = t1
    t2 = t2
    p1 = p1
    Workers = {w1, w2}
    Tasks = {t1, t2}
    Problems = {p1}
    ProblemOf <- OneProblem
    MaxRetries = 1
    NoTask = none
SPECIFICATION FairSpec
INVARIANTS LocksBalanced ArtifactsRemoved
PROPERTIES ImplementsTaskLife FetchedIsReported StopsAfterCancel
CHECK_DEADLOCK FALSE
