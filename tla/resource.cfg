CONSTANTS
    w1 = w1
    w2 = w2
    v1 = v1
    v2 = v2
    v3 = v3
    k1 = k1
    k2 = k2
    Workers = {w1, w2}
    Evictor = evictor
    Free = free
    Ids = {id}
    Latest = latest
    Vers = {v1, v2, v3}
    Keys <- Overlapping
    Cyclic <- ThirdVersion
    PersistentDir = FALSE
    Faults = {}
SPECIFICATION FairSpec
INVARIANTS LockCountExact HeldProblemIntact SingleFetch
PROPERTIES ImplementsCache HeldFilesUntouched CallsReturn
