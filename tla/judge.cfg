CONSTANTS
    s1 = s1
    s2 = s2
    NoNode = none
    NoOutput = noOutput
    MaxRetries = 1
    Subtasks = {s1, s2}
    Cases <- TwoOneCases
    ChanCap = 1
SPECIFICATION FairSpec
INVARIANTS OutputsAccounted AllUploadsTried LastFailureReported
PROPERTIES ResultStable ReturnsUnlessStuck
CHECK_DEADLOCK FALSE
