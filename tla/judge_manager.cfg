SPECIFICATION Spec
CONSTANTS
    Submissions = {s1, s2}
    Ids = {i1, i2, i3, i4}
    TestInput = data
    MaxCases = 2
    NoId = NoId
    NoFile = NoFile
SYMMETRY IdSymmetry
INVARIANTS
    ProgramKept
    IndexedHasOwner
CHECK_DEADLOCK FALSE
