CONSTANTS
    s1 = s1
    s2 = s2
    Subtasks = {s1, s2}
    NoSubtask = none
    Fulls <- TwoFulls
    MaxCases = 3
    Failures = {"wrong answer", "time limit"}
    NaNScore <- NegativeNaN
SPECIFICATION ScoringSpec
INVARIANTS MinIsLowest
CHECK_DEADLOCK FALSE
