SPECIFICATION Spec
CONSTANTS
    s1 = s1
    s2 = s2
    Subtasks = {s1, s2}
    NoSubtask = none
    Fulls <- TwoFulls
    MaxCases = 3
    Failures = {"wrong answer", "time limit"}
    NaNScore <- NegativeNaN
    HeaderLen = 2
    MessageLen = 2
    Limits = {0, 1, 2, 3, 6}
    MaxSize = 4
    MaxRetries = 1
    Letters <- MCLetters
    MaxLen = 4
    BufSize = 2
    Digit <- MCDigit
    FloatLen = 3
    FloatBuf = 2
    Eps = 10
INVARIANTS
    ScoreFollowsPolicy ResultWarranted
    OutputKept RecordBounded
    LinesExact IgnoreNewlineOnly 
CHECK_DEADLOCK FALSE
