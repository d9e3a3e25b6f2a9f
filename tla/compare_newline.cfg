SPECIFICATION CompareSpec
CONSTANTS
    Letters <- MCLetters
    MaxLen = 4
    BufSize = 2
    Digit <- MCDigit
    FloatLen = 3
    FloatBuf = 2
    Eps = 10
INVARIANTS LastNewlineIgnored
CHECK_DEADLOCK FALSE
