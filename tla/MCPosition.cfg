\* The functions return.
CONSTANTS
    Characters = {"nl", "nul", "tab", "a", "b"}
    Newline = "nl"
    Nul = "nul"
    Plain <- MCPlain
    Leap <- MCLeap
    Texts <- MCTexts
    MaxInt = 3
SPECIFICATION PositionSpec
CHECK_DEADLOCK FALSE
INVARIANTS
    LocatesOneLine
    CaretsUnderSpan
