\* A store of two entries overflows on a text of three faults.  The lexer
\* stops when it is done.
CONSTANTS
    DIAGS_INITIAL_CAP = 1
    IdentStart <- MCIdentStart
    Digits <- MCDigits
    DigitValue <- MCDigitValue
    Blanks <- MCBlanks
    Newline = "newline"
    Colon = ":"
    Semicolon = ";"
    Hash = "#"
    Stray <- MCStray
    Keywords <- MCKeywords
    NumberMax = 191
    DiagsCap = 2
    Sources <- MCSources
SPECIFICATION Spec
CHECK_DEADLOCK FALSE
INVARIANTS
    TypeOK
    TokensAreLexemes
    OverflowExact
    FaultsReported
PROPERTIES
    Termination
