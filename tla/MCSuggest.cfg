\* The function returns.
CONSTANTS
    Letters <- MCLetters
    MaxLen = 3
    Requests <- MCRequests
SPECIFICATION Spec
CHECK_DEADLOCK FALSE
INVARIANTS
    CellsAreDistances
    SuggestsFirstOfTheClosest
