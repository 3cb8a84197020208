\* SourceLoad returns and SourceFree is called once.
CONSTANTS
    Bytes <- MCBytes
    U32Max = 3
    MaxFileLen = 4
    MaxChanges = 3
SPECIFICATION FileSpec
CHECK_DEADLOCK FALSE
INVARIANTS
    OutsideOnlyAtMaximum
    LoadsWhatItMeasured
    HoldsNothingItDoesNotReturn
