\* ImmMax is 2^30 - 1 here, with all four bytes in use: TLC's integers have 32
\* bits, of which one is the sign.  The function returns or the process ends.
CONSTANTS
    ImmMax = 1073741823
    Programs <- MCPrograms
SPECIFICATION Spec
CHECK_DEADLOCK FALSE
INVARIANTS
    TypeOK
    TableFitsAllocation
    LabelsOnBoundaries
    EntryRunsProgram
    FirstErrorReported
