\* max = 5 with a first capacity of 2 makes the last growth 4 -> 5, and seven
\* pushes overflow the store by two.  A freed or exited store has no step.
CONSTANTS
    DIAGS_INITIAL_CAP = 2
    Maxes <- MCMaxes
    Spans <- MCSpans
    MaxPushes = 7
SPECIFICATION Spec
CHECK_DEADLOCK FALSE
INVARIANTS
    TypeOK
    StoredIsPrefix
    CountersExact
    CapacityWithinMax
    ReportAccountsForAll
    HeapOwnedByEntries
