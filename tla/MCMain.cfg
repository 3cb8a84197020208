\* Two runs, so that the second finds what the first one left.  After the last
\* run nothing more happens.
CONSTANTS
    Paths <- MCPaths
    Input = "in"
    MaxRuns = 2
SPECIFICATION Spec
CHECK_DEADLOCK FALSE
INVARIANTS
    TypeOK
    LeavesNothing
    UsesAreLive
PROPERTIES
    CompilesOrLeavesAlone
    EveryRunEnds
