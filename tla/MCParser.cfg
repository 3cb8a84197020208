\* A store of four diagnostics overflows on the second broken move.  The
\* parser stops when it is done.
CONSTANTS
    DIAGS_INITIAL_CAP = 2
    DiagsCap = 4
    Inputs <- MCInputs
SPECIFICATION Spec
CHECK_DEADLOCK FALSE
INVARIANTS
    TypeOK
    ParsedExactly
    ErrorGate
    BrokenStatementsReported
    DiagnosticsInOrder
    EmptyLabelsWarned
    Progress
PROPERTIES
    Termination
