\* ImmMax is 2^30 - 1, as for Codegen.  A process that has ended takes no step.
CONSTANTS
    ImmMax = 1073741823
    Programs <- MCPrograms
    StackPointer = 4096
    ExitCalls <- MCExitCalls
    KernelResults <- MCKernelResults
    Flags = 514
SPECIFICATION MachineSpec
CHECK_DEADLOCK FALSE
INVARIANTS
    ImageMatchesHeaders
PROPERTIES
    ExecutesSource
