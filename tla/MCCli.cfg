\* ParseCli returns or the process ends.
CONSTANTS
    Symbols <- MCSymbols
    Arguments <- MCArguments
    ArgLists <- MCArgLists
SPECIFICATION CliSpec
CHECK_DEADLOCK FALSE
INVARIANTS
    AcceptsByMeaning
    DefaultSparesInput
