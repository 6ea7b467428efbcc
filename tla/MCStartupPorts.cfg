SPECIFICATION Spec
CONSTANTS
    CmdLines <- MCCmdLines
    Files <- MCFiles
    Rubbish <- MCRubbish
    NoPort = NoPort
INVARIANT NeedsItsPorts
CHECK_DEADLOCK FALSE
