SPECIFICATION FairSpec
CONSTANTS
    CmdLines <- MCCmdLines
    Files <- MCFiles
    Rubbish <- MCRubbish
    NoPort = NoPort
INVARIANTS
    TypeOK
    ConfiguredAsAsked
    ProviderHasItsCode
PROPERTY NobodyStaysInBacklog
CHECK_DEADLOCK FALSE
