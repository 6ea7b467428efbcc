SPECIFICATION FairSpec
CONSTANTS
    Piece <- MCPiece
    Empty = ""
    Torn = "~"
    PastEnd_ = "?"
    Others = {o1}
    OtherRequests <- MCOtherRequests
    Paths <- MCPaths
    Keys <- MCKeys
    Longer <- MCLonger
    FieldNames <- MCFields
    InitTables <- MCInitTables
INVARIANTS
    TypeOK
    JoinIsRight
    CarriedOutOnce
PROPERTY PageComes
