SPECIFICATION FairSpec
CONSTANTS
    Piece <- MCPiece
    Empty = ""
    Conns = {c1, c2}
    Requests <- MCFewRequests
    FieldNames <- MCFields
    InitTables <- MCOneTable
    MaxRequests = 1
PROPERTIES
    ServiceSpec
    NoSessionAfterStop
    NobodyWaitsForever
    StopEnds
