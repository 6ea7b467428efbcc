SPECIFICATION Spec
CONSTANTS
    Piece <- MCPiece
    Empty = ""
    Conns = {c1}
    Requests <- MCRequests
    FieldNames <- MCFields
    InitTables <- MCInitTables
    MaxRequests = 2
PROPERTIES
    FailedSetChangesNothing
