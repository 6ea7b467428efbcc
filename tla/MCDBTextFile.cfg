SPECIFICATION Spec
CONSTANTS
    Piece <- MCPiece
    Empty = ""
    Torn = "~"
    InitFiles <- MCInitFiles
    CsvArgs <- MCCsvArgs
    NameArgs <- MCNameArgs
    FieldArgs <- MCFieldArgs
    UpdateArgs <- MCUpdateArgs
    MaxRows = 2
    MaxWidth = 3
INVARIANTS
    TypeOK
    Durability
    TornSaveIsPrefix
PROPERTIES
    NoNewDuplicates
    RowsStayWide
