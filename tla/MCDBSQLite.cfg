SPECIFICATION Spec
CONSTANTS
    Value <- MCValue
    Literal <- MCLiteral
    Broken = broken
    Empty = ""
    Null = "null"
    FieldNames <- MCFields
    InitRows <- MCInitRows
    CsvArgs <- MCCsvArgs
    h1 = h1
    h2 = h2
    h3 = h3
    Handle <- MCHandle
    Strange <- MCStrange
    MaxRows = 2
INVARIANTS
    TypeOK
    FieldsAnswerWhole
    FailedSetChangesNothing
    TrueSetStoresAll
    SaveAnswersTruly
    NoHandleLeaks
PROPERTY NamesStayUnique
SYMMETRY MCSymmetry
