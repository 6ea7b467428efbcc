SPECIFICATION Spec
CONSTANTS
    Input = {"CR", "LF", "SP", "HT", ":", "/", ".", "0", "H", "T", "P", "~"}
    MaxText = 25
    MaxDecided = 22
    MaxExtra = 1
CHECK_DEADLOCK FALSE
INVARIANTS
    TypeOK
    AcceptsRequests
    SaysWhatWasSent
    RejectsAtOnce
