SPECIFICATION ServerSpec
CONSTANTS
    Conns = {c1, c2}
    MaxParts = 1
CHECK_DEADLOCK FALSE
INVARIANTS
    TypeOK
    LiveIsManaged
    StopIsComplete
    AcceptIsOutstanding
PROPERTIES
    StopEnds
    NobodyWaitsForever
