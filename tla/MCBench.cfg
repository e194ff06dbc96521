SPECIFICATION FairSpec
CONSTANTS
    Pkt = 2
    Rate = 3
    Unit = 2
    Duration = 5
    Nap = 0
    Early = 0
    Buffers = 2
    MaxTime = 5
CHECK_DEADLOCK FALSE
INVARIANTS
    TypeOK
    WindowBound
    Accounted
PROPERTIES
    StopEnds
