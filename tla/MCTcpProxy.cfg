SPECIFICATION FairSpec
CONSTANTS
    MaxChunks = 2
    MaxConns = 2
    PeerRoom = 1
CHECK_DEADLOCK FALSE
INVARIANTS
    TypeOK
    RelayedInOrder
    RecordedAsRelayed
    NothingLeftOpen
PROPERTIES
    ClientCloseReachesServer
    StopReturns
