SPECIFICATION FairSpec
CONSTANTS
    MaxBuses = 2
    MaxEvents = 4
    RingCap = 2
    Paths = {"p", "q"}
    Lens = {1, 60}
    TsHi = 50
    FilterLists <- MCFilterLists
    Losses <- MCLosses
CHECK_DEADLOCK FALSE
INVARIANTS
    TypeOK
    ShownIsTrue
    NothingLeftBehind
    RingOrdered
PROPERTIES
    OnlySelectedShown
    RestoredOnLaunch
    SyncedOnConnect
