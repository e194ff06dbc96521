SPECIFICATION Spec
CONSTANTS
    None = None
    Names = {x}
    Clients = {c1, c2}
    BusIds = {b1}
    RecIds = {}
    SinkIds = {}
    CapIds = {}
    Replays = {p1}
    Commands <- ReplayDeleteCmds
    Quitters = {}
    MaxCmds = 3
    MaxFrames = 2
    PipeCap = 1
INVARIANTS
    ReplaySendsOnLiveBus
