SPECIFICATION Spec
CONSTANTS
    None = None
    Names = {x}
    Clients = {c1, c2}
    BusIds = {b1}
    RecIds = {}
    SinkIds = {}
    CapIds = {}
    Replays = {}
    Commands <- SubscribeSendCmds
    Quitters = {}
    MaxCmds = 3
    MaxFrames = 2
    PipeCap = 2
INVARIANTS
    AckFirst
