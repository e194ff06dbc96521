SPECIFICATION FairSpec
CONSTANTS
    None = None
    Names = {x}
    Clients = {c1}
    BusIds = {b1}
    RecIds = {}
    SinkIds = {}
    CapIds = {k1}
    Replays = {}
    Commands <- StopTcpCmds
    Quitters = {}
    MaxCmds = 3
    MaxFrames = 1
    PipeCap = 1
PROPERTIES
    StopCaptureAnswered
