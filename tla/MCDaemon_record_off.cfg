SPECIFICATION Spec
CONSTANTS
    None = None
    Names = {x}
    Clients = {c1, c2}
    BusIds = {b1}
    RecIds = {r1}
    SinkIds = {}
    CapIds = {}
    Replays = {}
    Commands <- RecordOffCmds
    Quitters = {}
    MaxCmds = 4
    MaxFrames = 2
    PipeCap = 1
PROPERTIES
    DetachedFileIsClosed
