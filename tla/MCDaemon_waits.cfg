SPECIFICATION FairSpec
CONSTANTS
    None = None
    Names = {x}
    Clients = {c1, c2}
    BusIds = {b1, b2}
    RecIds = {r1}
    SinkIds = {}
    CapIds = {k1}
    Replays = {}
    Commands <- WaitingCmds
    Quitters = {}
    MaxCmds = 4
    MaxFrames = 1
    PipeCap = 1
PROPERTIES
    Answered
    QuitTerminates
    RecordedEventually
    DetachedFileClosesEventually
