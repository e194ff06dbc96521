SPECIFICATION Spec
CONSTANTS
    None = None
    Names = {x}
    Clients = {c1, c2}
    BusIds = {b1, b2}
    RecIds = {r1, r2}
    SinkIds = {s1, s2}
    CapIds = {k1, k2}
    Replays = {p1}
    Commands <- ObjectCmds
    Quitters = {c1, c2}
    MaxCmds = 4
    MaxFrames = 1
    PipeCap = 1
SYMMETRY ClientSymmetry
INVARIANTS
    TypeOK
    OwnersSendOnLiveBus
    OneCapturePerBus
    CallbacksMatchOwners
    DeleteLeavesNothing
    CommandsForwardToLiveSink
    RecorderOpenAtDelivery
    RecordedOrInFlight
    HandleOwnership
