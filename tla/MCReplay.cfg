SPECIFICATION FairSpec
CONSTANTS
    Streams = {a, b}
    Senders = {p, q}
    Delays = {0, 2}
    Scales <- AsRecordedOrSlower
    Slack = 1
    W = 5
    Ulp = 2
    Boot = 1
    LastSend = 2
    LastStart = 4
    MaxTime = 7
    MaxRecords = 3
CHECK_DEADLOCK FALSE
INVARIANTS
    TypeOK
    NeverBeforeOffset
    SharedTimebase
PROPERTIES
    AllSent
