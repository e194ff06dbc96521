SPECIFICATION FairSpec
CONSTANTS
    slow = slow
    quick = quick
    child = child
    Jobs <- MCJobs
    Delay <- MCDelay
    Children <- MCChildren
    MaxTime = 4
    HostCallsRun = TRUE
INVARIANTS
    TypeOK
    PriorityOrder
    ExactlyOnce
PROPERTIES
    NeverEarly
    EveryDueJobRuns
    ImplementsFairDelayQueue
