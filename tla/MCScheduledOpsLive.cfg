SPECIFICATION FairSpec
CONSTANTS
    o1 = o1
    o2 = o2
    i1 = i1
    i2 = i2
    None = None
    Miss = Miss
    Ops <- MCOps
    TimeOps <- OneTimeOp
    Comparator <- LessOrEqual
    Threshold = 0
    Instances <- OneInstance
    Fetchers <- OneInstance
    Batch = 1
    Concurrency = 1
    ActionTimeout = 1
    StaleAfter = 2
    RequeueDelay = 1
    MissBackoff = 1
    MaxUsers = 1
    MaxDelay = 1
    MaxLate = 1
    MaxOverlap = 1
    MaxFaults = 1
PROPERTIES
    TimedOpSettles
    
CHECK_DEADLOCK FALSE
