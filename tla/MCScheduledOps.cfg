SPECIFICATION Spec
CONSTANTS
    o1 = o1
    o2 = o2
    i1 = i1
    i2 = i2
    None = None
    Miss = Miss
    Ops <- MCOps
    TimeOps <- OneTimeOp
    Comparator <- GreaterOrEqual
    Threshold = 1
    Instances <- MCInstances
    Fetchers = {}
    Batch = 2
    Concurrency = 1
    ActionTimeout = 1
    StaleAfter = 3
    RequeueDelay = 1
    MissBackoff = 1
    MaxUsers = 1
    MaxDelay = 1
    MaxLate = 1
    MaxOverlap = 2
    MaxFaults = 1
SYMMETRY InstanceSymmetry
INVARIANTS
    ExclusiveExecution
    CanceledIsNotDone
    RepeatedOnlyIfUnsaved
PROPERTIES
    FinishedIsFinal
    ImplementsQueue
CHECK_DEADLOCK FALSE
