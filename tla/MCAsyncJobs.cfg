SPECIFICATION FairSpec
CONSTANTS
    j1 = j1
    j2 = j2
    i1 = i1
    i2 = i2
    u1 = u1
    None = None
    Jobs <- MCJobs
    Instances <- MCInstances
    Users <- MCUsers
    CreatedBy <- MCCreatedBy
    Batch = 2
    Concurrency = 2
    ActionTimeout = 1
    StaleAfter = 2
    MaxClaims = 2
    MaxFaults = 1
INVARIANTS
    ExclusiveExecution
    HeldClaimHasWorker
    RepeatedOnlyIfUnsaved
    SuccessIsReal
PROPERTIES
    FinishedIsFinal
    ImplementsQueue
    EveryJobSettles
    OutcomeIsPublished
CHECK_DEADLOCK FALSE
