SPECIFICATION Spec
CONSTANTS
    j1 = j1
    j2 = j2
    i1 = i1
    i2 = i2
    u1 = u1
    None = None
    Jobs <- MCJobs
    Instances <- MCInstances
    Users <- MCUsers
    CreatedBy <- AllCreatedByUser
    Batch = 2
    Concurrency = 1
    ActionTimeout = 2
    StaleAfter = 3
    MaxClaims = 2
    MaxFaults = 0
SYMMETRY InstanceSymmetry
INVARIANT ExclusiveExecution
CHECK_DEADLOCK FALSE
