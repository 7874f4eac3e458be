SPECIFICATION FairSpec
CONSTANTS
    h1 = h1
    h2 = h2
    None = None
    Miss = Miss
    Hosts <- OneHost
    MaxEvents = 4
    MaxUsers = 1
    MaxEvicted = 1
    MaxFaults = 1
INVARIANTS
    CountIsLive
PROPERTY EndIsNoticed
CHECK_DEADLOCK FALSE
