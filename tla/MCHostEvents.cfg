SPECIFICATION Spec
CONSTANTS
    h1 = h1
    h2 = h2
    None = None
    Miss = Miss
    Hosts <- TwoHosts
    MaxEvents = 5
    MaxUsers = 0
    MaxEvicted = 1
    MaxFaults = 1
SYMMETRY HostSymmetry
INVARIANTS
    RowConverges
    EndedAfterStart
    ResyncHeals
PROPERTY StartedNeverGoesBack
CHECK_DEADLOCK FALSE
