CONSTANTS
    r1 = r1
    r2 = r2
    Requests <- TwoRequests
    MaxBoxes = 3
    MaxRequests = 2
    MaxEvents = 3
    MaxFaults = 1
SPECIFICATION Spec
SYMMETRY RequestSymmetry
INVARIANTS
    InstanceIsUnique
    NoStartOrphan
    StatusAgrees
    StopEndsExited
CHECK_DEADLOCK FALSE
