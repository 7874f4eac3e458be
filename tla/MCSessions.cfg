SPECIFICATION Spec
CONSTANTS
    r1 = r1
    r2 = r2
    r3 = r3
    Absent = Absent
    Miss = Miss
    Requests <- ThreeRequests
    Stamp = 2
    MaxVersion = 1
    MaxFaults = 1
SYMMETRY RequestSymmetry
INVARIANTS
    EndConverges
    RunningConverges
PROPERTY CreatorIsKept
CHECK_DEADLOCK FALSE
