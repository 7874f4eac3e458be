CONSTANTS
    u1 = u1
    u2 = u2
    t1 = t1
    r1 = r1
    r2 = r2
    SystemUser = SystemUser
    None = None
    Ids <- TwoIds
    Tokens <- OneToken
    Requests <- TwoRequests
    MaxRequests = 4
    MaxFaults = 1
SPECIFICATION Spec
SYMMETRY Symmetry
INVARIANTS
    TokenRegistersOnce
    EveryUserHasGroup
    LastMemberStays
CHECK_DEADLOCK FALSE
