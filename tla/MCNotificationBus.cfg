SPECIFICATION FairSpec
CONSTANTS
    p1 = p1
    p2 = p2
    s1 = s1
    u1 = u1
    u2 = u2
    All = All
    None = None
    Publishers <- TwoPublishers
    Streams <- OneStream
    Users <- TwoUsers
    UserOf <- OneUserOf
    Capacity = 1
    MaxEvents = 2
INVARIANTS
    NoSendOnClosed
PROPERTIES
    PublishReaches
    PublishReturns
    CleanupFinishes
CHECK_DEADLOCK FALSE
