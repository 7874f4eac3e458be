SPECIFICATION FairSpec
CONSTANTS
    w1 = w1
    Worlds <- OneWorld
    PreReleases = {}
    MaxAttempts = 2
    MaxImage = 1
    MaxUsers = 1
    MaxJoins = 1
    MaxEvents = 1
    MaxFaults = 1
INVARIANTS
    StopIsVerified
    RestartIsExclusive
    QuietRestartCutsNobody
PROPERTIES
    WorldsComeBack
    DrainEnds
CHECK_DEADLOCK FALSE
