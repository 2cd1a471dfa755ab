CONSTANTS
    Callers = {c1, c2}
    Keys = {home, away}
    TTL = 1
    MaxTime = 2
    MaxRetries = 2
    InitialWait = 2
    MaxWait = 3

SPECIFICATION FairSpec

INVARIANT TypeOK
INVARIANT SingleRequestPerPlace
INVARIANT WaitsFollowSchedule
PROPERTY EveryCallEnds
