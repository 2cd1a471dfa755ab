CONSTANTS
    Callers = {c1, c2, c3}
    Keys = {k1, k2}
    TTL = 2
    MaxTime = 2

SPECIFICATION FairSpec

INVARIANT TypeOK
INVARIANT LockDiscipline
INVARIANT QueueDiscipline
INVARIANT ServedFresh
PROPERTY NoNeedlessFetch
PROPERTY EveryCallEnds
PROPERTY ImplementsSingleFlight
