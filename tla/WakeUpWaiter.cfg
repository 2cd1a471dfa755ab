CONSTANTS
    Timeout = 12
    Interval = 5
    RequestLimit = 4
    Lateness = 2

SPECIFICATION FairSpec

INVARIANT TypeOK
INVARIANT OverrunIsBounded
INVARIANT ResultIsEarned
PROPERTY RequestsAreSpaced
PROPERTY WaitEnds
