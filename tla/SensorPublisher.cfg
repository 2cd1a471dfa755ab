CONSTANTS
    MaxAttempts = 3
    InitialDelay = 1
    MaxDelay = 3
    MaxSessions = 2
    MinCelsius <- MCMinCelsius
    MaxCelsius = 2
    Lowest <- MCLowest
    Highest = 4
    Bases <- MCBases
    Variation = 1

SPECIFICATION FairSpec

INVARIANT TypeOK
INVARIANT CycleFollowsScript
INVARIANT ClosedWhenDone
INVARIANT EndingIsJustified
PROPERTY DeliversThroughHeldSession
