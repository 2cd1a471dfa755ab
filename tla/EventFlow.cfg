CONSTANTS
    MaxAttempts = 1
    InitialDelay = 1
    MaxDelay = 1
    MaxSessions = 1
    MinCelsius = 1
    MaxCelsius = 3
    Lowest = 0
    Highest = 4
    Bases = {1, 4}
    Variation = 0
    MaxReadings = 2
    PrefixLength = 3
    DeviceLength = 3

SPECIFICATION FairSpec

INVARIANT TypeOK
INVARIANT RoutesAreExact
INVARIANT CountedOnceInOrder
PROPERTY AlertGetsThrough
