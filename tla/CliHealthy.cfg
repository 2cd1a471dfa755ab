CONSTANTS
    MaxAttempts = 2
    InitialDelay = 1
    MaxDelay = 2
    MaxSessions = 1
    MinCelsius = 1
    MaxCelsius = 3
    Lowest = 0
    Highest = 5
    Bases = {2, 4}
    Variation = 0
    MaxMessages = 1
    Timeout = 3
    Interval = 2
    RequestLimit = 1
    Lateness = 1
    Conns = {k1}

SPECIFICATION Spec

PROPERTY HealthyMeansConnected
