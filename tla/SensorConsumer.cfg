CONSTANTS
    MaxAttempts = 2
    InitialDelay = 1
    MaxDelay = 2
    MaxSessions = 1
    MaxMessages = 3

SPECIFICATION FairSpec

INVARIANT StatsMatchMessages
INVARIANT NothingLeftBehind
PROPERTY TotalsAreFinal
PROPERTY LossEndsIt
