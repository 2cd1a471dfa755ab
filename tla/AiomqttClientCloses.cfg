CONSTANTS
    MaxAttempts = 5
    InitialDelay = 1
    MaxDelay = 30
    MaxSessions = 3

SPECIFICATION Spec

PROPERTY DisconnectCloses
