CONSTANTS
    MaxAttempts = 7
    InitialDelay = 1
    MaxDelay = 30
    MaxSessions = 3

SPECIFICATION Spec

INVARIANT TypeOK
INVARIANT UsableHandleIsClosable
INVARIANT BackoffSchedule
PROPERTY NoSilentReplacement
