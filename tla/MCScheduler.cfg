CONSTANTS
    Tasks = {t1, t2, t3}
    InitialConcurrency = 2
    MaxConcurrency = 3
    InitialBackoff = 1
    MaxBackoff = 3
    MaxAttempts = 2
    RetryAfters <- MCRetryAfters
SPECIFICATION FairSpec
INVARIANTS
    TypeOK
    WindowOpen
    CurrentWithinLimit
    BlockedQuiet
    NoLostWakeup
PROPERTIES
    OncePerGeneration
    EveryDoReturns
CHECK_DEADLOCK FALSE
