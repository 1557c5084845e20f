CONSTANTS
    t1 = t1
    t2 = t2
    k1 = k1
    Tasks <- MCTasks
    KeyOf <- MCKeyOf
    ImageKeys <- MCImageKeys
    Domains = 2
    Tries = 2
    InitialConcurrency = 1
    MaxConcurrency = 2
    InitialBackoff = 1
    MaxBackoff = 2
    MaxAttempts = 2
    RetryAfters = {0}
SPECIFICATION MCFairSpec
INVARIANTS
    FirstErrorIsCause
    RecordedIsFinal
PROPERTIES
    HitomiImplements
    JmcomicImplements
    ArchiveContentReturns
CHECK_DEADLOCK FALSE
