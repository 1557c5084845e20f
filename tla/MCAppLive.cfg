CONSTANTS
    n1 = n1
    n2 = n2
    k1 = k1
    k2 = k2
    k3 = k3
    s1 = s1
    s2 = s2
    Identities = {n1, n2}
    Indexes <- OneIndex
    Keys = {k1}
    Totals <- MCTotals
    Clients = {c1, c2}
    Storages = {s1}
    StorageOf <- OneStorage
    Albums = {}
    Editions <- ShortEditions
    Configs <- AllConfigs
    Modes <- RestoreMode
    BatchSize = 2
    SweepTicks = TRUE
    MaxOps = 4
    Signals = {"term", "kill"}
    MaxStops = 1
SPECIFICATION FairSpec
PROPERTIES
    QueuedIsTaken
    BegunEndsWhileUp
    DeletedIsSwept
