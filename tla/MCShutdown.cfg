CONSTANTS
    n1 = n1
    n2 = n2
    k1 = k1
    k2 = k2
    k3 = k3
    s1 = s1
    s2 = s2
    Identities = {n1}
    Indexes <- OneIndex
    Keys = {k1}
    Totals <- MCTotals
    Clients = {c1, c2}
    Storages = {s1}
    StorageOf <- OneStorage
    Albums = {}
    Editions <- ShortEditions
    Configs <- AllConfigs
    Modes <- AllModes
    BatchSize = 1
    SweepTicks = TRUE
    MaxOps = 1
    Signals = {"term"}
    MaxStops = 1
SPECIFICATION FairSpec
PROPERTIES
    BegunEnds
