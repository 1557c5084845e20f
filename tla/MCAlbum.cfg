CONSTANTS
    n1 = n1
    n2 = n2
    k1 = k1
    k2 = k2
    k3 = k3
    s1 = s1
    s2 = s2
    Identities = {n1}
    Indexes <- MCIndexes
    Keys = {k1, k2, k3}
    Totals <- MCTotals
    Clients = {c1, c2}
    Storages = {s1}
    StorageOf <- OneStorage
    Albums = {n1}
    Editions <- AllEditions
    Configs <- AllConfigs
    Modes <- AllModes
    BatchSize = 1
    SweepTicks = TRUE
    MaxOps = 1
    Signals = {"term", "kill"}
    MaxStops = 0
SPECIFICATION Spec
INVARIANTS
    ArchivedHasPages
