CONSTANTS
    Identities = {n1, n2}
    Indexes <- MCIndexes
    Keys = {k1}
    Totals <- MCTotals
    Blank = blank
    Capacity <- MCCapacity
    Errors <- MCErrors
    Readable <- MCReadable
SYMMETRY Symmetry
CONSTRAINT OneWithReaderOrTwo
SPECIFICATION StoresSpec
INVARIANTS
    DocsTypeOK
    DoneCountsPages
    IdentityUnique
    PurgedIsEmpty
    MemTypeOK
    StoresAgree
PROPERTIES
    IdsPermanent
    HiddenFrozen
    SnapshotsKeepPages
    MemImplements
    SqlImplements
