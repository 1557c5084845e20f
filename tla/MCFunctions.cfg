CONSTANTS
    Identities <- MCIdentities
    Indexes = {}
    Keys = {}
    Totals = {}
    Tables <- MCTables
    QueryInputs <- MCQueryInputs
    Configs <- MCConfigs
    Requests <- MCRequests
    Files <- MCFiles
    Scripts <- MCScripts
    Hashes <- MCHashes
    Images <- MCImages
SPECIFICATION PartsSpec
INVARIANTS
    QueriesAgree
    AccessAsConfigured
    ConfigMeansOneThing
    ShardAsScript
    RowsRearranged
CHECK_DEADLOCK FALSE
