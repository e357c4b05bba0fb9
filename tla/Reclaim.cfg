SPECIFICATION Spec
CONSTANTS
    Dirs = {"node_000", "node_001", "node_002", "snapshot_000"}
    Accounts = {"a", "b", "c"}
    Account <- MCAccount
    Channels = {"ab", "bc"}
    Ends <- MCEnds
    GasCost = 3
    TxCost = 1
    EthStart <- MCEthStart
    DepositStart <- MCDepositStart
    TokenStart <- MCTokenStart
    CapacityStart <- MCCapacityStart
    MaxCalls = 2
    MaxCrashes = 1
INVARIANTS
    TypeOK
    SuccessDrains
    MarkedDrained
    LeftoversWarned
