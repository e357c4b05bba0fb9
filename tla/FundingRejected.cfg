SPECIFICATION Spec
CONSTANTS
    Nodes = {"n1"}
    Orchestrator = "sp"
    BalancePerNode <- MCBalancePerNode
    MaxFunding <- MCMaxFunding
    MintTo = 9
    AllowanceMax = 9
    EtherMin = 1
    EtherFund = 2
    TokenMin <- MCTokenMin
    TokenMax <- MCTokenMax
    UdcEnabled <- MCUdcEnabled
    GivenFunding = 3
    Absent = Absent
    Malformed = Malformed
    PfsFee = 1
    UtilityStart = {0, 2}
    AllowanceStart = {0, 9}
    NodeEther = {0, 3}
    OwnEther = {1, 2}
    NodeDeposits = {0, 2}
    NodeTokens = {0}
    Rejected = {"eth", "mint", "approve", "deposit", "token"}
    Spent <- MCSpent
    EtherStart <- MCEtherStart
    DepositStart <- MCDepositStart
    TokenStart <- MCTokenStart
    MayFail <- MCMayFail
INVARIANTS
    TypeOK
    FundedUnlessLost
PROPERTIES
    SetupEnds
