SPECIFICATION Spec
CONSTANTS
    Nodes = {"n1", "n2"}
    Orchestrator = "sp"
    BalancePerNode <- MCBalancePerNode
    MaxFunding <- MCMaxFunding
    MintTo = 9
    AllowanceMax = 9
    EtherMin = 1
    EtherFund = 2
    TokenMin <- MCTokenMin
    TokenMax <- MCTokenMax
    UdcEnabled <- MCUdcEnabled
    GivenFunding = Absent
    Absent = Absent
    Malformed = Malformed
    PfsFee = 1
    UtilityStart = {1, 4}
    AllowanceStart = {1}
    NodeEther = {0}
    OwnEther = {4}
    NodeDeposits = {1}
    NodeTokens = {0}
    Rejected = {"token"}
    Spent <- MCSpent
    EtherStart <- MCEtherStart
    DepositStart <- MCDepositStart
    TokenStart <- MCTokenStart
    MayFail <- MCMayFail
INVARIANTS
    DepositsCovered
PROPERTIES
    NoOverfunding
