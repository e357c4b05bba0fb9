SPECIFICATION Spec
CONSTANTS
    Runs = {1, 2, 3, 4, 5}
    Scenarios = {"fresh", "reused"}
    Scenario <- MCScenario
    ReuseAccounts <- MCReuseAccounts
    ReuseToken <- MCReuseToken
    Absent = Absent
    Malformed = Malformed
    PfsFee = 1
    Count = 2
    Hash <- MCHash
    Transfers = 2
    RunBase = 10
    CountBase = 10
    Overlapping = FALSE
    MaxCrashes = 1
    Missing = Missing
    Empty = Empty
INVARIANTS
    TypeOK
    NumbersFresh
    IdentifiersUnique
    TokenAgreed
    FailuresNeedCrash
PROPERTIES
    AccountsKept
