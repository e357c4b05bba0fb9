SPECIFICATION RunSpec
CONSTANTS
    Scenario <- RestartTree
    Limit = 1
    TimedTasks = {"root"}
    NoLimit = NoLimit
    ErrorCodes = {20}
    NotExited = NotExited
    Tasks <- MCTasks
    Root = "root"
    Kind <- MCKind
    Children <- MCChildren
    Concurrency <- MCConcurrency
    Timed <- TimedTasks
    Nodes = {"node0", "node1"}
    Target <- MCTarget
INVARIANTS
    RunTypeOK
    OneProcess
    OrphansExplained
    RunningCountExact
    ConcurrencyBound
PROPERTIES
    RunEnds
    PromiseKept
    NoWorkAfterTimeout
