SPECIFICATION Spec
CONSTANTS
    Scenario <- PoolTree
    Limit = 2
    TimedTasks = {}
    NoLimit = NoLimit
    Tasks <- MCTasks
    Root = "root"
    Kind <- MCKind
    Children <- MCChildren
    Concurrency <- MCConcurrency
    Timed <- TimedTasks
    Nodes = {"node0"}
    Target <- MCTarget
INVARIANTS
    VerdictHonest
