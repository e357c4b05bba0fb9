SPECIFICATION Spec
CONSTANTS
    Scenario <- RequestTree
    Limit = NoLimit
    TimedTasks = {"pay"}
    NoLimit = NoLimit
    Tasks <- MCTasks
    Root = "root"
    Kind <- MCKind
    Children <- MCChildren
    Concurrency <- MCConcurrency
    Timed <- TimedTasks
    Nodes = {"node0"}
    Target <- MCTarget
INVARIANTS
    TimeoutFailsRequest
