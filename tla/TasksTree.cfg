SPECIFICATION Spec
CONSTANTS
    Scenario <- FullTree
    Limit = NoLimit
    TimedTasks = {"early", "check"}
    NoLimit = NoLimit
    Tasks <- MCTasks
    Root = "root"
    Kind <- MCKind
    Children <- MCChildren
    Concurrency <- MCConcurrency
    Timed <- TimedTasks
    Nodes = {"node0"}
    Target <- MCTarget
INVARIANTS
    TypeOK
    StructuredConcurrency
    SerialIsolation
    SuccessIsComplete
    OneBlockedFrame
    AssertionReported
PROPERTIES
    TreeSpec
    Termination
    ErrorsSurface
