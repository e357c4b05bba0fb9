SPECIFICATION Spec
CONSTANTS
    Tasks <- SettledTasks
    Answers <- AnswersBothOrders
    Address <- MCAddress
    None = None
INVARIANTS
    RejectionsAreTrue
