SPECIFICATION Spec
CONSTANTS
    Tasks <- MCTasks
    Answers <- MCAnswers
    Address <- MCAddress
    None = None
INVARIANTS
    TypeOK
    PassesAreTrue
    RejectionsAreTrue
