SPECIFICATION Spec
CONSTANTS
    Tasks <- NoPathTasks
    Answers <- MCAnswers
    Address <- MCAddress
    None = None
INVARIANTS
    PassesAreTrue
