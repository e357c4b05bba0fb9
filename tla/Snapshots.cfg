SPECIFICATION Spec
CONSTANTS
    Count = 3
    MaxRuns = 4
    MaxCrashes = 2
    Startable = {1, 2}
    Missing = Missing
    Absent = Absent
    Malformed = Malformed
    PfsFee = 1
INVARIANTS
    TypeOK
    RestoredTogether
    CopyWhileStopped
    RefusedNeedsCrash
PROPERTIES
    SnapshotFrozen
