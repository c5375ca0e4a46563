CONSTANTS
    PictureBytes = 10
    BlockBytes = 5
    BulkChunk = 3
    SlowEvery = 2
    DrainMax = 2
    Patience = 2
    Faults = {"duplicate"}
    AirBound = 2
    Plans <- MCPlans
    MaxSessions = 1
SPECIFICATION Spec
INVARIANT DuplicateIsDrained
