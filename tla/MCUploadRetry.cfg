CONSTANTS
    PictureBytes = 10
    BlockBytes = 5
    BulkChunk = 3
    SlowEvery = 2
    DrainMax = 2
    Patience = 2
    Faults = {}
    AirBound = 2
    Plans <- MCUploads
    MaxSessions = 2
SPECIFICATION Spec
INVARIANT ProgressIsConfirmed
