CONSTANTS
    PictureBytes = 10
    BlockBytes = 5
    BulkChunk = 3
    SlowEvery = 2
    DrainMax = 2
    Patience = 2
    Faults = {"lose", "mute", "duplicate", "noise", "full", "io"}
    AirBound = 2
    Plans <- MCPlans
    MaxSessions = 1
SPECIFICATION FairSpec
INVARIANTS TypeOK OneInDoubt CancelIsPrompt FrameDoneIsWhole EndsOnTotal
PROPERTIES RestsAreKept ImplementsTransfer TransferEnds
