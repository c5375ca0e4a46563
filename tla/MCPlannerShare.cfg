CONSTANTS
    PictureBytes = 10
    BlockBytes = 5
    BulkChunk = 3
    SlowEvery = 2
    Files <- MCFiles
    Asked <- MCAsked
    MaxStored = 5
    FpsMin = 1
    FpsMax = 60
    FpsDefault = 30
    Delays = {0, 10, 20, 100, 1000, 1500}
    Longest = 12
SPECIFICATION Spec
INVARIANT ShareIsTrue
