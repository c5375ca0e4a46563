CONSTANTS
    Before = 1
    Refusals = {"raw", "enter", "leave", "draw"}
    MaxPanics = 2
    Requests <- MCRequests
    Names = {1, 2}
    Buses <- MCBuses
    Reports = 2
    GifMaxFrames = 160
    FpsMin = 1
    FpsMax = 60
    DayLength = 2
    Midnights = 2
SPECIFICATION Spec
INVARIANTS TypeOK DrawsOnItsOwnScreen LeftAsFound LastWordsAreReadable
    HalfDoneIsAdmitted StatusIsTrue OnlyTheConfigChannel ClockHasShownIt
