CONSTANTS
    f1 = f1
    Files = {f1}
    asLoaded = asLoaded

    Settings = {asLoaded}
    NoSettings = asLoaded
    Commands = {"SetTime"}
    CommandReports <- MCCommandReports
    UploadReports = 2
    Keyboards = {"Ready", "NotFound"}
    MaxGeneration = 2
    QueueBound = 2
SPECIFICATION FairSpec
PROPERTY HeaderFindsKeyboardAgain
