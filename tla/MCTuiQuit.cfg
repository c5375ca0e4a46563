CONSTANTS
    f1 = f1
    Files = {f1}
    asLoaded = asLoaded
    edited = edited
    Settings = {asLoaded, edited}
    NoSettings = asLoaded
    Commands = {"SetTime"}
    CommandReports <- MCCommandReports
    UploadReports = 2
    Keyboards = {"Ready", "NotFound", "PermissionDenied"}
    MaxGeneration = 3
    QueueBound = 2
SPECIFICATION Spec
INVARIANT NoSilentQuit
