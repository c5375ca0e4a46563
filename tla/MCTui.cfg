CONSTANTS
    f1 = f1
    f2 = f2
    Files = {f1, f2}
    asLoaded = asLoaded
    edited = edited
    Settings = {asLoaded, edited}
    NoSettings = asLoaded
    Commands = {"SetTime"}
    CommandReports <- MCCommandReports
    UploadReports = 2
    Keyboards = {"Ready", "NotFound", "PermissionDenied"}
    MaxGeneration = 3
    QueueBound = 2
SPECIFICATION Spec
INVARIANTS TypeOK OneJob ConfirmGate NoProbeDuringTransfer GaugeIsHonest PromptCoversNothingNew QuitLeavesMessage
PROPERTIES ConfirmOpensFromBrowser ConfirmLeftByKey ReplanKeepsChoices
