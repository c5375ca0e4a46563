CONSTANTS
    NoPlace = NoPlace
    Places <- MCPlaces
    ParentOf <- MCParentOf
    Homes <- MCHomes
    Locked = {"locked"}
    Catalogue <- MCCatalogue
    Steps = 1
    FpsMin = 1
    FpsMax = 3
    FpsDefault = 2
    MaxStored = 2
    Contents <- MCContents
    FirstDisk <- MCFirstDisk
    Editable <- MCEditable
    Unsteady <- MCUnsteady
    MaxGeneration = 3
SPECIFICATION Spec
INVARIANTS TypeOK  ScreenAgrees CursorOnListed
