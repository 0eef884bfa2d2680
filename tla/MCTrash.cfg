SPECIFICATION TrashSpec
CONSTANTS
    NSlots = 2
    Dirs <- FirstIsDirectory
    Retain = 2
    NoFile = NoFile
    MaxCalls = 2  MaxOutside = 2  MaxFaults = 2  MaxTroubles = 3
INVARIANTS TrashTypeOK StageIsOwned ItemHasInfo
PROPERTIES NothingLost
