SPECIFICATION TrashLiveSpec
CONSTANTS
    NSlots = 2
    Dirs <- FirstIsDirectory
    Retain = 2
    NoFile = NoFile
    MaxCalls = 1  MaxOutside = 2  MaxFaults = 1  MaxTroubles = 3
PROPERTIES RecordsDrain
