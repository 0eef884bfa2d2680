SPECIFICATION TrashLiveSpec
CONSTANTS
    NSlots = 3
    Dirs <- FirstIsDirectory
    Retain = 2
    NoFile = NoFile
    MaxCalls = 2  MaxOutside = 1  MaxFaults = 1  MaxTroubles = 2
PROPERTIES RecordsDrain
