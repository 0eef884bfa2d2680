SPECIFICATION LiveSpec
CONSTANTS
    n1 = n1  n2 = n2  Notes <- TwoNotes
    NoFile = NoFile  Torn = Torn  Nothing = Nothing
    Acts = {"touch"}
    MaxEdits = 2  MaxActs = 1  MaxCopies = 0
    MaxFaults = 1  MaxKills = 0  MaxPowerLosses = 0  MaxEnds = 0  MaxDiscards = 0
PROPERTIES ShutdownFlushes
