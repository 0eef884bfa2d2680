SPECIFICATION LiveSpec
CONSTANTS
    n1 = n1  n2 = n2  Notes <- TwoNotes
    NoFile = NoFile  Torn = Torn  Nothing = Nothing
    Acts = {"touch", "trash", "lock"}
    MaxEdits = 3  MaxActs = 1  MaxCopies = 1
    MaxFaults = 1  MaxKills = 1  MaxPowerLosses = 1  MaxEnds = 1  MaxDiscards = 1
INVARIANTS EditsTypeOK EditSurvives StaleNeverApplies LockedHasNoDraft ReviewMatchesDisk
PROPERTIES NewestWins EditSettles
