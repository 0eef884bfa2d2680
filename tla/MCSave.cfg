SPECIFICATION Spec
CONSTANTS
    t0 = t0  t1 = t1  b0 = b0  b1 = b1
    NoFile = NoFile  Torn = Torn  Corrupt = Corrupt
    NoJob = NoJob  NoLibrary = NoLibrary
    Text <- MCText  NoText = t0  Bytes <- MCBytes
    Ops = {"save"}
    Installed <- FirstStart
    MaxRevision = 4
    MaxAttachment = 0
    MaxFaults = 2  MaxReadFaults = 1  MaxKills = 1  MaxPowerLosses = 2
    MaxDecays = 1  MaxDiscards = 1
INVARIANTS TypeOK AtRestIsDurable Recoverable
PROPERTIES SettledNeverLost BackupStandsIn ImplementsAccepted
