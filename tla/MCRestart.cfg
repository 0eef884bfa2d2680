SPECIFICATION LiveSpec
CONSTANTS
    t0 = t0  t1 = t1  b0 = b0  b1 = b1
    NoFile = NoFile  Torn = Torn  Corrupt = Corrupt
    NoJob = NoJob  NoLibrary = NoLibrary
    Text <- MCText  NoText = t0  Bytes <- MCBytes
    Ops = {"save", "purge", "rewrite"}
    Installed <- OneAttachment
    MaxRevision = 3
    MaxAttachment = 1
    MaxFaults = 0  MaxReadFaults = 0  MaxKills = 0  MaxPowerLosses = 2
    MaxDecays = 0  MaxDiscards = 0
PROPERTIES StartsWritable
