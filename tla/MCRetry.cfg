SPECIFICATION LiveSpec
CONSTANTS
    t0 = t0  t1 = t1  b0 = b0  b1 = b1
    NoFile = NoFile  Torn = Torn  Corrupt = Corrupt
    NoJob = NoJob  NoLibrary = NoLibrary
    Text <- MCText  NoText = t0  Bytes <- MCBytes
    Ops = {"save", "purge", "rewrite"}
    Installed <- OneAttachment
    MaxRevision = 3
    MaxAttachment = 1
    MaxFaults = 2  MaxReadFaults = 0  MaxKills = 1  MaxPowerLosses = 0
    MaxDecays = 0  MaxDiscards = 0
PROPERTIES PendingResolves StartsWritable
