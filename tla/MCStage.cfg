SPECIFICATION Spec
CONSTANTS
    t0 = t0  t1 = t1  b0 = b0  b1 = b1
    NoFile = NoFile  Torn = Torn  Corrupt = Corrupt
    NoJob = NoJob  NoLibrary = NoLibrary
    Text <- MCText  NoText = t0  Bytes <- MCBytes
    Ops = {"import", "bundle", "rewrite", "purge", "orphan"}
    Installed <- OneAttachment
    MaxRevision = 3
    MaxAttachment = 2
    MaxFaults = 1  MaxReadFaults = 0  MaxKills = 1  MaxPowerLosses = 2
    MaxDecays = 0  MaxDiscards = 0
INVARIANTS NoDanglingAttachment NoLeftovers IntentHasAuthority
    BackupKeepsItsBytes
