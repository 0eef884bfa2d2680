SPECIFICATION SafeModeSpec
CONSTANTS
    bar = bar  dock = dock
    NoFile = NoFile  Torn = Torn  Invalid = Invalid  None = None
    Units = {bar, dock}
    Essential = {bar}
    MaxLogins = 2
    MaxFailures = 2
    MaxLeaves = 1
    MaxTroubles = 2
INVARIANTS
    SafeModeTypeOK
PROPERTIES
    OneSafeLogin
    ClearedStaysCleared
    FailureIsAnswered
CHECK_DEADLOCK FALSE
