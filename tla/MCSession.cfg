SPECIFICATION SessionLiveSpec
CONSTANTS
    Burst = 2
    MaxCrashes = 3
    MaxEvents = 2
INVARIANTS
    SessionTypeOK
    AwakeIsGuarded
PROPERTIES
    RequestLocks
    LockedHasALocker
    RequestEndsLocked
CHECK_DEADLOCK FALSE
