CONSTANTS
    MaxTier = 0
    StatesCap = 2
    MaxEvents = 2
    QueueCap = 1
    LockStates <- NoLock
    MaxFailures = 0
    MaxRestarts = 0
SPECIFICATION Spec
INVARIANTS TrackingRecords
