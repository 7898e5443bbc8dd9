CONSTANTS
    MaxTier = 0
    StatesCap = 2
    MaxEvents = 3
    QueueCap = 1
    LockStates <- LockAndUnlock
    MaxFailures = 1
    MaxRestarts = 1
SPECIFICATION FairSpec
INVARIANTS
    OpenPaidByFailures
PROPERTIES
    EndsNewest
    FocusChangeResumes
