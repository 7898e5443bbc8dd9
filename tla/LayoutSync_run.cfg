CONSTANTS
    N = 2
    Bucket <- TwoBuckets
    Hour <- OneHour
    BatchSize = 2
    BodyCap = 2
SPECIFICATION FairSpec
INVARIANTS
    SyncedIsIngested
    HistoryKept
PROPERTIES EventuallySynced
CHECK_DEADLOCK FALSE
