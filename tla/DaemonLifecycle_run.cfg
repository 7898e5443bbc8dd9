CONSTANTS
    p1 = p1
    p2 = p2
    None = None
    Processes <- TwoProcesses
    MaxKills = 1
    MaxClosers = 2
SPECIFICATION FairSpec
INVARIANTS
    OneRecorder
    ServingIsFound
    CleanExit
PROPERTIES
    QuitEnds
    LaunchServes
CHECK_DEADLOCK FALSE
