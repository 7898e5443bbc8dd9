CONSTANTS
    Channels <- FourChannels
    WorkTicks = 2
    BreakTicks = 1
SPECIFICATION FairSpec
INVARIANTS
    StopChOpen
    PhaseHasGoroutine
    NoOrphan
PROPERTIES SessionEnds
