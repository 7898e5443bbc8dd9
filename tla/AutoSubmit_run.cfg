CONSTANTS
    Events <- TwoEvents
    Tags = {t1}
    Intervals <- Cadences
    MaxInterval = 2
    MaxManual = 1
SPECIFICATION FairSpec
INVARIANTS
    AutoNeverRepeats
PROPERTIES
    LastRunInCycle
    OnlyFinishedTagged
    EventuallySubmitted
