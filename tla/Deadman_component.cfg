CONSTANTS
    MaxTier = 2
    StatesCap = 2
SPECIFICATION dmSpec
PROPERTIES
    PresenceSpec
    SignalEndsPause
