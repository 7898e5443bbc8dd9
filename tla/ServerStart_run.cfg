CONSTANTS
    s1 = s1
    s2 = s2
    Servers <- TwoServers
    Latest = 4
    Deployments <- Situations
    MaxFaults = 2
    MaxSecrets = 5
SPECIFICATION FairSpec
INVARIANTS
    RecordedIsApplied
    UpIsComplete
    SecretIsKept
PROPERTIES EventuallyUp
CHECK_DEADLOCK FALSE
