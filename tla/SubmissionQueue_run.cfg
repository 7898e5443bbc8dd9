CONSTANTS
    Submissions <- TwoSubmissions
    BackoffSchedule <- ShortSchedule
    HourlyBackoff = 2
    MaxLost = 1
SPECIFICATION FairSpec
INVARIANTS
    ConfirmedIsStored
    AtMostOncePlusLosses
    ListingStaysCurrent
PROPERTIES
    DeliverySpec
    BackoffRespected
    EventuallyConfirmed
