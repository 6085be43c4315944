SPECIFICATION FairSpec
CONSTANTS
    c1 = c1
    NoWill = NoWill
    NoHandle = NoHandle
    Never = 99
    Clients <- MCOneClient
    MaxWills = 2
    Intervals <- MCIntervals
    Terms <- MCTerms
    MaxConnections = 2
    MaxConnects = 3
    MaxTime = 1
    MaxRestarts = 1
    Downtimes <- MCDowntimes
    DriverErrors = TRUE
INVARIANTS
    WillsConsistent
    NoLostWakeup
PROPERTIES
    WillsFollowLifecycle
    EveryDueWillPublished
CHECK_DEADLOCK FALSE
