SPECIFICATION BrokerSpec
CONSTANTS
    c1 = c1
    c2 = c2
    c3 = c3
    f = f
    Forever = Forever
    NoSession = NoSession
    NoHandle = NoHandle
    NoOwner = NoOwner
    Never = 99
    Clients <- MCOneClient
    Filters <- MCFilters
    MaxSessions = 1
    MaxRouteId = 3
    Intervals <- MCIntervals
    MaxConnections = 2
    MaxTime = 2
    MaxOpens = 3
    MaxRestarts = 1
    QoS2 = TRUE
    Downtimes <- MCDowntimes
PROPERTIES
    ResumedSessionSurvivesAbort
CHECK_DEADLOCK FALSE
