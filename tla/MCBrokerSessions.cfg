SPECIFICATION BrokerSpec
CONSTANTS
    c1 = c1
    c2 = c2
    c3 = c3
    f = f
    Forever = Forever
    NoSession = NoSession
    NoHandle = NoHandle
    NoOwner = NoOwner
    Never = 99
    Clients <- MCClients
    Filters <- MCFilters
    MaxSessions = 2
    MaxRouteId = 3
    Intervals <- MCIntervals
    MaxConnections = 2
    MaxTime = 1
    MaxOpens = 3
    MaxRestarts = 1
    QoS2 = TRUE
    Downtimes <- MCDowntimes
INVARIANTS
    StoreConsistent
    OwnershipExact
    RouterFollowsSessions
SYMMETRY MCSymmetry
CHECK_DEADLOCK FALSE
