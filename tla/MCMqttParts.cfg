SPECIFICATION PartsSpec
CONSTANTS
    Entries = {1, 2, 3, 4, 5, 6}
    MaxDeadline = 1
    Subscribers = {1, 2}
    Filters <- MCFilters
    Topics <- MCTopics
    SysLevels = {"$"}
    NoLocal <- MCNoLocal
    Strategies = {"round_robin", "rendezvous_hash"}
    MaxEntries = 3
    TrieWidth = 1
    Score <- MCScore
    NoShare = NoShare
    NoRoute = NoRoute
    NoGroup = NoGroup
    MqttTopics = {"t", "u"}
    Protocols = {"v5", "v3_1_1"}
    MqttMaxPacketId = 3
    AliasSlots = 2
    Windows = {1, 2}
    AliasMaximums = {1}
    MaxPublishes = 2
    MaxOnWire = 2
    MaxAuthRounds = 1
    NoTopic = NoTopic
    Clients = {1, 2}
    Durables = {2}
    MatchPlans <- MCMatchPlans
    MaxPublications = 3
    MaxLiveQueue = 2
    QueueCapacity = 3
    CompactAt = 2
    Window = 1
    MaxPending = 1
    MaxConnects = 1
    Base = 2
    MaxLengthBytes = 4
    MaxPacketSize = 14
    ProgressThreshold = 3
    Timeout = 3
    MaxClock = 9
CHECK_DEADLOCK FALSE
INVARIANTS
    HeapHolds
    RouterHolds
    PeersAgree
    PublicationRefsExact
    LiveFlow
    FramesExact
    TrickleBounded
PROPERTIES
    PollsEarliest
