SPECIFICATION StreamsSpec
CONSTANTS
    VarintMax = 12
    MaxBuffered = 6
    MaxStreamCount = 2
    InitialMaxStreams = 1
    InitialStreamLimit = 6
    StreamWindow = 6
    MaxStreamWindow = 6
    InitialConnLimit = 6
    ConnWindow = 6
    MaxConnWindow = 7
    WriteSizes = {3}
    MaxRead = 1
    Abandonable = {1}
    DataSizes <- MCDataSizes
INVARIANTS
    DeliveredInOrder
    CreditExact
    SenderNeverAhead
    CreditReturns
    OpenStreamsBounded
    HonestSenderAccepted
PROPERTIES
    LimitsOnlyGrow
CHECK_DEADLOCK FALSE
