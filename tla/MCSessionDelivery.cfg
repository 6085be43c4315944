SPECIFICATION DeliverySpec
CONSTANTS
    a = a
    b = b
    c = c
    NoMessage = NoMessage
    NoEntry = NoEntry
    NoSlot = NoSlot
    NoPacket = NoPacket
    Messages <- MCMessages
    QoS2Messages <- MCQoS2Messages
    ReceiveMaximums <- MCReceiveMaximums
    Expirable <- MCJustA
    Oversizable <- MCAAndB
    Refusable <- MCJustC
    MaxQueued = 2
    MaxInflight = 2
    MaxPacketId = 2
    MaxLosses = 1
INVARIANTS
    ExactlyOnce
    CompletedMeansDelivered
    ReceiveMaximumRespected
PROPERTIES
    EveryMessageSettles
    RefinesExchange
CHECK_DEADLOCK FALSE
