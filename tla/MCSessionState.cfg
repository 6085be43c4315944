SPECIFICATION Spec
CONSTANTS
    a = a
    b = b
    Messages <- MCMessages
    QoS2Messages <- MCQoS2Messages
    MaxQueued = 2
    MaxInflight = 2
    MaxPacketId = 3
    ReceiveMaximums <- MCReceiveMaximums
    NoMessage = NoMessage
    NoEntry = NoEntry
    NoSlot = NoSlot
INVARIANTS
    SessionConsistent
PROPERTIES
    PubRelNeverForgotten
