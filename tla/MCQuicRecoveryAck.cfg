SPECIFICATION RecoverySpec
CONSTANTS
  Payloads = {p1, p2}
  MaxPacketNumber = 3
  MaxAcks = 2
  MaxRanges = 2
  PacketThreshold = 1
  CompactThreshold = 2
  MaxDatagramSize = 1
  InitialWindowCap = 3
  PersistentSpan = 0
  InitialPolicy <- MCInitialPolicy
  AckPolicies <- MCAckPolicies
  ReorderThreshold = 2
  MaxFailures = 1
  MaxPolicyChanges = 1
INVARIANTS
  HonestAckAccepted
CHECK_DEADLOCK FALSE
