SPECIFICATION RecoverySpec
CONSTANTS
  Payloads = {p1, p2}
  MaxPacketNumber = 4
  MaxAcks = 2
  MaxRanges = 2
  PacketThreshold = 2
  CompactThreshold = 2
  MaxDatagramSize = 1
  InitialWindowCap = 3
  PersistentSpan = 0
  InitialPolicy <- MCInitialPolicy
  AckPolicies <- MCAckPolicies
  ReorderThreshold = 2
  MaxFailures = 1
  MaxPolicyChanges = 1
SYMMETRY PayloadSymmetry
INVARIANTS
  SendStateExact
  ProcessedOnce
  AcksAreTrue
  NothingForgotten
  AckIsPending
CHECK_DEADLOCK FALSE
