SPECIFICATION HarnessSpec
CONSTANTS
  NoWill = NoWill
  NoRoute = NoRoute
  NoGroup = NoGroup
  AssignedIds = {"auto-1", "auto-2", "auto-3"}
INVARIANT VectorsPass
PROPERTY VectorsFinish
