CONSTANTS
  Callers = {app}
  Logger = logger
  QueueCap = 1
  MaxMsgs = 4
  MaxFails = 1
  MaxSpurious = 1
SPECIFICATION Spec
INVARIANTS
  TypeOK
  MutualExclusion
  InOrder
  JoinDrains
PROPERTIES
  EventuallyTried
  StopReturnsOrStarves
CHECK_DEADLOCK FALSE
