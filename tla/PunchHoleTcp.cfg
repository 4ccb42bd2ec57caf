CONSTANTS
  Devices = {p, q, t}
  Target = t
  None = none
  Retry = 3
  MaxFaults = 1
  Failing = {p, t}
SPECIFICATION FairSpec
INVARIANTS
  TypeOK
  ServerSurvives
  OneConnection
PROPERTIES
  AskersReturn
  ThreadsEnd
  EveryAskerServed
CHECK_DEADLOCK FALSE
