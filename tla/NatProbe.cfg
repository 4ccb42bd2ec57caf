CONSTANTS
  Ips = {ipA, ipB}
  NoIp = none
  MaxStarts = 2
  MaxUnbound = 1
  MaxLate = 2
SPECIFICATION FairSpec
INVARIANTS
  TypeOK
  VerdictIsReal
  SymmetricIsSeen
  CleanVerdict
PROPERTIES
  RepliesFromOwnSockets
  ProbeEnds
CHECK_DEADLOCK FALSE
