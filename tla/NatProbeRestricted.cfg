CONSTANTS
  Ips = {ipA, ipB}
  NoIp = none
  MaxStarts = 1
  MaxUnbound = 0
  MaxLate = 1
SPECIFICATION Spec
INVARIANTS
  RestrictedIsReported
CHECK_DEADLOCK FALSE
