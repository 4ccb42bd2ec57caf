CONSTANTS
  Devices = {p, q, t}
  Target = t
  Server = server
  NoAddr = none
  MaxFaults = 1
  Failing = {p, t}
SPECIFICATION FairSpec
INVARIANTS
  TypeOK
  AddressProvenance
  LookupFinds
PROPERTIES
  RendezvousWorks
CHECK_DEADLOCK FALSE
