CONSTANTS
  cmm = cmm
  slot = slot
  bmc = bmc
  n0 = n0
  n1 = n1
  u0 = u0
  u1 = u1
  u2 = u2
  Endpoint = {cmm, bmc}
  Cep <- SomeRows
  EpOf <- Controllers
  UriOf <- Uris
  TypeOf <- Types
  BmcsOf <- Inside
  FlavourOf <- Gigabyte
  FirstNode <- First
  Worker = {w1, w2}
  NoEvent = NoEvent
  QueueSize = 1
  MaxSwitches = 2
  MaxStores = 2
  MaxFaults = 1
SPECIFICATION RfSpec
CHECK_DEADLOCK FALSE
INVARIANTS StateFollowsPower
PROPERTIES LookupFindsPresent OnlyItsOwn JobsEnd
