CONSTANTS
  cmm = cmm
  slot = slot
  bmc = bmc
  n0 = n0
  n1 = n1
  u0 = u0
  u1 = u1
  u2 = u2
  Endpoint = {bmc}
  Cep <- NodeRows
  EpOf <- Controllers
  UriOf <- Uris
  TypeOf <- Types
  BmcsOf <- Inside
  FlavourOf <- Foxconn
  FirstNode <- First
  Worker = {w1}
  NoEvent = NoEvent
  QueueSize = 1
  MaxSwitches = 2
  MaxStores = 1
  MaxFaults = 0
SPECIFICATION RfSpec
CHECK_DEADLOCK FALSE
PROPERTIES OnlyItsOwn
