CONSTANTS
  n1 = n1
  p1 = p1
  Handler = {h1, h2}
  Node = {n1}
  Part = {p1}
  NodeOf <- BelowN1
  Fru = {f1, f2}
  Service = {s1}
  Vacant = Vacant
  Absent = Absent
  MaxRequests = 0
  MaxFaults = 1
  Client = {h1, h2}
  Mac = {m1}
  Ip = {i1, i2}
  Network = {w1}
  Component = {n1, c2}
  NoRow = NoRow
  Keep = Keep
  IpPatches = {Keep}
  MaxCalls = 4
SPECIFICATION Spec
CHECK_DEADLOCK FALSE
PROPERTY PatchKeepsAddresses
