SPECIFICATION FairSpec
CONSTANTS
  c1 = c1
  c2 = c2
  Component = {c1, c2}
  Tx = {t1, t2}
  Requests <- LateHeartbeat
  NoRequest = NoRequest
  MaxOpenConns = 2
  MaxRequests = 3
CHECK_DEADLOCK FALSE
PROPERTIES
  LegalTransition
