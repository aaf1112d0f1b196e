SPECIFICATION FairSpec
CONSTANTS
  c1 = c1
  c2 = c2
  Component = {c1, c2}
  Tx = {t1}
  Requests <- BulkToEmpty
  NoRequest = NoRequest
  MaxOpenConns = 2
  MaxRequests = 3
CHECK_DEADLOCK FALSE
PROPERTIES
  BeginSucceeds
