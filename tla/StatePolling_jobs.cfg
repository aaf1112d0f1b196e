SPECIFICATION FairSpec
CONSTANTS
  Node = {n1}
  Instance = {i1, i2}
  Handler = {h1, h2}
  Job = {j1, j2}
  NoJob = NoJob
  Nowhere = Nowhere
  Updates <- HeartbeatUpdates
  Outages = FALSE
  MaxUpdates = 3
  MaxCrashes = 1
CHECK_DEADLOCK FALSE
INVARIANTS
  ListedIsRunning
  PolledOnce
PROPERTIES
  CancelEndsJob
  OrphansTakenOver
  LeavingStandbyStopsPolling
