SPECIFICATION FairSpec
CONSTANTS
  Node = {n1}
  Instance = {i1}
  Handler = {h1, h2}
  Job = {j1, j2}
  NoJob = NoJob
  Nowhere = Nowhere
  Updates <- HeartbeatUpdates
  Outages = FALSE
  MaxUpdates = 3
  MaxCrashes = 0
CHECK_DEADLOCK FALSE
PROPERTIES
  StandbyIsPolled
