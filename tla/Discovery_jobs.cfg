SPECIFICATION FairSpec
CONSTANTS
  Endpoint = {x0, x1}
  Instance = {h1, h2}
  Front = {h1}
  Named = {x0}
  Settings <- SomeSettings
  Patches <- SomePatches
  NoRow = NoRow
  MaxJobs = 2
  MaxRequests = 2
  MaxFaults = 1
CHECK_DEADLOCK FALSE
INVARIANTS
  StartedHasJob
  RunningIsFresh
PROPERTIES
  OrphansTakenOver
