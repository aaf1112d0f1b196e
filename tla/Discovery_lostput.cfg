SPECIFICATION Spec
CONSTANTS
  Endpoint = {x0}
  Instance = {h1, h2}
  Front = {h1}
  Named = {x0}
  Settings <- SomeSettings
  Patches <- SomePatches
  NoRow = NoRow
  MaxJobs = 2
  MaxRequests = 2
  MaxFaults = 0
CHECK_DEADLOCK FALSE
PROPERTIES
  UserFieldsKept
