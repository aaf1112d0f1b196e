SPECIFICATION FairSpec
CONSTANTS
  Instance = {i1, i2}
  Url = {"u1", "u2"}
  Value = {"a"}
  NewSubs <- Posts
  Patches <- AllPatches
  Changes <- StateChange
  NoSub = NoSub
  QueueLength = 1
  MaxId = 2
  MaxRequests = 3
CHECK_DEADLOCK FALSE
INVARIANTS
  MapIsCurrent
PROPERTIES
  CopiesConverge
  SubscriberHears
