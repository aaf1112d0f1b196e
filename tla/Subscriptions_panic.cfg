SPECIFICATION Spec
CONSTANTS
  Instance = {i1, i2}
  Url = {"u1", "u2"}
  Value = {"a"}
  NewSubs <- Posts
  Patches <- RepeatedRemove
  Changes <- StateChange
  NoSub = NoSub
  QueueLength = 1
  MaxId = 2
  MaxRequests = 3
CHECK_DEADLOCK FALSE
INVARIANTS
  LockIsReleased
