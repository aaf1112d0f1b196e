SPECIFICATION Spec
CONSTANTS
  Component = {c1, c2}
  Key = {k1, k2}
  NoRes = NoRes
  Never = Never
  Handler = {h1, h2}
  Free = Free
  Requested = {"create", "lock", "disable"}
  MaxTerm = 1
  MaxTime = 1
SYMMETRY Interchangeable
CHECK_DEADLOCK FALSE
INVARIANTS
  ChecksHoldUntilCommit
  RigidCoversExisting
PROPERTY
  RefinesLease
