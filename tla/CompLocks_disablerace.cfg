SPECIFICATION Spec
CONSTANTS
  Component = {c1}
  Key = {k1, k2}
  NoRes = NoRes
  Never = Never
  Handler = {h1, h2}
  Free = Free
  Requested = {"create", "remove", "lock", "unlock", "disable", "repair"}
  MaxTerm = 1
  MaxTime = 1
CHECK_DEADLOCK FALSE
INVARIANT NoReservationWhileDisabled
