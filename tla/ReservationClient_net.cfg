SPECIFICATION FairSpec
CONSTANTS
  Component = {c1, c2}
  Key = {k1, k2}
  NoRes = NoRes
  Never = Never
  Caller = {a1}
  Renewer = Renewer
  Other = Other
  Missing = {c2}
  Term = 2
  Window = 1
  Timeout = 1
CHECK_DEADLOCK FALSE
INVARIANTS
  LocalExpiryConservative
  CheckIsSound
PROPERTIES
  StaleEntryPurged
