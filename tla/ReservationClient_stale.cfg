SPECIFICATION FairSpec
CONSTANTS
  Component = {c1}
  Key = {k1, k2}
  NoRes = NoRes
  Never = Never
  Caller = {a1}
  Renewer = Renewer
  Other = Other
  Missing = {}
  Term = 2
  Window = 1
  Timeout = 1
CHECK_DEADLOCK FALSE
PROPERTIES
  HeldStaysTracked
