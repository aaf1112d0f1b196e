SPECIFICATION FairSpec
CONSTANTS
  Client = {c1, c2}
  Component = {"x1", "x2"}
  Name = {"n1", "n2"}
  Posts <- SomePosts
  Patches <- SomePatches
  NoGroup = NoGroup
  MaxRequests = 3
CHECK_DEADLOCK FALSE
INVARIANTS
  Disjoint
  ViewsAgree
  AllOrNothing
PROPERTIES
  RequestsEnd
