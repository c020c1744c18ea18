CONSTANTS
  u1 = u1
  u2 = u2
  g1 = g1
  g2 = g2
  i1 = i1
  p1 = p1
  v1 = v1
  v2 = v2
  Unids <- TwoUnids
  GroupIds <- TwoGroups
  Uiids <- OneImage
  Paths <- OnePath
  Values <- TwoValues
  None = None
  Null = Null
  Topics <- SomeTopics
  MaxPublished = 4
  MaxLost = 1
SPECIFICATION Spec
SYMMETRY AnyValues
INVARIANTS TypeOK Complete NeverStale NoHollowGroup
PROPERTIES MirrorSpec
CHECK_DEADLOCK FALSE
