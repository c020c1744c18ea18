\* Two siblings that stay: retries, sets and listeners come to an end.
CONSTANTS
  r = r a = a b = b d = d v = v w = w
  Nodes <- FlatNodes
  Root = r
  Parent <- FlatParent
  InitialChildren <- FlatChildren
  HasGet <- AandB
  HasSet <- OnlyB
  GetGroup <- NoGroups
  SetGroup <- NoGroups
  Values <- TwoValues
  Undef = Undef
  None = None
  Unset = Unset
  RetryCount = 2
  MaxWait = 1
  RetryWaits <- One
  BusyWait = 1
  GetFrames <- FinalFrames
  SetFrames <- FinalFrames
  MayRefuse = FALSE
  Statuses <- BasicStatuses
  Pausable <- Nobody
  Listenable <- JustRoot
  Deletable <- Nobody
  MaxOutstanding = 1
  MaxCalls = 2
SPECIFICATION FairSpec
PROPERTIES Settles GetConcludes
INVARIANTS NoLostWork NoLostListener
CHECK_DEADLOCK FALSE
