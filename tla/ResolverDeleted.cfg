\* Two siblings, one of which may be deleted while the scan is under way.
CONSTANTS
  r = r a = a b = b d = d v = v w = w
  Nodes <- FlatNodes
  Root = r
  Parent <- FlatParent
  InitialChildren <- FlatChildren
  HasGet <- AandB
  HasSet <- OnlyB
  GetGroup <- NoGroups
  SetGroup <- NoGroups
  Values <- OneValue
  Undef = Undef
  None = None
  Unset = Unset
  RetryCount = 2
  MaxWait = 1
  RetryWaits <- One
  BusyWait = 1
  GetFrames <- FinalFrames
  SetFrames <- FinalFrames
  MayRefuse = FALSE
  Statuses <- BasicStatuses
  Pausable <- Nobody
  Listenable <- JustRoot
  Deletable <- OnlyA
  MaxOutstanding = 1
  MaxCalls = 1
SPECIFICATION Spec
INVARIANT NoLostWork
CHECK_DEADLOCK FALSE
