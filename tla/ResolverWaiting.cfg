\* Two siblings whose get rules may answer IS_WAITING.
CONSTANTS
  r = r a = a b = b d = d v = v w = w
  Nodes <- FlatNodes
  Root = r
  Parent <- FlatParent
  InitialChildren <- FlatChildren
  HasGet <- AandB
  HasSet <- OnlyB
  GetGroup <- NoGroups
  SetGroup <- NoGroups
  Values <- OneValue
  Undef = Undef
  None = None
  Unset = Unset
  RetryCount = 2
  MaxWait = 1
  RetryWaits <- One
  BusyWait = 1
  GetFrames <- WaitingFrames
  SetFrames <- FinalFrames
  MayRefuse = FALSE
  Statuses <- BasicStatuses
  Pausable <- Nobody
  Listenable <- JustRoot
  Deletable <- Nobody
  MaxOutstanding = 1
  MaxCalls = 0
SPECIFICATION Spec
INVARIANT NoLostWork
CHECK_DEADLOCK FALSE
