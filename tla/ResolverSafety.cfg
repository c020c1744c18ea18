\* A node with one child, and a second one that is created meanwhile.
CONSTANTS
  r = r a = a b = b d = d v = v w = w
  Nodes <- DeepNodes
  Root = r
  Parent <- DeepParent
  InitialChildren <- DeepChildren
  HasGet <- OnlyD
  HasSet <- BandD
  GetGroup <- NoGroups
  SetGroup <- AGroupOfSets
  Values <- OneValue
  Undef = Undef
  None = None
  Unset = Unset
  RetryCount = 2
  MaxWait = 1
  RetryWaits <- One
  BusyWait = 1
  GetFrames <- SomeGetFrames
  SetFrames <- MultiFrames
  MayRefuse = TRUE
  Statuses <- SomeStatuses
  Pausable <- RandA
  Listenable <- OnlyA
  Deletable <- BandD
  MaxOutstanding = 1
  MaxCalls = 3
SPECIFICATION Spec
INVARIANTS TypeOK WakeUp OneScan StackIsPath EngineConsistent
CHECK_DEADLOCK FALSE
