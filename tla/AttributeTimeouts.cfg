CONSTANTS
  n1 = n1
  n2 = n2
  f1 = f1
  f2 = f2
  Nodes <- TwoNodes
  Callbacks <- TwoCallbacks
  Durations <- SomeDurations
  MaxClock = 4
  MaxCalls = 3
SPECIFICATION FairSpec
INVARIANTS TypeOK OnlyOne NextInTime ForgottenMeansSlipped
PROPERTIES Served PromiseButForZero
CHECK_DEADLOCK FALSE
