\* One topic and a payload that the library refuses; connections fail and are lost.
CONSTANTS
  x = x y = y p = p v = v w = w f = f g = g
  Topics <- OneTopic
  Values <- TwoValues
  Empty = Empty
  Callbacks <- OneCallback
  Covers <- NoPairs
  Prefixes <- JustP
  StartingWith <- PStartsX
  Patterns <- OnlyX
  Unsubscribers <- OneCallback
  Rejected <- OnlyW
  MaxCalls = 3
  MaxFailures = 2
SPECIFICATION FairSpec
INVARIANTS TypeOK QueuesServed OneAttempt NeverIgnored ConnectedFlag
PROPERTY Recovers
CHECK_DEADLOCK FALSE
