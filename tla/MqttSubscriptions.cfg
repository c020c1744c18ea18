\* Two topics that are subscribed to and unsubscribed from; no failures.
CONSTANTS
  x = x y = y p = p v = v w = w f = f g = g
  Topics <- TwoTopics
  Values <- Nothing
  Empty = Empty
  Callbacks <- OneCallback
  Covers <- NoPairs
  Prefixes <- Nothing
  StartingWith <- NoPrefix
  Patterns <- Nothing
  Unsubscribers <- OneCallback
  Rejected <- Nothing
  MaxCalls = 5
  MaxFailures = 0
SPECIFICATION Spec
INVARIANT CallbacksReached
CHECK_DEADLOCK FALSE
