\* Two topics, one covering the other; nothing is unsubscribed or unretained.
CONSTANTS
  x = x y = y p = p v = v w = w f = f g = g
  Topics <- TwoTopics
  Values <- TwoValues
  Empty = Empty
  Callbacks <- TwoCallbacks
  Covers <- XCoversY
  Prefixes <- Nothing
  StartingWith <- NoPrefix
  Patterns <- Nothing
  Unsubscribers <- Nothing
  Rejected <- Nothing
  MaxCalls = 3
  MaxFailures = 1
SPECIFICATION Spec
INVARIANTS RetainedServed SubscriptionsServed
CHECK_DEADLOCK FALSE
