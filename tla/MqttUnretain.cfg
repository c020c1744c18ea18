\* Two topics below one prefix; no failures.
CONSTANTS
  x = x y = y p = p v = v w = w f = f g = g
  Topics <- TwoTopics
  Values <- OneValue
  Empty = Empty
  Callbacks <- Nothing
  Covers <- NoPairs
  Prefixes <- JustP
  StartingWith <- PStartsBoth
  Patterns <- Nothing
  Unsubscribers <- Nothing
  Rejected <- Nothing
  MaxCalls = 3
  MaxFailures = 0
SPECIFICATION Spec
INVARIANT RetentionKept
CHECK_DEADLOCK FALSE
