CONSTANTS
  v = v
  Contents <- OneContent
  Empty = Empty
  Lists <- OneList
  MaxSockets = 3
  MaxAttempts = 1
  MaxRequests = 2
  MaxFailures = 2
SPECIFICATION Spec
INVARIANTS TypeOK NoLostUpdate ConnectedIsTrue CacheIsLive MissedMeansLeaked
PROPERTIES Answered
CHECK_DEADLOCK FALSE
