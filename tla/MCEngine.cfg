SPECIFICATION EngineSpec
CONSTANTS
  MaxElements = 3
  Answers = {x, y}
  Errors = {e}
  Undefined = Undefined
  Unanswered = Unanswered
  Unsettled = Unsettled
  MaxRequested = 4
  MaxAwaited = 2
  Unreplied = Unreplied
  MapKeys = {k1, k2, k3}
  Hole = Hole
  Walks = {w1, w2}
  MaxStorage = 4
  MaxResources = 4
  Texts = {t1, t2}
  Addresses = {s1}
  IdLimit = 3
  MinSweep = 2
  MaxCreated = 4
  MaxLeases = 2
  MaxObjects = 2
  Main = Main
  Workers = {b1, b2}
  MaxBroadcasts = 2
  MaxReports = 2
  MaxItems = 4
CHECK_DEADLOCK FALSE
INVARIANTS
  RemainingExact
  OneDriver
  WalksOweTheRest
  EveryResourceDisposed
  LeasesIdentifyKeys
  FirstBroadcastReceived
  ChannelsAgree
  EveryIteratorReleased
PROPERTIES
  ArrayIsFinal
  ImplementsOutcome
  
  EveryRequestReplied
  BroadcastArrives
