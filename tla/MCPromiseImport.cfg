SPECIFICATION FairSpec
CONSTANTS
  MaxPromises = 3
  MaxPairs = 6
  MaxCalls = 3
  Plain = {v}
  Thenables = {t}
  Poisoned = {}
  AsyncFunctions = {f}
  Features = {"import"}
  Failure = Failure
  Namespace = Namespace
  Undefined = Undefined
  NoPair = NoPair
  Throwing = Throwing
CHECK_DEADLOCK FALSE
INVARIANTS
  NoJobLost
PROPERTIES
  EveryJobStarts
