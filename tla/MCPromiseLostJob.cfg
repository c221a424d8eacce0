SPECIFICATION Spec
CONSTANTS
  MaxPromises = 4
  MaxPairs = 8
  MaxCalls = 4
  Plain = {v}
  Thenables = {}
  Poisoned = {}
  AsyncFunctions = {}
  Features = {"species"}
  Failure = Failure
  Namespace = Namespace
  Undefined = Undefined
  NoPair = NoPair
  Throwing = Throwing
CHECK_DEADLOCK FALSE
INVARIANTS
  NoJobLost
