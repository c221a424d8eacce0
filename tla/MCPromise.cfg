SPECIFICATION Spec
CONSTANTS
  MaxPromises = 4
  MaxPairs = 8
  MaxCalls = 4
  Plain = {v}
  Thenables = {t}
  Poisoned = {x}
  AsyncFunctions = {f}
  Features = {"species"}
  Failure = Failure
  Namespace = Namespace
  Undefined = Undefined
  NoPair = NoPair
  Throwing = Throwing
CHECK_DEADLOCK FALSE
INVARIANTS
  JobMatchesPromise
  ReactsOnce
  OneWayToSettle
  AdoptedOutcome
  SuspendedHasOneResume
PROPERTIES
  JobsInOrder
