SPECIFICATION FairSpec
CONSTANTS
  a1 = a1
  a2 = a2
  a3 = a3
  Agents = {a1, a2, a3}
  CanBlock = {a2, a3}
  Program <- SharedProgram
  Arguments = {0, 5}
  Counts = {1}
  InitLength = 2
  MaxLength = 2
  MaxCalls = 3
  Width = 2
  NoRequest = NoRequest
  NoResult = NoResult
  Undefined = Undefined
  Done = Done
  RangeError = RangeError
CHECK_DEADLOCK FALSE
PROPERTIES
  NotifiedWaitReturns
  FiniteWaitReturns
  ImplementsAtomicMemory
