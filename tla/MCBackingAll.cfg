SPECIFICATION Spec
CONSTANTS
  a1 = a1
  a2 = a2
  a3 = a3
  Agents = {a1, a2, a3}
  CanBlock = {a2, a3}
  Program <- MixedProgram
  Arguments = {1}
  Counts = {1, 3}
  InitLength = 1
  MaxLength = 2
  MaxCalls = 4
  Width = 1
  NoRequest = NoRequest
  NoResult = NoResult
  Undefined = Undefined
  Done = Done
  RangeError = RangeError
CHECK_DEADLOCK FALSE
INVARIANTS
  TypeOK
  ListOK
  NoSleepAfterNotify
  NoLostWakeup
  WokenAccounted
  NotifiedInOrder
PROPERTIES
  NotifyBeatsTimeout
