SPECIFICATION Spec
CONSTANTS
  a1 = a1
  a2 = a2
  a3 = a3
  Agents = {a1, a2}
  CanBlock = {a2}
  Program <- StoreProgram
  Arguments = {1}
  Counts = {1}
  InitLength = 2
  MaxLength = 2
  MaxCalls = 2
  Width = 1
  NoRequest = NoRequest
  NoResult = NoResult
  Undefined = Undefined
  Done = Done
  RangeError = RangeError
CHECK_DEADLOCK FALSE
PROPERTIES
  OnlyItsElement
