CONSTANTS
  Modules = {A, B}
  NoModule = NoModule
  Sources <- AllSources
  MaxImports = 2
  MaxRequests = 1
  MaxOdd = 1
SPECIFICATION Spec
CHECK_DEADLOCK FALSE
INVARIANTS
  UnresolvedNeverRuns
