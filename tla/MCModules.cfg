CONSTANTS
  Modules = {A, B, C}
  NoModule = NoModule
  Sources <- AllSources
  MaxImports = 2
  MaxRequests = 3
  MaxOdd = 2
SPECIFICATION Spec
SYMMETRY Symmetry
CHECK_DEADLOCK FALSE
INVARIANTS
  EvaluatingIsOnStack
  BodyIsReady
  SettledUnlessImport
  StaticFailsForItself
  ImportReachesAll
