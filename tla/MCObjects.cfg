SPECIFICATION ObjectsSpec
CONSTANTS
  Objects = {o1, o2, o3}
  Values = {v1, v2}
  NoObject = NoObject
  ProxyTop = ProxyTop
  Absent = Absent
  ValueWriteLimit = 1
  CacheWays = 1
  MaxLength = 3
  MaxDense = 2
  ArrayValues = {v}
  UndefinedValue = UndefinedValue
  Missing = Missing
  NoProperty = NoProperty
  Careful = TRUE
SYMMETRY symmetry
CHECK_DEADLOCK FALSE
INVARIANTS
  CacheIsFresh
  ValidUpwards
PROPERTIES
  ImplementsArray
  FrozenForever
