SPECIFICATION ArraySpec
CONSTANTS
  MaxLength = 3
  MaxDense = 2
  ArrayValues = {v}
  UndefinedValue = UndefinedValue
  Missing = Missing
  NoProperty = NoProperty
  Careful = FALSE
CHECK_DEADLOCK FALSE
PROPERTY GrowthCreatesHoles
