SPECIFICATION Spec
CONSTANTS
  c1 = c1
  c2 = c2
  Configs <- MCConfigs
  Points = 1
  Intervals = 1
  MaxRunners = 2
INVARIANT
  MeasuresItsOwnServer
CHECK_DEADLOCK FALSE
