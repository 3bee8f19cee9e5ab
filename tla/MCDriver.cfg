SPECIFICATION Spec
CONSTANTS
  c0 = c0
  x = x
  y = y
  baseline = baseline
  other = other
  b1 = b1
  w1 = w1
  w2 = w2
  Configs <- MCConfigs
  Labels <- MCLabels
  Baseline = baseline
  Branches <- MCBranches
  Workloads <- MCWorkloads
  Accuracies <- MCAccuracies
  NoMetric = NoMetric
  Tolerance = 1
  HigherBetter = TRUE
  Repeats = 2
  None = None
  Calls <- MCCalls
INVARIANTS
  TypeOK
  ServerBracketsConfig
  StreamIsFresh
  ReturnMeansComplete
  StreamTracksResults
  OneStampPerConfig
  OneEvaluationPerConfig
  OwnAccuracy
  VerdictAgainstBaseline
  GateNeverSilent
CHECK_DEADLOCK FALSE
