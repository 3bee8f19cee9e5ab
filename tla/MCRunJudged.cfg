SPECIFICATION Spec
CONSTANTS
  size = size
  kernel = kernel
  p = p
  q = q
  b1 = b1
  b2 = b2
  w1 = w1
  w2 = w2
  None = None
  SPEC_DECODE_ARGS = {}
  WEIGHT_PRECISION_ARGS = {}
  MAX_CANDIDATES = 10
  Requests <- ExtendRequests
  MaxInvocations = 2
  Tears = FALSE
  Baseline <- BaselineLabel
  Labels <- MCLabels
  Branches = {b1, b2}
  Workloads = {w1, w2}
  Configs <- MCConfigs
  Accuracies = {0, 2}
  NoMetric = NoMetric
  Tolerance = 1
  HigherBetter = TRUE
  Repeats = 2
INVARIANT
  EveryRecordJudged
CHECK_DEADLOCK FALSE
