SPECIFICATION Spec
CONSTANTS
  kernel = kernel
  size = size
  width = width
  prec = prec
  fp8 = fp8
  bf16 = bf16
  p = p
  q = q
  b1 = b1
  b2 = b2
  None = None
  SPEC_DECODE_ARGS = {}
  WEIGHT_PRECISION_ARGS = {}
  MAX_CANDIDATES = 10
  PerTokenMs = 2
  Overrides <- MCOverrides
  Requests <- MCRequests
  Accuracies = {0, 2, NoMetric}
  NoMetric = NoMetric
  Tolerance = 1
  HigherBetter = TRUE
INVARIANTS
  SavedIsAcceptable
  FrontierCovers
  BranchesApart
  NothingUnaccounted
  InspectionAgrees
  PinsJudged
  MetricsBracketed
  CompareAgreesWithFrontier
CHECK_DEADLOCK FALSE
