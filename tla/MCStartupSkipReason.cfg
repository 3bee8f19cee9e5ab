SPECIFICATION Spec
CONSTANTS
  kernel = kernel
  size = size
  switch = switch
  width = width
  prec = prec
  spec = spec
  weights = weights
  b1 = b1
  b2 = b2
  p = p
  q = q
  off = off
  on = on
  fp8 = fp8
  none = none
  None = None
  SPEC_DECODE_ARGS = {spec}
  WEIGHT_PRECISION_ARGS = {weights}
  MAX_CANDIDATES = 3
  Accuracies = {1, 2}
  NoMetric = NoMetric
  Tolerance = 0
  HigherBetter = TRUE
  Requests <- MCRequests
INVARIANT
  SkipReasonHolds
CHECK_DEADLOCK FALSE
