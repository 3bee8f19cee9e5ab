SPECIFICATION Spec
CONSTANTS
  Ids = {1, 2}
  Retries = 2
  PollIters = 2
  MaxScripts = 2
  None = None
INVARIANTS
  OneWriter
  TwiceOnlyIfOverlapping
  CompleteIsRecorded
PROPERTIES
  ScriptEnds
CHECK_DEADLOCK FALSE
