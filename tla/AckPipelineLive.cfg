CONSTANTS
  None = None
  MaxSeq = 2
  MaxFanout = 1
  NumOutputs = 1
  Buffering = {1}
  BatchSize = 2
  DlqEnabled = FALSE
  MaxFaults = 2
  MaxCrashes = 1
SPECIFICATION LiveSpec
PROPERTY EventuallyAcked
CHECK_DEADLOCK FALSE
