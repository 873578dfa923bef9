CONSTANTS
  None = None
  MaxSeq = 2
  MaxFanout = 2
  NumOutputs = 2
  Buffering = {2}
  BatchSize = 2
  DlqEnabled = TRUE
  MaxFaults = 1
  MaxCrashes = 1
SPECIFICATION Spec
INVARIANT CleanStopAcksAll
PROPERTY AckOnlyTerminal
\* the pipeline may stop for good after a clean shutdown
CHECK_DEADLOCK FALSE
