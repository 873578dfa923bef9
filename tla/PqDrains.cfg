CONSTANTS
  None = None
  Partial = Partial
  MaxEvents = 5
  SegmentSize = 2
  MaxBytes = 4
  Width <- Widths
  LongestLine = 1
  MultiByte = FALSE
  CheckpointInterval = 3
  Compress = TRUE
  Fsync = TRUE
  FaultPoints = {"link", "append", "sync"}
  MaxFaults = 1
  MaxCrashes = 0
SPECIFICATION LiveSpec
PROPERTY FullIsTransient
CHECK_DEADLOCK FALSE
