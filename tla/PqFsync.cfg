CONSTANTS
  None = None
  Partial = Partial
  MaxEvents = 4
  SegmentSize = 2
  MaxBytes = 4
  Width <- Widths
  LongestLine = 2
  MultiByte = FALSE
  CheckpointInterval = 2
  Compress = TRUE
  Fsync = TRUE
  FaultPoints = {"flush", "compress", "create", "checkpoint", "gc"}
  MaxFaults = 1
  MaxCrashes = 1
SPECIFICATION Spec
INVARIANT SpaceBounded
PROPERTY ImplementsDurableQueue
CHECK_DEADLOCK FALSE
