CONSTANTS
  None = None
  Partial = Partial
  MaxEvents = 4
  SegmentSize = 2
  MaxBytes = 4
  Width <- Widths
  LongestLine = 2
  MultiByte = TRUE
  CheckpointInterval = 3
  Compress = TRUE
  Fsync = FALSE
  FaultPoints = {"flush", "compress", "create", "append", "checkpoint", "gc"}
  MaxFaults = 1
  MaxCrashes = 1
SPECIFICATION Spec
INVARIANTS StableKept WriteSeqClears Recoverable
CHECK_DEADLOCK FALSE
