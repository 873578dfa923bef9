CONSTANTS
  NumMessages = 2
  Bad = {2}
  MaxBatch = 2
  MaxFaults = 1
  MaxRestarts = 1
  NumRecords = 2
  PageSize = 1
  Interval = 1
  MaxPollFaults = 1
  MaxPollRestarts = 1
  PollConfigs <- PollConfigsAll
  Peers = {p1}
  MaxFrames = 2
  MaxListenFaults = 1
  ListenKinds <- ListenKindsAll
SPECIFICATION Spec
INVARIANTS AckAfterHandOver ShutdownLosesNothing PositionCovers SentOncePerRun AckedWasSent
PROPERTIES EventuallySent ShutdownStops
CHECK_DEADLOCK FALSE
