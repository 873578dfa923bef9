CONSTANTS
  NumEvents = 2
  NumBatches = 3
  MaxTries = 2
  Chunk = 1
  MaxBusRetries = 1
  BusRoom = 1
  PipeRoom = 2
  SizeFile = 3
  MaxSinkFaults = 2
  MaxOutages = 1
  OutputKinds <- AllOutputs
  Refused = {2}
  Unencodable = {4}
  NoMetric = {3}
  NumDead = 4
  LongLines = {2, 3}
  DlqMaxBytes = 7
  FlushInterval = 2
  MaxDlqFaults = 2
  MaxDlqRestarts = 2
  Workers = {w1, w2}
  Keys = {k1, k2, k3}
  NumGiven = 4
  NumThrottled = 6
  MaxTime = 3
  ThrottleTime = 4
  Ttl = 1
  Capacity = 2
  Big = {k3}
  Period = 3
  MaxAge = 4
  BeforeCount = 1
  AfterCount = 2
  MaxChanges = 1
  MaxFilterFaults = 1
SPECIFICATION StagesSpec
INVARIANTS OkDelivered ResentOnlyIfUnsure DeliveredAtClose ErrHasCause CapturedKept
INVARIANTS TaggedIffUndone CacheSound ThrottleLimit AggregateConserves LoadsApart
PROPERTY OutputReturns
CHECK_DEADLOCK FALSE
