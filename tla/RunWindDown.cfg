CONSTANTS
  None = None
  Inputs = {i1, i2}
  Finites = {{i1, i2}}
  PerInput = 1
  Workers = {w1}
  Cap = 1
  FilterBatch = 2
  BatchSize = 2
  MaxFailures = 0
SPECIFICATION LiveSpec
INVARIANT NothingDropped
PROPERTY RunReturns
CHECK_DEADLOCK FALSE
