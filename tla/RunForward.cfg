CONSTANTS
  None = None
  Inputs = {i1}
  Finites = {{i1}}
  PerInput = 2
  Workers = {w1, w2}
  Cap = 1
  FilterBatch = 2
  BatchSize = 2
  MaxFailures = 1
SPECIFICATION Spec
INVARIANTS HeldOnce NeverStuck
PROPERTY WindsDown
CHECK_DEADLOCK FALSE
