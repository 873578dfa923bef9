CONSTANTS
  SecsPerHour = 2
  MaxClock = 5
  MaxAttempts = 3
  U16Max = 3
  U32Max = 5
  Setups <- SetupsReload
  MaxEdits = 3
  MaxEntries = 2
SPECIFICATION Spec
INVARIANT BadEditKeepsPipeline
CHECK_DEADLOCK FALSE
