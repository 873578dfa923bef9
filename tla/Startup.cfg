CONSTANTS
  SecsPerHour = 2
  MaxClock = 5
  MaxAttempts = 3
  U16Max = 3
  U32Max = 5
  Setups <- SetupsAll
  MaxEdits = 3
  MaxEntries = 2
SPECIFICATION Spec
INVARIANTS  MeteredOnce
PROPERTY EventuallyCurrent
CHECK_DEADLOCK FALSE
