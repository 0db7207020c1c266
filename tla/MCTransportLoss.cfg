SPECIFICATION DropSpec
CONSTANTS
  InitialBackoff = 1
  MaxBackoff = 3
  BackoffFactor = 2
  MaxEntries = 2
INVARIANTS
  NoEntryLost
CHECK_DEADLOCK FALSE
