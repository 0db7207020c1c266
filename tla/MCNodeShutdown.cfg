SPECIFICATION NodeFairSpec
CONSTANTS
  InitialBackoff = 1
  MaxBackoff = 1
  BackoffFactor = 1
  MaxEntries = 1
PROPERTIES
  CloseReturns
