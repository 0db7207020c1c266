SPECIFICATION MCSpec
CONSTANTS
  InitialBackoff = 1
  MaxBackoff = 3
  BackoffFactor = 2
  MaxEntries = 3
INVARIANTS
  TypeOK
  HeldOnce
  StatusIsTrue
  NoOrphanTask
  ClosedForGood
  ConnectIsTruthful
PROPERTIES
  ImplementsChannel
  BackoffResetsOnHandshake
  LossIsRetried
  LogsGoOut
  CloseReturnsUnlessSwallowed
