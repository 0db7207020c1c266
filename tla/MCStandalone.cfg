SPECIFICATION MCSpec
CONSTANTS
  Canonical = {"BearerIntegrity", "TruthPriority"}
  Registrations <- MCRegistrations
  Written = {0}
  Top = 4
  HistoryMax = 3
  MinSamples = 3
  VarianceThreshold = 1
  Errors = {0, 2, 4}
  Thresholds = {1, 2}
  Node = {n1, n2}
  Contract = {k1}
  WeightName = {CorrigibilityChannel, adaptability}
  W0Name = {CorrigibilityChannel}
  Brake = CorrigibilityChannel
  NoName = NoName
  NoNode = NoNode
  Engine = {e1, e2, e3}
  Topic = {t1}
  Content = {c1, c2}
  NoContent = NoContent
  MaxQuarantine = 1
  NoPath = NoPath
  Task <- MCTask
  Scheme <- MCScheme
  Blind <- MCBlind
  Call = {q1, q2, q3}
  StopAfter = 2
  BufferLines = 1
SYMMETRY StandaloneSymmetry
CHECK_DEADLOCK FALSE
INVARIANTS
  LoopTypeOK
  HistoryIsWitness
  CorrectionNeverRefused
  NoW0Ceded
  StatusIsBacked
  KnowledgeAgrees
  KnowledgeHasWitness
  GateHoldsTheZone
  EveryBypassIsAnswered
  NoInnocentIsAccused
  TheLoopPays
  KeptOnceRecorded
PROPERTIES
  W0Untouched
  EveryFindingIsReported
  AccusesOnlyUntraced
  DenialHidesNothing
  VetoHoldsButForPending
