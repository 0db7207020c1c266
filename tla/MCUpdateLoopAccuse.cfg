SPECIFICATION LoopSpec
CONSTANTS
  Canonical = {"BearerIntegrity", "TruthPriority"}
  Registrations <- MCRegistrations
  Written = {}
  Top = 10
  HistoryMax = 20
  MinSamples = 5
  VarianceThreshold = 5
  Errors = {2, 4}
  Thresholds = {1}
PROPERTIES AccusesOnlyOutsiders
