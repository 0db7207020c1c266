SPECIFICATION ProbeSpec
CONSTANTS
  Call = {k1, k2, k3}
  StopAfter = 2
  BufferLines = 1
INVARIANTS
  NoAnswerLost
