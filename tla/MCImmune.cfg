SPECIFICATION FairSpec
CONSTANTS
  n1 = n1
  n2 = n2
  w1 = w1
  w2 = w2
  c1 = c1
  c2 = c2
  c3 = c3
  c4 = c4
  s1 = s1
  s2 = s2
  s3 = s3
  NoSig = NoSig
  Sig = {s1, s2, s3}
  SlotsOf <- MCSlotsOf
  NoWeight = NoWeight
  Node = {n1, n2}
  Weight = {w1, w2}
  Ctx = {c1, c2, c3}
  SigOf <- MCSigOf
  Verdict = {TRUE}
  Band = {0, 1}
  Row = {0, 1}
  Value = {0, 1}
  MaxMiss = 1
  MaxAttack = 2
  MaxFault = 1
CHECK_DEADLOCK FALSE
INVARIANTS
  VaccinesAreReal
  IndexIsComplete
PROPERTIES
  ImmunityEndsOnlyByOtherWeight
  EventuallyImmune
