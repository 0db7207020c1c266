SPECIFICATION Spec
CONSTANTS
  n1 = n1
  n2 = n2
  n3 = n3
  n4 = n4
  w1 = w1
  c1 = c1
  c2 = c2
  c3 = c3
  c4 = c4
  s1 = s1
  s2 = s2
  s3 = s3
  NoSig = NoSig
  Sig = {s1, s2, s3}
  SlotsOf <- MCSlotsOf
  NoWeight = NoWeight
  Node = {n1, n2, n3, n4}
  Weight = {w1}
  Ctx = {c4}
  SigOf <- MCSigOf
  Verdict = {TRUE}
  Band = {0, 1}
  Row = {0, 1}
  Value = {0, 1}
  MaxMiss = 1
  MaxAttack = 2
  MaxFault = 2
SYMMETRY NodeSymmetry
CHECK_DEADLOCK FALSE
INVARIANTS
  NobodyIsBlind
