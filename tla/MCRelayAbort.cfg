SPECIFICATION Spec
CONSTANTS
  n1 = n1
  n2 = n2
  n3 = n3
  n4 = n4
  s1 = s1
  s2 = s2
  s3 = s3
  s4 = s4
  k1 = k1
  k2 = k2
  k3 = k3
  p1 = p1
  p2 = p2
  p3 = p3
  p4 = p4
  NoNode = NoNode
  NoSess = NoSess
  NoPayload = NoPayload
  Node = {n1, n2, n3, n4}
  Sess = {s1, s2, s3, s4}
  Payload = {p1}
  Key = {k1}
  KeyOf <- MCKeyOf1
  MaxKnown = 1
  MaxPublish = 1
  MaxRestart = 0
SYMMETRY NodeSymmetry
INVARIANTS
  FansOutToEveryoneElse
