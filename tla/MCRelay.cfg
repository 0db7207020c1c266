SPECIFICATION Spec
CONSTANTS
  n1 = n1
  n2 = n2
  n3 = n3
  s1 = s1
  s2 = s2
  s3 = s3
  k1 = k1
  k2 = k2
  k3 = k3
  p1 = p1
  p2 = p2
  p3 = p3
  p4 = p4
  NoNode = NoNode
  NoSess = NoSess
  NoPayload = NoPayload
  Node = {n1, n2, n3}
  Sess = {s1, s2, s3}
  Payload = {p1, p3}
  Key = {k1, k2}
  KeyOf <- MCKeyOf2
  MaxKnown = 1
  MaxPublish = 2
  MaxRestart = 1
SYMMETRY FullSymmetry
INVARIANTS
  TypeOK
  NoBlindSpot
  NoStaleRegistration
PROPERTIES
  RegistrationHeld
  ImplementsHub
