SPECIFICATION MCFairSpec
CONSTANTS
  n1 = n1
  n2 = n2
  s1 = s1
  s2 = s2
  k1 = k1
  k2 = k2
  k3 = k3
  p1 = p1
  p2 = p2
  p3 = p3
  p4 = p4
  NoNode = NoNode
  NoSess = NoSess
  NoPayload = NoPayload
  Node = {n1, n2}
  Sess = {s1, s2}
  Payload = {p1, p2, p3, p4}
  Key = {k1, k2, k3}
  KeyOf <- MCKeyOf4
  MaxKnown = 2
  MaxPublish = 4
  MaxServed = 3
  MaxRestart = 1
INVARIANTS
  KnownIsMostRecent
PROPERTIES
  EventuallyServed
