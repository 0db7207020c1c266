SPECIFICATION SovereignSpec
CONSTANTS
  Node = {n1, n2}
  Contract = {k1}
  WeightName = {CorrigibilityChannel, adaptability}
  W0Name = {CorrigibilityChannel}
  Brake = CorrigibilityChannel
  NoName = NoName
  NoNode = NoNode
PROPERTIES
  VetoHolds
