SPECIFICATION Spec
CONSTANTS
  i1 = i1  i2 = i2  p1 = p1  p2 = p2  b1 = b1  b2 = b2  o1 = o1  o2 = o2
  Intent = {i1, i2}
  Packet = {p1, p2}
  Record = {b1, b2}
  BrokerOrder = {o1, o2}
  SubmitWindow = 1
  Horizon = 2
  MaxEvents = 4
SYMMETRY Ids
INVARIANTS
  IInv
PROPERTIES
  FateSpec
CHECK_DEADLOCK FALSE
