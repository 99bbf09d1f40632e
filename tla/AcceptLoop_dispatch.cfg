SPECIFICATION Spec
CONSTANTS
  c1 = c1
  c2 = c2
  c3 = c3
  None = None
  Connections = {c1, c2, c3}
INVARIANTS
  Inv
  NoneLost
  ProtocolInEffect
PROPERTIES
  UnservedOnlyAtStop
  HandedOn
  Answered
  GoroutinesEnd
CHECK_DEADLOCK FALSE
