SPECIFICATION Spec
CONSTANTS
  p1 = p1
  p2 = p2
  p3 = p3
  Peers = {p1, p2, p3}
  Callers = {1, 2}
  MaxChoose = 8
INVARIANTS Balanced ConnectsIfAlone
CHECK_DEADLOCK FALSE
