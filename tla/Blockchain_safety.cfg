SPECIFICATION Spec
CONSTANTS
  a = a
  b = b
  c = c
  Docs = {a, b}
  Topics = {"10m"}
  Limit <- MCLimitMixed
  Events = 2
  MaxTx = 2
  MaxBreaks = 1
  Faults = {"dial", "timeout", "refused", "lostReply", "rejected", "foreign", "disconnect", "dbError", "shutdown", "rebalance", "restart"}
SYMMETRY DocSymmetry
INVARIANTS TypeOK DigestBacked BlockWhole RegisteredOnce EventsKept
PROPERTY ProofFinal
CHECK_DEADLOCK FALSE
