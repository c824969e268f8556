SPECIFICATION FairSpec
CONSTANTS
  a = a
  b = b
  c = c
  Docs = {a}
  Topics = {"1m"}
  Limit <- MCLimit
  Events = 1
  MaxTx = 1
  MaxBreaks = 0
  Faults = {}
PROPERTY RegisteredIsProofed
CHECK_DEADLOCK FALSE
