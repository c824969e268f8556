SPECIFICATION Spec
CONSTANTS
  a = a
  b = b
  Docs = {a}
  Topics = {"1m"}
  Limit <- MCLimit
  ChanCap = 1
  QueueSize = 1
  Workers = {1}
  Pulls = {1}
  MaxBreaks = 0
  MaxFetch = 1
  Env = {}
  Events = 1
  MaxTx = 2
  Faults = {}
INVARIANT RegisterListUnproofed
