SPECIFICATION FairSpec
CONSTANTS
  a = a
  b = b
  c = c
  Docs = {a, b}
  Topics = {"1m"}
  Limit <- MCLimit
  ChanCap = 1
  QueueSize = 2
  Workers = {1, 2}
  Pulls = {1}
  MaxFetch = 1
  MaxBreaks = 1
  Env = {"dbError", "shutdown", "rebalance", "restart"}
INVARIANTS TypeOK NothingLost OneCopy
PROPERTIES ImplementsTransfer EverySubmittedStored
