SPECIFICATION FairSpec
CONSTANTS
  a = a
  b = b
  c = c
  Docs = {a}
  Topics = {"1m"}
  Limit <- MCLimit
  ChanCap = 1
  QueueSize = 2
  Workers = {1}
  Pulls = {1}
  MaxBreaks = 0
  MaxFetch = 1
  Env = {"shutdown"}
PROPERTY QueuedReachesDB
