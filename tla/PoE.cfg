SPECIFICATION UpSpec
CONSTANTS
  a = a
  b = b
  Docs = {a, b}
  Topics = {"1m"}
  Limit <- MCLimit
  ChanCap = 1
  QueueSize = 1
  Workers = {1}
  Pulls = {1}
  MaxFetch = 1
  MaxBreaks = 1
  Env = {"dbError", "rebalance"}
  Events = 1
  MaxTx = 1
  Faults = {"rejected", "rebalance"}
INVARIANTS AnswersBacked InsertedBlockVerifies
PROPERTIES TableNeverBack OkBecomesValid StoredFirstIsProofed
