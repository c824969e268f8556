SPECIFICATION FairSpec
CONSTANTS
  Topics = {"1m", "10m"}
  Limit <- MCLimit
  Callers = {"get"}
  Backlog <- OneWaits
  MaxDocs = 2
  MaxFaults = 1
  Env = {"newGroup", "garbled", "expired", "rebalance", "commitFails", "close", "restart"}
INVARIANTS TypeOK CommittedWasSent TwiceOnlyIfUncommitted
PROPERTY SettledIsHanded
