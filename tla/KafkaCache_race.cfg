SPECIFICATION FairSpec
CONSTANTS
  Topics = {"1m"}
  Limit <- MCLimit
  Callers = {"get"}
  Backlog <- Nothing
  MaxDocs = 1
  MaxFaults = 0
  Env = {}
PROPERTY SubscriberGets
