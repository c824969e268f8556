SPECIFICATION FairSpec
CONSTANTS
  a = a
  b = b
  c = c
  Docs = {a, b}
  Topics = {"1m", "10m", "24h"}
  Periods = {"1m", "10m"}
  Consumers = {"persister", "blockchain"}
  Count = 1
INVARIANT KeptOrRead
PROPERTY SomeConsumerGets
