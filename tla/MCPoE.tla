------------------------------- MODULE MCPoE -------------------------------
(* Instances of PoE for TLC. *)
EXTENDS PoE, TLC

CONSTANTS a, b

MCLimit == [t \in Topics |-> 2]

DocSymmetry == Permutations(Docs)

(* The service is up: the event client has registered, and the document a  *)
(* has been submitted.                                                     *)
Up ==
  /\ topic = [t \in Topics |-> <<a>>]
  /\ cached = topic /\ fetching = [t \in Topics |-> 0]
  /\ hand = [p \in Pulls |-> << >>]
  /\ docsChan = << >> /\ docQueue = << >>
  /\ pc = "select" /\ fetchers = {}
  /\ putting = [w \in Workers |-> << >>]
  /\ closer = "running" /\ refetched = {} /\ givenUp = {}
  /\ pending = topic /\ prover = [t \in Topics |-> B!Idle]
  /\ items = [tx \in B!Txs |-> << >>]
  /\ eventPc = "select" /\ dialled = Events
  /\ eClis = B!Clients /\ running = B!Clients
  /\ peer = [c \in B!Clients |-> "replied"]
  /\ streams = [c \in B!Clients |-> << >>]
  /\ handlers = [c \in B!Clients |-> [tx \in B!Txs |-> B!NoCall]]
  /\ owed = [c \in B!Clients |-> {}]
  /\ chain = [tx \in B!Txs |-> NoDigest] /\ committed = {} /\ accepted = {}
  /\ redelivered = {} /\ breaks = 0
  /\ batches = [c \in B!Clients |-> [tx \in B!Txs |-> {}]] /\ db = EmptyTable
  /\ unread = {} /\ seen = [d \in Docs |-> {NullRow}]

UpSpec == Up /\ [][Next]_vars /\ P!Fairness /\ B!Fairness
=============================================================================
