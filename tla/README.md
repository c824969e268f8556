# Proof of existence: a verification project

`poe` is a service that proves the existence of documents at a time. A client
submits a document; the service writes it into a table and registers the Merkle
root of all documents of a period on a Hyperledger Fabric chain; later a client
asks whether the document is proofed and has it verified against the chain.

This directory holds TLA+ modules for the parts of the service that decide
whether a document is lost, proofed twice or reported wrongly, TLC
configurations that check them on small instances, and TLAPS proofs for every
size.

## The system

| Component | State | Operations | Hard because |
|---|---|---|---|
| Kafka cache (`cache/kafka`) | topics, offsets of each group, the feeding goroutine, a channel for each topic and consumer | Put, Subscribe, feed, Get, Close | one goroutine feeds all channels; two goroutines create them; offsets are committed behind the reading |
| Memory cache (`cache/memory`) | documents of each topic, what each consumer has subscribed to | Put, Subscribe, Get, Close | two consumers share it |
| Persister pipeline (`persist/persist.go`) | `docsChan`, `docQueue`, the permits of `workerCtrl`, the goroutines' documents | two tickers, receive, put a batch, Close | the main loop waits for permits; Close polls two lengths while others move documents |
| Table (`persist/cassandra`) | one row for each document, on several replicas | upserts in logged batches, selects | INSERT and UPDATE of one row come from two components; a batch is not isolated and may be applied after it was reported as failed; a read may be stale |
| Blockchain handler (`blockchain`) | `items` (transaction to documents), event clients | a ticker for each period, Invoke, the event handler, Close | the event of a transaction and the reply to Invoke are not ordered; events are duplicated, lost, foreign |
| Events client (`blockchain/event.go`) | the stream, the registration under way | Start (register with a timeout), processEvents, Stop | the peer sends events before it answers the registration; an answer may come too late |
| Balancer (`blockchain/balance.go`) | a ring and its position | Choose | all callers share the position |
| API (`api`) | none | submit, status, result, lists, statistics | reads rows that two components write, from one replica or a quorum; accepts periods that nobody reads |
| Signing, periods, time source, configuration | a key pair, a list | load, sign, read | little: see "Not modelled" |

Data flow:

```
            submitRaw                         getProofStatus, postProofResult, ...
                |                                           |
              cache ---> persister pipeline --- INSERT ---> table
                |                                           ^
                +------> blockchain handler --- Invoke ---> chain
                              ^   |                         |
                              |   +--- UPDATE ---> table    |
                              +------- event ---------------+
```

The two consumers of the cache know nothing of each other. Correct, for this
service, means: the cache skips no document that it has not handed over; the
pipeline loses and doubles nothing; a digest in the table is one that the chain
accepted for that very document; a block of which one document shows the digest
is written to its last row, since verification recomputes the root from the rows;
no answer claims a proof that is not there; the table takes nothing back; and what
is submitted under a configured period is in the end stored, proofed and
verifiable.

## Modules

| Module | Models | How |
|---|---|---|
| `Documents` | the table and its statements | A table is a function from ids to rows. A row keeps the columns that change: whether the INSERT has run, digest, transaction, status. INSERT and UPDATE are upserts of the columns they name. An UPDATE batch is the set of rows it is to write; `GetDocFromDBByDocID` is the set of rows a SELECT of one replica may return. |
| `Transfer` | what the pipeline promises | Documents wait, and are stored or given up. A break gives up some that wait and brings back some that were moved; only those may be moved twice. |
| `Persist` | `continuePersist` and `Close` | One action for each select case, each wait for a permit, each goroutine step and each look that Close takes. `pc` is the main loop; permits are a set; `hand[p]` is what a period goroutine has yet to send. |
| `Blockchain` | `continueProof` to `invokeCompleted`, and the events client | `RegisterProof` is Invoke followed by ItemsSet; `invokeCompleted` is ItemsGet, PersistDigest, ItemsDelete. Each is a step, since other goroutines run between them. `PersistDigest` gives Cassandra a batch or is refused, and `WriteRow` writes the rows of a batch one at a time, whenever. `eventStart` dials each address (`Dial`) and waits for the answer to its registration (`RegisterReplied`, `RegisterFails`). The chain, the peers and the network are external: `Commit`, `PeerLists`, `PeerReplies`, `Disconnect`, `WriteRow`. |
| `KafkaCache` | `cache/kafka` as one consumer sees it | The feeder is FeederReceive, the channel's creation, Send and MarkOffset, or Skip for a message that is no document; a Get is GetCall, the creation, GetReceive until it is done, GetReturn. Creation is three steps, as in `constructTopicConsumerDocsChan`: a look for the channel (part of FeederReceive and GetCall), `Create`, `Lookup`. A channel is named by its maker, so that a replaced channel keeps its documents. The group membership is the vendored `sarama-cluster`: `Join` (`subscribe`, with `newPartitionConsumer`'s fallback in `Lost`), `CommitOffsets`, `Rebalance` with `Released` (`release`). The broker is external: topics, offsets, and what it answers. |
| `PoE` | the service | `Persist` and `Blockchain` instantiated over one table and one history of the topics; `SubmitRawUnread` is a submission under a period that is not configured; the API's answers are operators on that state, `seen` keeps every value a row has had, and `Replicas` is what a replica may hold. |
| `Balance` | `roundRobin` and the loop of `execute` | The ring is a sequence seen from its position; one step is one Choose and the dial that follows. |
| `MemoryCache` | `cache/memory` | Every method is one step, as its mutex makes it. `Periods` are the topics that consumers poll; `Put` makes a topic of any duration. |
| `MC*` | | Instances for TLC. `MCPoE!Up` is a state of the running service: its event client has registered and one document has been submitted. |
| `Moves` | | Lemmas on sequences that hold documents once: what appending to, splitting and joining them does, alone (`Single`) and in a family of places that share nothing (`Apart`). |
| `DocumentsProofs` | | Lemmas on the table and on reading a topic again. |
| `PersistProofs`, `BlockchainProofs`, `KafkaCacheProofs`, `PoEProofs`, `BalanceProofs`, `MemoryCacheProofs` | | The theorems of each component, with the inductive invariants they rest on. |

Abstractions worth knowing:

- A document is its id; in `KafkaCache` it is its offset in its topic. Hash,
  submit time, wait duration, metadata and application are fixed by Put, so a row
  only says whether they were written.
- Different documents have different contents, so a hash finds at most one row.
- A Merkle root is the bag of leaves it was computed from (hashing is taken to be
  injective). A leaf made from a row that was never inserted differs from the
  leaf of the document, since the leaf contains submit time, duration and
  metadata. The block digest, a hash of the proof that the chaincode returns for
  the root, is identified with the root.
- A topic is read in order, as one Kafka partition gives it.
- `KafkaCache` has one consumer group: the groups of the persister and of the
  blockchain handler share nothing but the topics. A goroutine that finds the
  channel there uses it at once; the second look it takes is a step only where the
  channel was missing, since the map has an entry for good and a later
  replacement is a step of its own in either order. A group without an offset
  starts at the newest document, and `from` records where.
- In `Persist` and `Blockchain` a Get is one step, and the cache is the sequence
  of documents the consumer has yet to get. `KafkaCache` shows what its faults do
  to that sequence, and the two modules take them over:
  `Rebalance` leaves what has been read ahead in place and reads on from a
  committed offset, so that documents come again; `Restart`, at any moment,
  empties the process and reads on from any offset, so that what was in flight or
  read ahead is lost and what was taken but not committed comes again.
  `refetched` and `redelivered` record the documents that may come again: the
  properties that speak of "once" make an exception for exactly those.
- Dialling a peer or an event address, with its `failOver` retries, is one outcome.
- When a registration times out, the goroutine that `register` leaves behind takes
  one message at most and its peer's events are read by nobody, so the address is
  dropped in one step.
- The UPDATE batch of `SetDocsBlockDigest` spans partitions (`id` is the partition
  key), so it is logged and not isolated. Cassandra takes it as a whole
  (`PersistDigest`) and writes its rows one by one (`WriteRow`), between any other
  steps. Under "dbError" it may refuse the batch, or take it without confirming it:
  `invokeCompleted`, which ignores the error, goes on while rows are still to be
  written, and a restart does not stop them. `Awaited` are those rows.
- Cassandra keeps, of two writes to a column, the one with the later timestamp.
  For two UPDATEs of a row with different transactions it is left open which one
  stays. An UPDATE that is applied late is not outweighed by an INSERT issued in
  between: they share only the status column, which only the list by status reads.
- The INSERT batch of the persister is one step: its rows are read one by one
  everywhere, and two batches of one row each show the same tables. One that is
  reported as failed and applied all the same is a `BatchStored` whose confirmation
  comes late.
- A table value is what a QUORUM read sees, which is how writes and all SELECTs but
  one are done. The SELECT by id is done at ONE and returns what one replica holds:
  any value the row has had, or one that is being written, in the columns of the
  INSERT and of the UPDATE independently. A SELECT that fails is answered as if
  there were no row (by id, by hash) or by 404 or invalid (by digest), and
  `VerifyDocs` says no when `execute` fails; so the answers are sets. The several
  SELECTs of one request see one state of the table.
- The API accepts every period that parses. A document of a period that is not
  configured is put into a topic that no consumer reads (`unread` in `PoE`,
  `Topics \ Periods` in `MemoryCache`).
- An event of another kind is modelled where it is received: wherever it stands in
  the stream, it ends the client (`RecvForeign`).
- Messages that are no documents are among those that wait in a topic at the start
  (`garbled`). The retention of the broker shows only at a `Join`: an offset behind
  which documents are gone is out of range, and reading starts at the newest one.
- `Blockchain!Close` stops the clients and clears `items` in one step.
- `KafkaCache!Close` leaves the membership in "closed": the loop behind it has no
  exit, and the goroutines go on until the process ends (`Restart`).

## Runs

| Run | Instance | Result |
|---|---|---|
| `persist_safety` | 2 documents, 1 topic, 2 permits, a channel of 1, batches of 2, refused batches, shutdown, a rebalance or a restart | `TypeOK`, `NothingLost`, `OneCopy`, `EverySubmittedStored` hold and `Transfer` is implemented |
| `persist_shutdown` | 1 document, shutdown | `QueuedReachesDB` is violated |
| `blockchain_safety` | 2 documents, 1 period with limit 2, 2 event clients, 2 transactions, every fault, a rebalance or a restart | `TypeOK`, `DigestBacked`, `BlockWhole`, `RegisteredOnce`, `EventsKept`, `ProofFinal` hold (1.7 million states) |
| `blockchain_race` | 1 document, 1 client, no fault | `RegisteredIsProofed` is violated |
| `poe` | 2 documents, one of them perhaps of an unread period, one transaction, refused INSERT batches, UPDATE batches written row by row, rejected roots, a rebalance of either group, from `Up` | `AnswersBacked`, `InsertedBlockVerifies`, `TableNeverBack`, `OkBecomesValid`, `StoredFirstIsProofed` hold |
| `poe_register_list` | 1 document, no fault | `RegisterListUnproofed` is violated |
| `poe_ok_result` | 1 document, no fault | `StatusOkResultFound` is violated |
| `kafka_delivery` | 2 messages, one there before the start which may be no document, 2 topics with channels of 1 and 2, a new group, an offset out of range, failing commits, Close, a rebalance or a restart | `TypeOK`, `CommittedWasSent`, `TwiceOnlyIfUncommitted`, `SettledIsHanded` hold |
| `kafka_race` | 1 document, no fault | `SubscriberGets` is violated |
| `balance` | 3 peers, any of them up, 2 callers, 8 choices | `Balanced`, `ConnectsIfAlone` hold |
| `memory_kept` | 2 documents, 3 topics of which 2 are polled, 2 consumers | `KeptOrRead`, `SomeConsumerGets` hold |
| `memory_subscribers` | 1 document, 2 consumers | `EverySubscriberGets` is violated |

What the violated properties say of the code:

- `persist_shutdown`. `persist.Close` looks at `docsChan` and `docQueue`. A batch
  that has left the queue is in neither; the session is closed under it, and
  `PutDocsIntoDB` logs the error and returns nil.
- `blockchain_race`. The event of a transaction can be handled before
  `RegisterProof` has stored its documents in `items`. The handler finds nothing
  and returns; the documents are on the chain and stay unproofed in the table,
  and their entry stays in `items`.
- `poe_register_list` and `poe_ok_result`. The INSERT and the UPDATE come in
  either order. INSERT second: the status column goes back to NOT_PROOFED and the
  document is listed as registered only. UPDATE first: the status of the document
  is ok while its result, looked up by hash, is not found.
- `kafka_race`. The feeder and the first Get of a topic may both find no channel
  and both create one. The second creation replaces the first channel; a document
  that the feeder has already sent into it is read by nobody, and its offset is
  marked, so that not even a restart brings it back once it is committed.
- `memory_subscribers`. `Get` deletes what it returns for every consumer, so with
  the memory cache a document is either stored or registered, not both.

Limits that the passing properties make explicit:

- An answer can be taken back. A SELECT that fails is answered "none", and a replica
  that is behind says "wait" after another one has said "ok". `TableNeverBack` is
  therefore a property of the table, as QUORUM reads see it, and what holds of every
  answer is `AnswersBacked`: "ok" and "valid" are never said without a proof.
- The table can show a part of a block, for as long as Cassandra is writing it; a
  result asked for meanwhile is "invalid". `BlockWhole` says that the missing rows
  are then still to be written, `InsertedBlockVerifies` waits for them, and
  `OkBecomesValid` says that they come.
- A document of a period that is not configured gets an id and is neither stored
  nor proofed. `EverySubmittedStored` and `SomeConsumerGets` speak of configured
  periods, which in `poe.yaml` is 1m only, while `README.md` offers 1m to 24h.
- A client that an event of another kind, a broken stream or a late registration has
  ended is not started again: no property promises a proof once every client is gone.
- `SettledIsHanded` starts when every topic has its channel and nobody is about to
  replace one: before that the race above loses documents.
- `CommittedWasSent` says that a document was put into a channel, not that Get
  returned it. Offsets are marked at the channel, so a restart loses what the
  channels hold: `Persist!Restart` and `Blockchain!Restart` therefore drop
  documents, and `givenUp` counts them.
- A document that comes to the blockchain handler twice can be registered twice. A
  later block takes its row over, and the earlier block can no longer be
  recomputed from the table. `BlockWhole`, `ProofFinal` and the properties of
  `PoE` that depend on a whole block (`BlockOnce`) exclude blocks with such a
  document, and no others.
- The loop of `execute` counts to the length of the ring, but other callers move
  the ring meanwhile, so that two executes can hand each other the one peer that
  is up. `ConnectsIfAlone` holds only for an execute that no other caller's Choose
  comes into.

Bounds, all in the `.cfg` files, and why they are enough:

- `MaxFetch` (period goroutines of a topic that have not called Get) and `Pulls`
  (those that hold documents) bound goroutines that a slow cache would let pile
  up; more of them only add competitors for the channel.
- A channel of one place and a batch of two make the full channel, the full queue
  and the short queue that times out happen with two documents.
- `MaxBreaks` and `MaxFaults` are 1: one rebalance or restart already repeats or
  drops any subset that an offset can describe; a second repeats the same step
  from a state with other documents in it. The theorems hold for any number of
  them.
- `MaxDocs` is 2: two documents of the topic whose channel has one place stop the
  feeder at the full channel; with one document in each topic a rebalance makes
  the first come again and stop the feeder in front of the other topic.
- `MaxTx` and `Events`: two transactions can be confused with each other, and two
  clients deliver every event twice. `poe` has one transaction, which can hold
  both documents or one, and starts `Up`: what two transactions and the
  registration do to each other is the business of `blockchain_safety`.
  A refused or unconfirmed UPDATE is in `blockchain_safety` only: in `poe` the
  liveness properties need the batches to be taken.
- An offset is out of range only after a rebalance or a restart; at the first join
  the new group shows the same start. A message that is no document is in the
  backlog only, so that documents come after it.
- `MaxChoose` lets the ring turn more than twice.

`CHECK_DEADLOCK FALSE` stands where the instance may stop: the blockchain handler
when every document has been registered, the balancer at `MaxChoose`.

## Fairness

- Goroutines that can run do run (weak fairness): the Go scheduler.
- The cases of the persister's `select` (strong): Go picks at random among the
  ready cases, and both tickers keep firing.
- `Get` and `Send` of the period goroutines (strong): a goroutine that waits on a
  channel is queued there and served in turn.
- `Tick` and the steps of `RegisterProof` and `invokeCompleted` (weak): tickers
  fire and calls return. Dialling has a timeout; Invoke has none in the code, so
  the assumption is that a peer which took a call answers or breaks the connection.
- `eventStart` (weak), `PeerLists` and `PeerReplies` (weak, external): a peer that
  was asked for a registration answers, in time or not.
- `Commit` (weak): the chain executes what it has taken. External.
- `WriteRow` (weak): Cassandra writes a batch that it has logged, by replaying its
  batch log if need be. External.
- `Recv` (weak): a client that runs receives what is on its stream. Nothing is
  assumed of a client that has ended.
- `KafkaCache`: `Subscribe` and `Join` (weak): the consumer subscribes at its
  start, and the group protocol ends in an assignment. The feeder's and Get's own
  steps (weak). `FeederReceive` of each topic (strong): the partitions of a member
  feed one Go channel, and a sender that waits there is served in turn. `GetCall`
  of each topic (strong): the period's goroutine polls on a ticker, however often
  the other periods do.
- `Get` of the memory cache (weak), for the configured periods: both consumers poll
  those, and no others, on a ticker.
- The shutdown's own steps (weak); nothing forces a signal, a submission, a commit
  of offsets or a fault.

## Proofs

Every safety property that a passing run checks, the refinement of `Transfer`
included, is stated by a theorem and proved for every value of the constants that
satisfies these assumptions:

- `PersistAssumption`: limits and sizes are naturals, and the channel has a place
  (the code replaces a capacity that is not positive).
- `BlockchainAssumption`: limits are naturals, and there is an event address
  (`NewBlockchain` refuses none).
- `PoEAssumption`: both of these, for the composition.
- `KafkaCacheAssumption`: limits are naturals (a limit that does not parse is 0: its
  channel takes nothing), a topic starts with a number of documents, and the names
  of the callers differ from the two that the model uses itself.
- `BalanceAssumption`: finitely many peers, and at least one (`NewBlockchain`
  refuses an empty list).
- `MemoryCacheAssumption`: the count of a Get is a natural, and the polled topics are
  topics.

There is no bound on the number of documents, topics, workers, callers, clients,
transactions, peers, rebalances or restarts.

### The pipeline (`PersistProofs`)

- `TypeCorrect`: `Spec => []TypeOK`. The size of the queue is the part that needs
  care: only a main loop that waits for a permit may have a full queue, so
  `TypeOK` ties `pc` to the queue's length and is inductive.
- `NothingIsLost`: `Spec => []NothingLost`. Inductive together with `TypeOK`.
  Every step is one of: a document enters, a sequence is split between two places,
  a batch becomes rows (`PutDocsIntoDBInserts`) or is given up, a rebalance reads
  documents of the topic again, a restart gives up what it does not.
- `OneCopyHolds`: `Spec => []OneCopy`. `CopyInv` adds that each topic has its
  documents once and that no two topics share one (`TopicsApart`), since what a
  rebalance reads again comes from there. The places of the pipeline are a family
  (`Spread`), and each of its moves is one of the forms in `Moves`: append, take a
  prefix, forward the head.
- `TransferImplemented`: `Spec => ImplementsTransfer`. `StepRefines` maps each step
  to a step of `Transfer` or to a stutter. It needs `CopyInv`: a batch that leaves
  takes its documents out of `waiting` only if there was no other copy of them.

### The blockchain handler (`BlockchainProofs`)

- `BlockchainTypeCorrect`: `Spec => []TypeOK` under every fault. The invariant has
  one part for each group of variables (`ProvingOK` to `HistoryOK`), and each
  action's proof speaks of the parts it disturbs.
- `DigestsAreBacked`: `Spec => []DigestBacked`. Not inductive alone: the UPDATE
  happens a step after the payload was checked. `BackedInv` adds `HandlerBacked` (a
  handler about to write holds documents whose root its transaction registered and
  the chaincode accepted), `BatchBacked` (so does a batch that Cassandra has yet to
  write, whoever has forgotten it) and `AcceptedRegistered` (an accepted transaction has a
  root, so Invoke never gives it another one).
- `DocumentsRegisteredOnce`: `Spec => []RegisteredOnce`. `OnceInv` adds
  `QueuedOnce`: a document that came once is in one of the queues (what is to be
  read, the batch of a period on its way to Invoke) or in one block, never in both.
  `LeavesOK` says what a leaf on the chain looks like.
- `ProofsAreFinal`: `Spec => ProofFinal`, from `OnceInv` and `BackedInv`, by
  `DigestsStay`: the block that would replace a digest is a second one with the
  document, so the document came twice.
- `BlocksAreWhole`: `Spec => []BlockWhole`. `WholeInv` follows a batch: as soon as
  one row is written, or to be written, the rows written for the transaction
  (`Written`) and those still to be written (`Logged`) are all of its documents.
  It is what a logged batch gives: all rows in the end, and none earlier than
  another. Handlers of the same event log the same batch, and a restart leaves it.
- `EventsAreKept`: `Spec => []EventsKept`. `EventsKept` speaks of clients that run;
  `AllKept` says it of all, since the peer sends while the registration is waiting.

### The service (`PoEProofs`)

The module instantiates `BlockchainProofs` over the state of the service and so
has its lemmas. `Consumers` shows that every step is a step of the handler or one
of the persister, of which the handler sees only that rows are inserted;
`HandlerInvHolds` carries the handler's invariants over.

- `InsertedBlocksVerify`: `Spec => []InsertedBlockVerifies`, from `BlockWhole` and
  `LeavesOK`: the rows under the digest, when none is awaited, give the leaves that
  the chain has.
- `TableIsNeverTakenBack`: `Spec => TableNeverBack`, for steps of either component,
  in either order of INSERT and UPDATE (`RowsKept`). A block that verifies is whole
  (`VerifiesWhole`), so no row that is written later joins it.
- `AnswersAreBacked`: `Spec => []AnswersBacked`. `SeenInv` says it of every value
  that a row has ever had, since a replica may answer with any of them; with
  `BatchBacked` it covers what is being written.

### The Kafka cache (`KafkaCacheProofs`)

- `KafkaCacheTypeCorrect`: `Spec => []TypeOK`. `TypeInv` adds `Stage`, what each
  stage of a goroutine says of the rest of its state; with it nobody uses a channel
  that nobody made.
- `CommittedOffsetsWereSent`: `Spec => []CommittedWasSent`. `CommitInv` follows an
  offset on its way: everything up to the committed and the marked offset was sent
  or is no document (`SentUpTo`), and what was read was sent, left out or is in the
  feeder's hand, with nothing unsent before it (`FeederBehind`).
- `TwiceOnlyAfterJoin`: `Spec => []TwiceOnlyIfUncommitted`. `TwiceInv`: of the
  documents that no Join read again, each has one copy among the channels and the
  callers' hands, also in channels that were replaced (`Once`), and what the feeder
  has yet to send was not sent before (`Ahead`).

### The balancer and the memory cache

- `BalanceProofs!LoadIsBalanced`: `Spec => []Balanced`. From the ring's position on,
  the peers are sorted by how often they were chosen, and the counts differ by one
  at most (`Spread`).
- `BalanceProofs!AloneConnects`: `Spec => []ConnectsIfAlone`. A loop with k failed
  dials that nobody disturbed has the last k peers of the ring behind it, none of
  them up (`LoopOK`).
- `MemoryCacheProofs!DocumentsAreKept`: `Spec => []KeptOrRead`, inductive with the
  types of the state.

Only model-checked: the liveness properties `EverySubmittedStored`,
`OkBecomesValid`, `StoredFirstIsProofed`, `SettledIsHanded` and `SomeConsumerGets`
(liveness under fairness is out of the prover's reach), and the properties that are
violated, whose counterexamples TLC finds.

## Not modelled

- Wire formats, hashing, the Merkle tree's shape, TLS and key arithmetic: library
  code, or data that no property tells apart.
- The signature of a valid result (`sign/ecdsa.go`, `SetDocSignature`): a column
  that only result requests read and write; any signature written there verifies.
- `DocProofStat`: it counts rows, and nothing depends on the counts.
- `balance.go` Add and Remove, `cassandra.go` FindRegisteredDocs and
  FindProofedDocs, `event.go` Recv and unregister: no caller.
- Data races that end the process: `MemoryCache.Get` reads `customerTopics`
  outside the mutex (`memory.go:86`).
- The order of the callbacks in `main`'s signal handler: those behind the Kafka
  cache's Close never run, since it never returns. Each component is checked with
  its own Close and with a process that ends at any moment instead.
- A restart of the whole service in `PoE`: it would join `Persist!Restart` and
  `Blockchain!Restart`, whose effects on the table are checked in each module.

## Plan

Done: `Documents`, `Persist` with `Transfer`, `Blockchain` with the events client,
`KafkaCache`, `PoE`, `Balance`, `MemoryCache`, rebalances and restarts; a theorem
for every safety property of a passing run.

Next, in this order:

1. Theorems about the service that need both components: `NothingLost` and
   `OneCopy` of the pipeline carried over to `PoE`, as `HandlerInvHolds` does for
   the handler's invariants.
2. Operators for submission (period and application defaults, predicted proof
   time), lists and `DocProofStat`, against reference definitions.
3. The signature path of the API: the key pair loaded by the first signature, a
   restart, concurrent requests for one document.
