------------------------------ MODULE Persist ------------------------------
(***************************************************************************)
(* The persister: continuePersist pulls documents from the cache and       *)
(* writes them into the database in batches.                               *)
(*                                                                         *)
(*   cache --Get--> period goroutine --docsChan--> main loop (docQueue)    *)
(*         --batch--> put goroutine --PutDocsIntoDB--> table               *)
(*                                                                         *)
(* The main loop is one goroutine in a select over two tickers and         *)
(* docsChan.  Both kinds of worker it starts take a permit of the          *)
(* semaphore workerCtrl first, so the main loop itself stops while all     *)
(* permits are taken.  Close, called by the signal handler, polls docsChan *)
(* and docQueue and closes the database session.                           *)
(***************************************************************************)
EXTENDS Documents, FiniteSets

CONSTANTS
  Topics,     \* one cache topic for each configured period
  Limit,      \* Limit[t]: most documents one Get takes from topic t
  ChanCap,    \* capacity of docsChan (persist.chancap)
  QueueSize,  \* documents that make a batch (persist.queueSize)
  Workers,    \* the permits of workerCtrl (persist.workers of them)
  Pulls,      \* bound: period goroutines that hold documents at once
  MaxFetch,   \* bound: period goroutines of a topic that have not called Get
  MaxBreaks,  \* bound: restarts, and rebalances of the consumer group
  Env         \* what the environment may do, see below

EnvKinds == {"dbError",    \* Cassandra refuses an INSERT batch
             "shutdown",   \* a signal handler calls Close
             "rebalance",  \* the cache reads documents a second time
             "restart"}    \* the process ends and is started again

ASSUME PersistAssumption ==
  /\ Limit \in [Topics -> Nat]
  /\ ChanCap \in Nat \ {0}
  /\ QueueSize \in Nat
  /\ MaxFetch \in Nat \ {0}
  /\ MaxBreaks \in Nat
  /\ Env \subseteq EnvKinds

VARIABLES
  cached,     \* cached[t]: documents of topic t the persister has yet to Get
  fetching,   \* fetching[t]: period goroutines about to Get topic t
  hand,       \* hand[p]: documents goroutine p took and has yet to send
  docsChan,   \* the channel docsChan
  docQueue,   \* the batch being collected
  pc,         \* main loop: in "select", or in Acquire for a "fetch" or a "put"
  fetchers,   \* permits held by workers that start period goroutines
  putting,    \* putting[w]: the batch written under permit w
  closer,     \* where the shutdown is in Close
  db,         \* the table
  topic,      \* topic[t]: every document the cache ever held, in order
  breaks,     \* restarts and rebalances so far
  refetched,  \* history: documents the persister may Get a second time
  givenUp     \* history: documents of refused batches, or dropped by a restart

moving == <<cached, fetching, hand, docsChan, docQueue, fetchers, putting>>
delivery == <<topic, breaks, refetched>>
vars == <<moving, pc, closer, db, delivery, givenUp>>

-----------------------------------------------------------------------------
(* The documents between the cache and the table. *)
Held(f) == UNION {Range(f[x]) : x \in DOMAIN f}

submitted == Held(topic)

InFlight == Held(cached) \cup Held(hand) \cup Range(docsChan)
              \cup Range(docQueue) \cup Held(putting)

Stored == {d \in Docs : db[d].inserted}

Free(w) == w \notin fetchers /\ putting[w] = << >>

-----------------------------------------------------------------------------
(* The cache makes a document of topic t available to the persister. *)
Submit(d, t) ==
  /\ d \notin submitted
  /\ cached' = [cached EXCEPT ![t] = Append(@, d)]
  /\ topic' = [topic EXCEPT ![t] = Append(@, d)]
  /\ UNCHANGED <<fetching, hand, docsChan, docQueue, fetchers, putting,
                 pc, closer, db, breaks, refetched, givenUp>>

(* cacheCheckTicker fires: the main loop goes on to Acquire a permit.      *)
(* MaxFetch bounds the goroutines that a slow cache would let pile up.     *)
CacheCheckTick ==
  /\ pc = "select"
  /\ \A t \in Topics : fetching[t] + Cardinality(fetchers) < MaxFetch
  /\ pc' = "fetch"
  /\ UNCHANGED <<moving, closer, db, delivery, givenUp>>

AcquireFetch(w) ==
  /\ pc = "fetch"
  /\ Free(w)
  /\ fetchers' = fetchers \cup {w}
  /\ pc' = "select"
  /\ UNCHANGED <<cached, fetching, hand, docsChan, docQueue, putting,
                 closer, db, delivery, givenUp>>

(* The worker starts one goroutine for each period and releases its permit *)
(* without waiting for them.                                               *)
GetDocumentsFromCache(w) ==
  /\ w \in fetchers
  /\ fetching' = [t \in Topics |-> fetching[t] + 1]
  /\ fetchers' = fetchers \ {w}
  /\ UNCHANGED <<cached, hand, docsChan, docQueue, putting,
                 pc, closer, db, delivery, givenUp>>

(* A period goroutine calls Get: it receives the oldest documents of the   *)
(* topic, at most Limit of them, and ends when there are none.             *)
Get(t, p) ==
  LET n == IF Len(cached[t]) < Limit[t] THEN Len(cached[t]) ELSE Limit[t]
  IN  /\ fetching[t] > 0
      /\ hand[p] = << >>
      /\ fetching' = [fetching EXCEPT ![t] = @ - 1]
      /\ hand' = [hand EXCEPT ![p] = SubSeq(cached[t], 1, n)]
      /\ cached' = [cached EXCEPT ![t] = From(@, n)]
      /\ UNCHANGED <<docsChan, docQueue, fetchers, putting,
                     pc, closer, db, delivery, givenUp>>

(* dc <- doc: the goroutine waits while docsChan is full.                  *)
Send(p) ==
  /\ hand[p] # << >>
  /\ Len(docsChan) < ChanCap
  /\ docsChan' = Append(docsChan, Head(hand[p]))
  /\ hand' = [hand EXCEPT ![p] = Tail(@)]
  /\ UNCHANGED <<cached, fetching, docQueue, fetchers, putting,
                 pc, closer, db, delivery, givenUp>>

(* A plausible slip: the batch goes out one document late.                 *)
ReceiveOffByOne ==
  /\ pc = "select"
  /\ docsChan # << >>
  /\ docsChan' = Tail(docsChan)
  /\ docQueue' = Append(docQueue, Head(docsChan))
  /\ pc' = IF Len(docQueue') <= QueueSize THEN "select" ELSE "put"
  /\ UNCHANGED <<cached, fetching, hand, fetchers, putting,
                 closer, db, delivery, givenUp>>

(* case doc := <-docsChan: queue it; a full queue goes to the database.    *)
Receive ==
  /\ pc = "select"
  /\ docsChan # << >>
  /\ docsChan' = Tail(docsChan)
  /\ docQueue' = Append(docQueue, Head(docsChan))
  /\ pc' = IF Len(docQueue') < QueueSize THEN "select" ELSE "put"
  /\ UNCHANGED <<cached, fetching, hand, fetchers, putting,
                 closer, db, delivery, givenUp>>

(* A plausible slip: a short queue waits for more documents. *)
QueueTimeoutFullOnly ==
  /\ pc = "select"
  /\ Len(docQueue) >= QueueSize
  /\ pc' = "put"
  /\ UNCHANGED <<moving, closer, db, delivery, givenUp>>

(* queueTimeoutTicker fires: even a short queue goes to the database.      *)
QueueTimeout ==
  /\ pc = "select"
  /\ docQueue # << >>
  /\ pc' = "put"
  /\ UNCHANGED <<moving, closer, db, delivery, givenUp>>

(* A plausible slip: the queue is reset before the goroutine copies it, so *)
(* the batch loses its last document.                                      *)
PutDocumentsIntoDBTruncated(w) ==
  /\ pc = "put"
  /\ Free(w)
  /\ putting' = [putting EXCEPT ![w] = SubSeq(docQueue, 1, Len(docQueue) - 1)]
  /\ docQueue' = << >>
  /\ pc' = "select"
  /\ UNCHANGED <<cached, fetching, hand, docsChan, fetchers,
                 closer, db, delivery, givenUp>>

(* A plausible slip: the queue is not reset after its copy went out.       *)
PutDocumentsIntoDBNoReset(w) ==
  /\ pc = "put"
  /\ Free(w)
  /\ putting' = [putting EXCEPT ![w] = docQueue]
  /\ pc' = "select"
  /\ UNCHANGED <<cached, fetching, hand, docsChan, docQueue, fetchers,
                 closer, db, delivery, givenUp>>

(* putDocumentsIntoDB: once a permit is free a goroutine gets a copy of    *)
(* the queue, and the main loop starts a new queue.                        *)
PutDocumentsIntoDB(w) ==
  /\ pc = "put"
  /\ Free(w)
  /\ putting' = [putting EXCEPT ![w] = docQueue]
  /\ docQueue' = << >>
  /\ pc' = "select"
  /\ UNCHANGED <<cached, fetching, hand, docsChan, fetchers,
                 closer, db, delivery, givenUp>>

(* The put goroutine's batch is executed and its permit released.          *)
BatchStored(w) ==
  /\ putting[w] # << >>
  /\ closer # "closed"
  /\ db' = PutDocsIntoDB(db, putting[w])
  /\ putting' = [putting EXCEPT ![w] = << >>]
  /\ UNCHANGED <<cached, fetching, hand, docsChan, docQueue, fetchers,
                 pc, closer, delivery, givenUp>>

(* The batch fails, always so once the session is closed: PutDocsIntoDB    *)
(* logs a warning and returns nil, and the documents are gone.  (A batch   *)
(* that is reported as failed and applied all the same is a BatchStored    *)
(* whose confirmation is late.)                                            *)
BatchRefused(w) ==
  /\ putting[w] # << >>
  /\ closer = "closed" \/ "dbError" \in Env
  /\ givenUp' = givenUp \cup Range(putting[w])
  /\ putting' = [putting EXCEPT ![w] = << >>]
  /\ UNCHANGED <<cached, fetching, hand, docsChan, docQueue, fetchers,
                 pc, closer, db, delivery>>

-----------------------------------------------------------------------------
(* Close: read len(docsChan), then len(docQueue), sleep and start over     *)
(* unless both were 0, then close the session.                             *)
Signal ==
  /\ "shutdown" \in Env
  /\ closer = "running"
  /\ closer' = "checkChan"
  /\ UNCHANGED <<moving, pc, db, delivery, givenUp>>

CloseSeesChan ==
  /\ closer = "checkChan"
  /\ docsChan = << >>
  /\ closer' = "checkQueue"
  /\ UNCHANGED <<moving, pc, db, delivery, givenUp>>

CloseSeesQueue ==
  /\ closer = "checkQueue"
  /\ closer' = IF docQueue = << >> THEN "closing" ELSE "checkChan"
  /\ UNCHANGED <<moving, pc, db, delivery, givenUp>>

CloseSession ==
  /\ closer = "closing"
  /\ closer' = "closed"
  /\ UNCHANGED <<moving, pc, db, delivery, givenUp>>

-----------------------------------------------------------------------------
(* The cache's group rebalances: what it has read ahead stays, and it reads*)
(* on from the committed offset, which lies behind documents it has already*)
(* handed over.                                                            *)
Rebalance(t) ==
  /\ "rebalance" \in Env
  /\ breaks < MaxBreaks
  /\ \E ahead \in 0 .. Len(cached[t]), offset \in 0 .. Len(topic[t]) :
       LET read == From(topic[t], offset)
           left == From(cached[t], ahead)
       IN  /\ Range(left) \subseteq Range(read)
           /\ cached' = [cached EXCEPT ![t] = SubSeq(@, 1, ahead) \o read]
           /\ refetched' = refetched \cup (Range(read) \ Range(left))
  /\ breaks' = breaks + 1
  /\ UNCHANGED <<fetching, hand, docsChan, docQueue, fetchers, putting,
                 pc, closer, db, topic, givenUp>>

(* The process ends, in Close or anywhere else, and starts again: the      *)
(* channel, the queue and the goroutines are gone.  The cache reads on from*)
(* the committed offset: what lies before it and was not stored is lost,   *)
(* what was taken after it is taken again.                                 *)
Restart ==
  /\ "restart" \in Env
  /\ breaks < MaxBreaks
  /\ \E offset \in [Topics -> UNION {0 .. Len(topic[t]) : t \in Topics}] :
       /\ \A t \in Topics : offset[t] <= Len(topic[t])
       /\ cached' = [t \in Topics |-> From(topic[t], offset[t])]
  /\ refetched' = refetched \cup (Held(cached') \ Held(cached))
  /\ givenUp' = givenUp \cup (InFlight \ Held(cached'))
  /\ fetching' = [t \in Topics |-> 0]
  /\ hand' = [p \in Pulls |-> << >>]
  /\ docsChan' = << >>
  /\ docQueue' = << >>
  /\ pc' = "select"
  /\ fetchers' = {}
  /\ putting' = [w \in Workers |-> << >>]
  /\ closer' = "running"
  /\ breaks' = breaks + 1
  /\ UNCHANGED <<db, topic>>

-----------------------------------------------------------------------------
Init ==
  /\ cached = [t \in Topics |-> << >>]
  /\ fetching = [t \in Topics |-> 0]
  /\ hand = [p \in Pulls |-> << >>]
  /\ docsChan = << >>
  /\ docQueue = << >>
  /\ pc = "select"
  /\ fetchers = {}
  /\ putting = [w \in Workers |-> << >>]
  /\ closer = "running"
  /\ db = EmptyTable
  /\ topic = [t \in Topics |-> << >>]
  /\ breaks = 0
  /\ refetched = {}
  /\ givenUp = {}

MainLoop == \/ CacheCheckTick
            \/ \E w \in Workers : AcquireFetch(w)
            \/ Receive
            \/ QueueTimeout
            \/ \E w \in Workers : PutDocumentsIntoDB(w)

Goroutines == \/ \E w \in Workers : \/ GetDocumentsFromCache(w)
                                    \/ BatchStored(w)
                                    \/ BatchRefused(w)
              \/ \E t \in Topics, p \in Pulls : Get(t, p)
              \/ \E p \in Pulls : Send(p)

Close == Signal \/ CloseSeesChan \/ CloseSeesQueue \/ CloseSession

(* What the persister itself does, whoever fills the cache. *)
PersistNext == MainLoop \/ Goroutines \/ Close

Next == \/ \E d \in Docs, t \in Topics : Submit(d, t)
        \/ PersistNext
        \/ \E t \in Topics : Rebalance(t)
        \/ Restart

Spec == Init /\ [][Next]_vars

(* Goroutines that can run do run; both tickers keep firing; and select    *)
(* picks at random among the cases that are ready, so none of them loses   *)
(* for ever (strong fairness).                                             *)
Fairness ==
  /\ SF_vars(CacheCheckTick) /\ SF_vars(Receive) /\ SF_vars(QueueTimeout)
  /\ WF_vars(\E w \in Workers : AcquireFetch(w) \/ PutDocumentsIntoDB(w))
  /\ \A w \in Workers :
       WF_vars(GetDocumentsFromCache(w) \/ BatchStored(w) \/ BatchRefused(w))
  /\ \A t \in Topics : SF_vars(\E p \in Pulls : Get(t, p))
  /\ \A p \in Pulls : SF_vars(Send(p))
  /\ WF_vars(CloseSeesChan \/ CloseSeesQueue \/ CloseSession)

FairSpec == Spec /\ Fairness

-----------------------------------------------------------------------------
BatchMax == IF QueueSize > 0 THEN QueueSize ELSE 1

(* Types, with the bounds that Go's channel and the batch size give: the   *)
(* queue never exceeds persist.queueSize, and while the main loop selects  *)
(* it is short of it.                                                      *)
TypeOK ==
  /\ cached \in [Topics -> Seq(Docs)]
  /\ fetching \in [Topics -> Nat]
  /\ hand \in [Pulls -> Seq(Docs)]
  /\ docsChan \in Seq(Docs) /\ Len(docsChan) <= ChanCap
  /\ docQueue \in Seq(Docs) /\ Len(docQueue) <= BatchMax
  /\ pc \in {"select", "fetch", "put"}
  /\ pc # "put" => Len(docQueue) < BatchMax
  /\ fetchers \subseteq Workers
  /\ putting \in [Workers -> Seq(Docs)]
  /\ \A w \in Workers : Len(putting[w]) <= BatchMax
  /\ closer \in {"running", "checkChan", "checkQueue", "closing", "closed"}
  /\ db \in [Docs -> Rows]
  /\ topic \in [Topics -> Seq(Docs)]
  /\ breaks \in 0 .. MaxBreaks
  /\ refetched \subseteq Docs
  /\ givenUp \subseteq Docs

(* Every document the cache ever held is still to come, in exactly the     *)
(* hands continuePersist moves it through, in the table, in a batch the    *)
(* database refused, or was dropped by a restart: no interleaving of the   *)
(* tickers, the period goroutines, the permit wait and the batch goroutines*)
(* loses one.                                                              *)
NothingLost == submitted = InFlight \cup Stored \cup givenUp

(* Where a document can be between the cache and the table. *)
Places == ({"cache"} \X Topics) \cup ({"hand"} \X Pulls)
            \cup ({"put"} \X Workers) \cup {<<"chan", 0>>, <<"queue", 0>>}

At(p) == CASE p[1] = "cache" -> cached[p[2]]
           [] p[1] = "hand"  -> hand[p[2]]
           [] p[1] = "put"   -> putting[p[2]]
           [] p[1] = "chan"  -> docsChan
           [] p[1] = "queue" -> docQueue

(* A document is in one place at a time and, once its batch has been       *)
(* executed, in none: continuePersist INSERTs a document twice only if the *)
(* cache delivered it twice.  A second INSERT would set proofStatus back to*)
(* NOT_PROOFED.                                                            *)
OneCopy ==
  /\ \A p, q \in Places : \A i \in DOMAIN At(p), j \in DOMAIN At(q) :
       At(p)[i] = At(q)[j] /\ At(p)[i] \notin refetched => p = q /\ i = j
  /\ InFlight \cap (Stored \cup givenUp) \subseteq refetched

(* Every document of a configured period that the cache accepts reaches the*)
(* table, unless its batch was refused or a restart dropped it, with as few*)
(* as one permit and however little channel capacity there is: the main    *)
(* loop's wait for a permit cannot end in everyone waiting for everyone.   *)
EverySubmittedStored ==
  \A d \in Docs : d \in submitted ~> d \in Stored \cup givenUp

(* poe.yaml promises of the queue timeout that "if timeout, even only one  *)
(* document, also put into DB": a document that reached the main loop      *)
(* is in the table when Close has ended.                                   *)
QueuedReachesDB == \A d \in Docs : d \in Range(docQueue) ~> d \in Stored

(* The pipeline implements Transfer. *)
T == INSTANCE Transfer WITH waiting <- InFlight, stored <- Stored, again <- refetched

ImplementsTransfer == T!Spec
=============================================================================
