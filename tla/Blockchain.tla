----------------------------- MODULE Blockchain -----------------------------
(***************************************************************************)
(* The blockchain handler: continueProof registers the documents of each   *)
(* period on the chain, and invokeCompleted records in the table that the  *)
(* chain has accepted them.                                                *)
(*                                                                         *)
(*   cache --Get--> period goroutine --Invoke--> peer --> chain            *)
(*                       |  txid -> docs (items)            |              *)
(*   table <-- invokeCompleted <-- eventStart <-- streams --+              *)
(*                                                                         *)
(* The map items carries the documents from the goroutine that registered  *)
(* them to the one that handles the event.  It is filled after Invoke      *)
(* returns, and the event comes over another connection, so the two are    *)
(* not ordered.  The peers and the chaincode are external: they are        *)
(* modelled by what Invoke, Query and the event stream show of them.       *)
(***************************************************************************)
EXTENDS Documents, FiniteSets

CONSTANTS
  Topics,  \* one cache topic for each configured period
  Limit,   \* Limit[t]: most documents one Get takes from topic t
  Events,  \* number of addresses in blockchain.events
  MaxTx,   \* bound: transactions the chain accepts
  MaxBreaks,  \* bound: restarts, and rebalances of the consumer group
  Faults   \* what may go wrong: see FaultKinds

FaultKinds == {"dial",        \* an event address cannot be reached
               "timeout",     \* a registration gets no answer in regTimeout
               "refused",     \* execute fails before the peer has the call
               "lostReply",   \* execute fails after the peer has the call
               "rejected",    \* the event's payload lacks the root
               "foreign",     \* the stream carries an event of another kind
               "disconnect",  \* an event stream breaks
               "dbError",     \* Cassandra refuses the UPDATE batch, or takes
                              \* it and does not confirm it in time
               "shutdown",    \* a signal handler calls Close
               "rebalance",   \* the cache reads documents a second time
               "restart"}     \* the process ends and is started again

ASSUME BlockchainAssumption ==
  /\ Limit \in [Topics -> Nat]
  /\ Events \in Nat \ {0}
  /\ MaxTx \in Nat
  /\ MaxBreaks \in Nat
  /\ Faults \subseteq FaultKinds

Txs == 1 .. MaxTx
Clients == 1 .. Events

VARIABLES
  pending,    \* pending[t]: documents of topic t this consumer has yet to Get
  prover,     \* prover[t]: where the goroutine of period t is in RegisterProof
  items,      \* items[tx]: the documents stored under tx, << >> for none
  eventPc,    \* eventStart: "start", "register", "select" or "returned"
  dialled,    \* event addresses eventStart has tried
  eClis,      \* clients that were started
  running,    \* clients whose processEvents is running
  peer,       \* external: peer[c], what the peer did about c's registration
  streams,    \* streams[c]: messages sent to client c and not yet received
  handlers,   \* handlers[c][tx]: invokeCompleted for the event of tx from c
  chain,      \* external: chain[tx] is the root tx registers
  committed,  \* external: transactions whose event has been sent
  accepted,   \* external: those whose root the chaincode recorded
  batches,    \* external: batches[c][tx], rows Cassandra has yet to write of
              \* the batch it took from invokeCompleted for tx from c
  db,         \* the table
  topic,      \* topic[t]: every document the cache ever held, in order
  breaks,     \* restarts and rebalances so far
  redelivered,\* history: documents this consumer may get a second time
  owed        \* history: owed[c], events sent to c that it has yet to handle

proving   == <<pending, prover, items>>
listening == <<eventPc, dialled, eClis, running, peer, streams, handlers>>
ledger    == <<chain, committed, accepted>>
table     == <<batches, db>>
history   == <<topic, breaks, redelivered, owed>>
vars == <<proving, listening, ledger, table, history>>

submitted == UNION {Range(topic[t]) : t \in Topics}

-----------------------------------------------------------------------------
(* The states of a RegisterProof. *)
Idle                 == [pc |-> "idle", docs |-> << >>, tx |-> NoTx]
Registering(docs)    == [pc |-> "invoke", docs |-> docs, tx |-> NoTx]
Registered(docs, tx) == [pc |-> "set", docs |-> docs, tx |-> tx]

(* The states of an invokeCompleted. *)
NoCall        == [pc |-> "none", docs |-> << >>]
Called        == [pc |-> "get", docs |-> << >>]
Marking(docs) == [pc |-> "persist", docs |-> docs]
Marked        == [pc |-> "delete", docs |-> << >>]

(* The message of an event stream that is no event: the answer to Register.*)
Reply == 0

(* The Merkle root over the sorted documents, as a bag of leaves: a leaf   *)
(* holds id, submitTime, waitDuration and metadata, which a document from  *)
(* the cache has.                                                          *)
formatDocs(docs) ==
  {<<docs[i], TRUE, Cardinality({j \in 1 .. i : docs[j] = docs[i]})>>
     : i \in DOMAIN docs}

(* The same over rows read back from the table: of a row that was never    *)
(* inserted only the id is there.                                          *)
formatRows(S) == {<<d, db[d].inserted, 1>> : d \in S}

(* VerifyDocs: the chaincode's existence query on the root of the rows.    *)
VerifyDocs(S) ==
  /\ formatRows(S) # NoDigest
  /\ \E tx \in accepted : chain[tx] = formatRows(S)

DocsOf(digest) == {leaf[1] : leaf \in digest}

-----------------------------------------------------------------------------
(* The cache makes a document of topic t available to this consumer. *)
Submit(d, t) ==
  /\ d \notin submitted
  /\ pending' = [pending EXCEPT ![t] = Append(@, d)]
  /\ topic' = [topic EXCEPT ![t] = Append(@, d)]
  /\ UNCHANGED <<prover, items, listening, ledger, table, breaks, redelivered,
                 owed>>

(* Plausible slips: Get ignores its count; Get does not advance.           *)
TickIgnoresLimit(t) ==
  /\ prover[t] = Idle
  /\ pending[t] # << >>
  /\ prover' = [prover EXCEPT ![t] = Registering(pending[t])]
  /\ pending' = [pending EXCEPT ![t] = << >>]
  /\ UNCHANGED <<items, listening, ledger, table, history>>

TickKeepsDocs(t) ==
  /\ prover[t] = Idle
  /\ pending[t] # << >>
  /\ prover' = [prover EXCEPT ![t] = Registering(<<Head(pending[t])>>)]
  /\ UNCHANGED <<pending, items, listening, ledger, table, history>>

(* The period's ticker fires: Get, and RegisterProof unless it was empty.  *)
Tick(t) ==
  LET n == IF Len(pending[t]) < Limit[t] THEN Len(pending[t]) ELSE Limit[t]
  IN  /\ prover[t] = Idle
      /\ n > 0
      /\ prover' = [prover EXCEPT ![t] = Registering(SubSeq(pending[t], 1, n))]
      /\ pending' = [pending EXCEPT ![t] = From(@, n)]
      /\ UNCHANGED <<items, listening, ledger, table, history>>

(* execute("invoke", "register"): a peer takes the transaction. *)
Invoke(t) ==
  /\ prover[t].pc = "invoke"
  /\ \E tx \in Txs :
       /\ chain[tx] = NoDigest
       /\ \A other \in Txs : other < tx => chain[other] # NoDigest
       /\ chain' = [chain EXCEPT ![tx] = formatDocs(prover[t].docs)]
       /\ prover' = [prover EXCEPT ![t] = Registered(@.docs, tx)]
  /\ UNCHANGED <<pending, items, listening, committed, accepted, table,
                 history>>

(* No peer could be dialled, or the call failed, or its reply was lost:    *)
(* RegisterProof logs a warning and the documents are forgotten.           *)
InvokeFails(t) ==
  /\ \/ prover[t].pc = "invoke" /\ "refused" \in Faults
     \/ prover[t].pc = "set" /\ "lostReply" \in Faults
  /\ prover' = [prover EXCEPT ![t] = Idle]
  /\ UNCHANGED <<pending, items, listening, ledger, table, history>>

(* items.Set(txid, docs), after which RegisterProof returns.               *)
ItemsSet(t) ==
  /\ prover[t].pc = "set"
  /\ items' = [items EXCEPT ![prover[t].tx] = prover[t].docs]
  /\ prover' = [prover EXCEPT ![t] = Idle]
  /\ UNCHANGED <<pending, listening, ledger, table, history>>

-----------------------------------------------------------------------------
(* External: the clients a peer sends events to.  It does so from the      *)
(* moment it has handled Register, before its answer goes out.             *)
Listed == {c \in Clients : peer[c] \in {"listed", "replied"}}

(* External: the chain executes tx, and every listed client is sent the    *)
(* event invoke_completed.  Its payload maps the root to its proof unless  *)
(* the chaincode refused the root.                                         *)
Commit(tx) ==
  /\ chain[tx] # NoDigest
  /\ tx \notin committed
  /\ committed' = committed \cup {tx}
  /\ \/ accepted' = accepted \cup {tx}
     \/ "rejected" \in Faults /\ UNCHANGED accepted
  /\ streams' = [c \in Clients |-> IF c \in Listed THEN Append(streams[c], tx)
                                                   ELSE streams[c]]
  /\ owed' = [c \in Clients |-> IF c \in Listed THEN owed[c] \cup {tx} ELSE owed[c]]
  /\ UNCHANGED <<proving, eventPc, dialled, eClis, running, peer, handlers, chain,
                 table, topic, breaks, redelivered>>

(* External: the peer handles Register, then answers it. *)
PeerLists(c) ==
  /\ peer[c] = "asked"
  /\ peer' = [peer EXCEPT ![c] = "listed"]
  /\ UNCHANGED <<proving, eventPc, dialled, eClis, running, streams, handlers,
                 ledger, table, history>>

PeerReplies(c) ==
  /\ peer[c] = "listed"
  /\ peer' = [peer EXCEPT ![c] = "replied"]
  /\ streams' = [streams EXCEPT ![c] = Append(@, Reply)]
  /\ UNCHANGED <<proving, eventPc, dialled, eClis, running, handlers, ledger,
                 table, history>>

(* Nobody reads the stream of c any more, whatever the peer still sends.   *)
Unread(c) ==
  /\ peer' = [peer EXCEPT ![c] = "none"]
  /\ streams' = [streams EXCEPT ![c] = << >>]
  /\ owed' = [owed EXCEPT ![c] = {}]

(* External: an event stream breaks. *)
Disconnect(c) ==
  /\ "disconnect" \in Faults
  /\ c \in running
  /\ running' = running \ {c}
  /\ Unread(c)
  /\ UNCHANGED <<proving, eventPc, dialled, eClis, handlers, ledger, table,
                 topic, breaks, redelivered>>

-----------------------------------------------------------------------------
(* eventStart dials the next address, opens the stream and sends Register; *)
(* an address where that fails is skipped for good.                        *)
Dial ==
  /\ eventPc = "start"
  /\ dialled < Events
  /\ dialled' = dialled + 1
  /\ \/ eventPc' = "register" /\ peer' = [peer EXCEPT ![dialled'] = "asked"]
     \/ "dial" \in Faults /\ UNCHANGED <<eventPc, peer>>
  /\ UNCHANGED <<proving, eClis, running, streams, handlers, ledger, table,
                 history>>

(* A plausible slip: register takes whatever comes first for its answer.   *)
RegisterAnyReply ==
  /\ eventPc = "register"
  /\ streams[dialled] # << >>
  /\ eventPc' = "start"
  /\ eClis' = eClis \cup {dialled} /\ running' = running \cup {dialled}
  /\ streams' = [streams EXCEPT ![dialled] = Tail(@)]
  /\ UNCHANGED <<proving, dialled, peer, handlers, ledger, table, history>>

(* register receives the first message: the answer starts the client and   *)
(* its processEvents.                                                      *)
RegisterReplied ==
  /\ eventPc = "register"
  /\ streams[dialled] # << >>
  /\ Head(streams[dialled]) = Reply
  /\ eventPc' = "start"
  /\ eClis' = eClis \cup {dialled} /\ running' = running \cup {dialled}
  /\ streams' = [streams EXCEPT ![dialled] = Tail(@)]
  /\ UNCHANGED <<proving, dialled, peer, handlers, ledger, table, history>>

(* The address is given up when an event comes before the answer, or no    *)
(* answer comes in time: the goroutine that register leaves behind takes   *)
(* the late answer, and nobody reads on.                                   *)
RegisterFails ==
  /\ eventPc = "register"
  /\ \/ streams[dialled] # << >> /\ Head(streams[dialled]) # Reply
     \/ "timeout" \in Faults
  /\ eventPc' = "start"
  /\ Unread(dialled)
  /\ UNCHANGED <<proving, dialled, eClis, running, handlers, ledger, table,
                 topic, breaks, redelivered>>

(* With no client eventStart returns, and no event is ever handled.        *)
EventLoop ==
  /\ eventPc = "start"
  /\ dialled = Events
  /\ eventPc' = IF eClis = {} THEN "returned" ELSE "select"
  /\ UNCHANGED <<proving, dialled, eClis, running, peer, streams, handlers, ledger,
                 table, history>>

(* processEvents receives an event: the adapter passes it to eventStart,   *)
(* which starts invokeCompleted.                                           *)
Recv(c) ==
  /\ c \in running
  /\ streams[c] # << >>
  /\ Head(streams[c]) \in Txs
  /\ eventPc = "select"
  /\ handlers' = [handlers EXCEPT ![c][Head(streams[c])] = Called]
  /\ streams' = [streams EXCEPT ![c] = Tail(@)]
  /\ owed' = [owed EXCEPT ![c] = @ \ {Head(streams[c])}]
  /\ UNCHANGED <<proving, eventPc, dialled, eClis, running, peer, ledger, table,
                 topic, breaks, redelivered>>

(* An event of another kind, wherever it stands in the stream, makes the   *)
(* adapter return false: processEvents ends.                               *)
RecvForeign(c) ==
  /\ "foreign" \in Faults
  /\ c \in running
  /\ running' = running \ {c}
  /\ Unread(c)
  /\ UNCHANGED <<proving, eventPc, dialled, eClis, handlers, ledger, table,
                 topic, breaks, redelivered>>

(* A plausible slip: the payload is not searched for the root.             *)
ItemsGetUnchecked(c, tx) ==
  /\ handlers[c][tx].pc = "get"
  /\ handlers' = [handlers EXCEPT ![c][tx] =
                    IF items[tx] # << >>
                    THEN Marking(items[tx])
                    ELSE NoCall]
  /\ UNCHANGED <<proving, eventPc, dialled, eClis, running, peer, streams, ledger,
                 table, history>>

(* invokeCompleted looks the documents up; it returns when there are none, *)
(* or when the payload does not have their root.                           *)
ItemsGet(c, tx) ==
  /\ handlers[c][tx].pc = "get"
  /\ handlers' = [handlers EXCEPT ![c][tx] =
                    IF /\ items[tx] # << >>
                       /\ tx \in accepted
                       /\ chain[tx] = formatDocs(items[tx])
                    THEN Marking(items[tx])
                    ELSE NoCall]
  /\ UNCHANGED <<proving, eventPc, dialled, eClis, running, peer, streams, ledger,
                 table, history>>

(* A plausible slip: an UnloggedBatch, of which any part may fail.         *)
PersistDigestUnlogged(c, tx) ==
  /\ handlers[c][tx].pc = "persist"
  /\ \E part \in SUBSET SetDocsBlockDigest(handlers[c][tx].docs) :
       batches' = [batches EXCEPT ![c][tx] = part]
  /\ handlers' = [handlers EXCEPT ![c][tx] = Marked]
  /\ UNCHANGED <<proving, eventPc, dialled, eClis, running, peer, streams, ledger,
                 db, history>>

(* persister.SetDocsBlockDigest: Cassandra logs the batch, or refuses it.  *)
PersistDigest(c, tx) ==
  /\ handlers[c][tx].pc = "persist"
  /\ \/ batches' = [batches EXCEPT ![c][tx] = SetDocsBlockDigest(handlers[c][tx].docs)]
     \/ "dbError" \in Faults /\ UNCHANGED batches
  /\ handlers' = [handlers EXCEPT ![c][tx] = Marked]
  /\ UNCHANGED <<proving, eventPc, dialled, eClis, running, peer, streams, ledger,
                 db, history>>

(* External: Cassandra writes a row of a batch it has logged, also after it*)
(* has reported a timeout, and after a restart.  Of two UPDATEs of one row *)
(* the one with the later timestamp stays: for a document of two           *)
(* transactions it is left open which one that is.                         *)
WriteRow(c, tx, d) ==
  /\ d \in batches[c][tx]
  /\ batches' = [batches EXCEPT ![c][tx] = @ \ {d}]
  /\ \/ db' = [db EXCEPT ![d] = UpdateRow(@, chain[tx], tx)]
     \/ db[d].blockDigest # NoDigest /\ db[d].txid # tx /\ UNCHANGED db
  /\ UNCHANGED <<proving, listening, ledger, history>>

(* A plausible slip: invokeCompleted leaves its entry in items. *)
ItemsDeleteForgotten(c, tx) ==
  /\ handlers[c][tx].pc = "delete"
  /\ handlers' = [handlers EXCEPT ![c][tx] = NoCall]
  /\ UNCHANGED <<proving, eventPc, dialled, eClis, running, peer, streams,
                 ledger, table, history>>

(* The batch is written, or its error is ignored: invokeCompleted deletes  *)
(* the entry and returns.                                                  *)
ItemsDelete(c, tx) ==
  /\ handlers[c][tx].pc = "delete"
  /\ batches[c][tx] = {} \/ "dbError" \in Faults
  /\ items' = [items EXCEPT ![tx] = << >>]
  /\ handlers' = [handlers EXCEPT ![c][tx] = NoCall]
  /\ UNCHANGED <<pending, prover, eventPc, dialled, eClis, running, peer, streams,
                 ledger, table, history>>

(* Blockchain.Close: stop every client and clear items, when there are any.*)
Close ==
  /\ "shutdown" \in Faults
  /\ eClis # {}
  /\ running' = running \ eClis
  /\ peer' = [c \in Clients |-> IF c \in eClis THEN "none" ELSE peer[c]]
  /\ streams' = [c \in Clients |-> IF c \in eClis THEN << >> ELSE streams[c]]
  /\ owed' = [c \in Clients |-> IF c \in eClis THEN {} ELSE owed[c]]
  /\ items' = [tx \in Txs |-> << >>]
  /\ UNCHANGED <<pending, prover, eventPc, dialled, eClis, handlers, ledger,
                 table, topic, breaks, redelivered>>

(* The cache's group rebalances: what it has read ahead stays, and it reads*)
(* on from the committed offset, which lies behind documents it has already*)
(* handed over.                                                            *)
Rebalance(t) ==
  /\ "rebalance" \in Faults
  /\ breaks < MaxBreaks
  /\ \E ahead \in 0 .. Len(pending[t]), offset \in 0 .. Len(topic[t]) :
       LET read == From(topic[t], offset)
           left == From(pending[t], ahead)
       IN  /\ Range(left) \subseteq Range(read)
           /\ pending' = [pending EXCEPT ![t] = SubSeq(@, 1, ahead) \o read]
           /\ redelivered' = redelivered \cup (Range(read) \ Range(left))
  /\ breaks' = breaks + 1
  /\ UNCHANGED <<prover, items, listening, ledger, table, topic, owed>>

(* The process ends, after Close or without it, and starts again: items,   *)
(* the goroutines and the connections are gone, the table and the chain    *)
(* stay.  The cache reads on from the committed offset: the consumer loses *)
(* what had been read ahead for it and committed, or gets again what it had*)
(* got and the cache had not committed.                                    *)
Restart ==
  /\ "restart" \in Faults
  /\ breaks < MaxBreaks
  /\ \E offset \in [Topics -> UNION {0 .. Len(topic[t]) : t \in Topics}] :
       /\ \A t \in Topics : offset[t] <= Len(topic[t])
       /\ pending' = [t \in Topics |-> From(topic[t], offset[t])]
  /\ redelivered' = redelivered \cup UNION {Range(pending'[t]) \ Range(pending[t])
                                              : t \in Topics}
  /\ prover' = [t \in Topics |-> Idle]
  /\ items' = [tx \in Txs |-> << >>]
  /\ eventPc' = "start" /\ dialled' = 0 /\ eClis' = {} /\ running' = {}
  /\ peer' = [c \in Clients |-> "none"]
  /\ streams' = [c \in Clients |-> << >>]
  /\ handlers' = [c \in Clients |-> [tx \in Txs |-> NoCall]]
  /\ owed' = [c \in Clients |-> {}]
  /\ breaks' = breaks + 1
  /\ UNCHANGED <<ledger, table, topic>>

-----------------------------------------------------------------------------
Init ==
  /\ pending = [t \in Topics |-> << >>]
  /\ prover = [t \in Topics |-> Idle]
  /\ items = [tx \in Txs |-> << >>]
  /\ eventPc = "start" /\ dialled = 0 /\ eClis = {} /\ running = {}
  /\ peer = [c \in Clients |-> "none"]
  /\ streams = [c \in Clients |-> << >>]
  /\ handlers = [c \in Clients |-> [tx \in Txs |-> NoCall]]
  /\ chain = [tx \in Txs |-> NoDigest] /\ committed = {} /\ accepted = {}
  /\ batches = [c \in Clients |-> [tx \in Txs |-> {}]]
  /\ db = EmptyTable
  /\ topic = [t \in Topics |-> << >>]
  /\ breaks = 0
  /\ redelivered = {}
  /\ owed = [c \in Clients |-> {}]

eventStart == Dial \/ RegisterReplied \/ RegisterFails \/ EventLoop

RegisterProof(t) == Invoke(t) \/ InvokeFails(t) \/ ItemsSet(t)

invokeCompleted(c, tx) ==
  ItemsGet(c, tx) \/ PersistDigest(c, tx) \/ ItemsDelete(c, tx)

Network == \/ \E tx \in Txs : Commit(tx)
           \/ \E c \in Clients : PeerLists(c) \/ PeerReplies(c) \/ Disconnect(c)

(* What the handler and the chain do, whoever fills the cache. *)
BlockchainNext == \/ \E t \in Topics : Tick(t) \/ RegisterProof(t)
                  \/ Network
                  \/ eventStart
                  \/ \E c \in Clients : Recv(c) \/ RecvForeign(c)
                  \/ \E c \in Clients, tx \in Txs : invokeCompleted(c, tx)
                  \/ \E c \in Clients, tx \in Txs, d \in Docs : WriteRow(c, tx, d)
                  \/ Close

Next == \/ \E d \in Docs, t \in Topics : Submit(d, t)
        \/ BlockchainNext
        \/ \E t \in Topics : Rebalance(t)
        \/ Restart

Spec == Init /\ [][Next]_vars

(* Tickers keep firing, goroutines that can run do, calls return, the chain*)
(* executes what it has taken, and Cassandra writes what it has logged.    *)
Fairness ==
  /\ \A t \in Topics : WF_vars(Tick(t) \/ RegisterProof(t))
  /\ WF_vars(\E tx \in Txs : Commit(tx))
  /\ WF_vars(eventStart)
  /\ \A c \in Clients : WF_vars(PeerLists(c) \/ PeerReplies(c))
  /\ \A c \in Clients : WF_vars(Recv(c))
  /\ \A c \in Clients, tx \in Txs : WF_vars(invokeCompleted(c, tx))
  /\ WF_vars(\E c \in Clients, tx \in Txs, d \in Docs : WriteRow(c, tx, d))

FairSpec == Spec /\ Fairness

-----------------------------------------------------------------------------
ProvingOK ==
  /\ pending \in [Topics -> Seq(Docs)]
  /\ prover \in [Topics -> [pc: {"idle", "invoke", "set"}, docs: Seq(Docs),
                            tx: Nat]]
  /\ \A t \in Topics : /\ Len(prover[t].docs) <= Limit[t]
                       /\ prover[t].pc = "set" => prover[t].tx \in Txs
  /\ items \in [Txs -> Seq(Docs)]

ListeningOK ==
  /\ eventPc \in {"start", "register", "select", "returned"}
  /\ dialled \in 0 .. Events
  /\ eClis \subseteq 1 .. dialled /\ running \subseteq eClis
  /\ eventPc = "register" => dialled > 0 /\ dialled \notin eClis
  /\ peer \in [Clients -> {"none", "asked", "listed", "replied"}]
  /\ streams \in [Clients -> Seq(Txs \cup {Reply})]

HandlersOK ==
  handlers \in [Clients -> [Txs -> [pc: {"none", "get", "persist", "delete"},
                                   docs: Seq(Docs)]]]

LedgerOK ==
  /\ chain \in [Txs -> Digests]
  /\ committed \subseteq Txs /\ accepted \subseteq committed

TableOK ==
  /\ batches \in [Clients -> [Txs -> SUBSET Docs]]
  /\ db \in [Docs -> Rows]

HistoryOK ==
  /\ topic \in [Topics -> Seq(Docs)]
  /\ breaks \in 0 .. MaxBreaks
  /\ redelivered \subseteq Docs
  /\ owed \in [Clients -> SUBSET Txs]

(* Types, with what a Get and the event clients bound: RegisterProof never *)
(* has more documents than the period's limit, and only a started client   *)
(* runs.                                                                   *)
TypeOK ==
  ProvingOK /\ ListeningOK /\ HandlersOK /\ LedgerOK /\ TableOK /\ HistoryOK

(* A block digest in the table is backed by the chain: the row's           *)
(* transaction was executed, the chaincode recorded the root, and the      *)
(* document is a leaf of it.  invokeCompleted must not be misled by stale  *)
(* items, duplicate events, rejected roots or a restart.                   *)
DigestBacked ==
  \A d \in Docs : db[d].blockDigest # NoDigest =>
    /\ db[d].txid \in accepted
    /\ chain[db[d].txid] = db[d].blockDigest
    /\ d \in DocsOf(db[d].blockDigest)
    /\ db[d].proofStatus = ALREADY_PROOFED

(* The documents that Cassandra has yet to write under a digest.           *)
Awaited(digest) ==
  UNION {batches[c][tx] : c \in Clients, tx \in {x \in Txs : chain[x] = digest}}

(* A block that the table shows is whole or becomes so: the documents      *)
(* registered under its digest, which postProofResult recomputes the root  *)
(* from, are exactly the rows under it and those that Cassandra has yet to *)
(* write.  No ignored error, no restart in the middle of a batch and no    *)
(* second batch for the same event leaves a part of a block for good.  Only*)
(* a document that the cache delivered twice can be taken out of its block,*)
(* by a later one.                                                         *)
BlockWhole ==
  \A d \in Docs :
    LET digest == db[d].blockDigest
    IN  digest # NoDigest /\ DocsOf(digest) \cap redelivered = {} =>
          FindDocsByBlockDigest(db, digest) \cup Awaited(digest) = DocsOf(digest)

(* No document is registered twice, in one block or in two, unless the     *)
(* cache delivered it twice: a failed RegisterProof drops its documents,   *)
(* and no later tick or duplicate event registers them again.              *)
RegisteredOnce ==
  /\ \A tx1, tx2 \in Txs :
       tx1 # tx2 => DocsOf(chain[tx1]) \cap DocsOf(chain[tx2]) \subseteq redelivered
  /\ \A tx \in Txs : \A leaf \in chain[tx] : leaf[3] > 1 => leaf[1] \in redelivered

(* A proof is final: once a document that was delivered once has a digest, *)
(* no later event, however often its event is delivered, gives it another  *)
(* digest or transaction.                                                  *)
ProofFinal ==
  [][\A d \in Docs : db[d].blockDigest # NoDigest /\ d \notin redelivered =>
       /\ db'[d].blockDigest = db[d].blockDigest
       /\ db'[d].txid = db[d].txid]_vars

(* A client that runs has missed nothing: every event that its peer sent   *)
(* since it listed the client is on the stream or was handed to            *)
(* invokeCompleted, also the ones sent before the peer answered Register.  *)
EventsKept ==
  \A c \in running : owed[c] \subseteq Range(streams[c])

(* integration-tests/main.go waits for the period and then panics with     *)
(* "document[%s] hasn't been proofed" when the status is not "ok": a       *)
(* document whose transaction the chain has yet to execute, with every     *)
(* event client listening, will be proofed.                                *)
RegisteredIsProofed ==
  \A tx \in Txs, d \in Docs :
    /\ d \in DocsOf(chain[tx])
    /\ tx \notin committed
    /\ running = Clients
    ~> db[d].proofStatus = ALREADY_PROOFED
=============================================================================
