-------------------------- MODULE BlockchainProofs --------------------------
(***************************************************************************)
(* Proofs about Blockchain, for every number of periods, event clients,    *)
(* transactions and documents, and under every fault it models.            *)
(***************************************************************************)
EXTENDS Blockchain, DocumentsProofs, FiniteSetTheorems

(* The root of documents from the cache is a digest, and its leaves are    *)
(* those documents.                                                        *)
LEMMA FormatDocs ==
  ASSUME NEW docs \in Seq(Docs)
  PROVE  formatDocs(docs) \in Digests /\ DocsOf(formatDocs(docs)) = Range(docs)
<1>1. \A i \in DOMAIN docs : Cardinality({j \in 1 .. i : docs[j] = docs[i]}) \in Nat
  <2> SUFFICES ASSUME NEW i \in DOMAIN docs
               PROVE  Cardinality({j \in 1 .. i : docs[j] = docs[i]}) \in Nat
    OBVIOUS
  <2>1. IsFiniteSet(1 .. i)
    BY FS_Interval
  <2>2. IsFiniteSet({j \in 1 .. i : docs[j] = docs[i]})
    BY <2>1, FS_Subset
  <2> QED
    BY <2>2, FS_CardinalityType
<1>2. \A i \in DOMAIN docs : docs[i] \in Docs
  OBVIOUS
<1> DEFINE leaf(i) == <<docs[i], TRUE, Cardinality({j \in 1 .. i : docs[j] = docs[i]})>>
<1>3. \A i \in DOMAIN docs : leaf(i) \in Docs \X BOOLEAN \X Nat /\ leaf(i)[1] = docs[i]
  BY <1>1, <1>2
<1>4. formatDocs(docs) = {leaf(i) : i \in DOMAIN docs}
  BY DEF formatDocs
<1> HIDE DEF leaf
<1>5. formatDocs(docs) \in Digests
  BY <1>3, <1>4 DEF Digests
<1>6. DocsOf(formatDocs(docs)) = Range(docs)
  BY <1>3, <1>4 DEF DocsOf, Range
<1> QED
  BY <1>5, <1>6

-----------------------------------------------------------------------------
(* The handler and the network start within their types. *)
LEMMA TypeInit == Init => TypeOK
<1> USE BlockchainAssumption
<1> SUFFICES ASSUME Init PROVE TypeOK
  OBVIOUS
<1>1. ProvingOK
  BY DEF Init, ProvingOK, Idle, NoTx
<1>2. ListeningOK /\ HandlersOK
  BY DEF Init, ListeningOK, HandlersOK, NoCall
<1>3. LedgerOK /\ TableOK
  BY DEF Init, LedgerOK, TableOK, EmptyTable, NullRow, Rows, Digests,
         NoDigest, NoTx, NOT_SPECIFIAL
<1>4. HistoryOK
  BY DEF Init, HistoryOK
<1> QED
  BY <1>1, <1>2, <1>3, <1>4 DEF TypeOK

(* Every step of the handler, the events client and the network keeps the  *)
(* types.                                                                  *)
LEMMA TypeNext == TypeOK /\ [Next]_vars => TypeOK'
<1> USE BlockchainAssumption
<1> SUFFICES ASSUME TypeOK, [Next]_vars PROVE TypeOK'
  OBVIOUS
<1> USE DEF TypeOK
<1>a. UNCHANGED proving => ProvingOK'
  BY DEF proving, ProvingOK
<1>b. UNCHANGED <<eventPc, dialled, eClis, running, peer, streams>> => ListeningOK'
  BY DEF ListeningOK
<1>c. UNCHANGED handlers => HandlersOK'
  BY DEF HandlersOK
<1>d. UNCHANGED ledger => LedgerOK'
  BY DEF ledger, LedgerOK
<1>e. UNCHANGED table => TableOK'
  BY DEF table, TableOK
<1>f. UNCHANGED history => HistoryOK'
  BY DEF history, HistoryOK
<1>g. UNCHANGED <<topic, breaks, redelivered>> /\ owed' \in [Clients -> SUBSET Txs]
        => HistoryOK'
  BY DEF HistoryOK
<1>1. ASSUME NEW d \in Docs, NEW t \in Topics, Submit(d, t) PROVE TypeOK'
  <2>1. ProvingOK'
    BY <1>1 DEF Submit, ProvingOK
  <2>2. HistoryOK'
    BY <1>1 DEF Submit, HistoryOK
  <2> QED
    BY <1>1, <1>b, <1>c, <1>d, <1>e, <2>1, <2>2 DEF Submit, listening
<1>2. ASSUME NEW t \in Topics, Tick(t) PROVE TypeOK'
  <2> DEFINE n == IF Len(pending[t]) < Limit[t] THEN Len(pending[t]) ELSE Limit[t]
  <2>1. pending[t] \in Seq(Docs) /\ n \in 0 .. Len(pending[t]) /\ n <= Limit[t]
    BY DEF ProvingOK
  <2>2. /\ SubSeq(pending[t], 1, n) \in Seq(Docs)
        /\ Len(SubSeq(pending[t], 1, n)) <= Limit[t]
        /\ From(pending[t], n) \in Seq(Docs)
    BY <2>1 DEF From
  <2>3. pending' \in [Topics -> Seq(Docs)]
    BY <1>2, <2>2 DEF Tick, ProvingOK
  <2>4. prover' = [prover EXCEPT ![t] = Registering(SubSeq(pending[t], 1, n))]
    BY <1>2 DEF Tick
  <2> HIDE DEF n
  <2>5. ProvingOK'
    BY <1>2, <2>2, <2>3, <2>4 DEF Tick, ProvingOK, Registering, NoTx
  <2> QED
    BY <1>2, <1>b, <1>c, <1>d, <1>e, <1>f, <2>5 DEF Tick, listening
<1>3. ASSUME NEW t \in Topics, Invoke(t) PROVE TypeOK'
  <2>1. prover[t].docs \in Seq(Docs)
    BY DEF ProvingOK
  <2>2. formatDocs(prover[t].docs) \in Digests
    BY <2>1, FormatDocs
  <2>3. LedgerOK'
    BY <1>3, <2>2 DEF Invoke, LedgerOK
  <2>4. ProvingOK'
    BY <1>3 DEF Invoke, ProvingOK, Registered, Txs
  <2> QED
    BY <1>3, <1>b, <1>c, <1>e, <1>f, <2>3, <2>4 DEF Invoke, listening
<1>4. ASSUME NEW t \in Topics, InvokeFails(t) \/ ItemsSet(t) PROVE TypeOK'
  <2>1. CASE InvokeFails(t)
    BY <2>1, <1>b, <1>c, <1>d, <1>e, <1>f
       DEF InvokeFails, ProvingOK, Idle, NoTx, listening
  <2>2. ASSUME ItemsSet(t) PROVE ProvingOK'
    BY <2>2 DEF ItemsSet, ProvingOK, Idle, NoTx
  <2> QED
    BY <1>4, <1>b, <1>c, <1>d, <1>e, <1>f, <2>1, <2>2 DEF ItemsSet, listening
<1>5. ASSUME NEW tx \in Txs, Commit(tx) PROVE TypeOK'
  <2>1. ListeningOK'
    BY <1>5 DEF Commit, ListeningOK
  <2>2. LedgerOK'
    BY <1>5 DEF Commit, LedgerOK
  <2>3. owed' \in [Clients -> SUBSET Txs]
    BY <1>5 DEF Commit, HistoryOK
  <2> QED
    BY <1>5, <1>a, <1>c, <1>e, <1>g, <2>1, <2>2, <2>3 DEF Commit
<1>h. ASSUME NEW c \in Clients, Unread(c)
      PROVE  /\ streams' \in [Clients -> Seq(Txs \cup {Reply})]
             /\ peer' \in [Clients -> {"none", "asked", "listed", "replied"}]
             /\ owed' \in [Clients -> SUBSET Txs]
  BY <1>h, EmptySeq DEF Unread, ListeningOK, HistoryOK
<1>6. ASSUME NEW c \in Clients, PeerLists(c) \/ PeerReplies(c) PROVE TypeOK'
  <2>1. ListeningOK'
    <3>1. PeerLists(c) => ListeningOK'
      BY DEF PeerLists, ListeningOK
    <3>2. ASSUME PeerReplies(c) PROVE ListeningOK'
      <4>1. peer' \in [Clients -> {"none", "asked", "listed", "replied"}]
        BY <3>2 DEF PeerReplies, ListeningOK
      <4>2. streams' \in [Clients -> Seq(Txs \cup {Reply})]
        BY <3>2 DEF PeerReplies, ListeningOK
      <4> QED
        BY <3>2, <4>1, <4>2 DEF PeerReplies, ListeningOK
    <3> QED
      BY <1>6, <3>1, <3>2
  <2> QED
    BY <1>6, <1>a, <1>c, <1>d, <1>e, <1>f, <2>1 DEF PeerLists, PeerReplies
<1>7. ASSUME NEW c \in Clients, Disconnect(c) \/ RecvForeign(c) PROVE TypeOK'
  <2>1. /\ Unread(c) /\ running' = running \ {c}
        /\ UNCHANGED <<eventPc, dialled, eClis, topic, breaks, redelivered>>
    BY <1>7 DEF Disconnect, RecvForeign
  <2>2. ListeningOK'
    BY <2>1, <1>h DEF ListeningOK
  <2> QED
    BY <1>7, <1>a, <1>c, <1>d, <1>e, <1>g, <1>h, <2>1, <2>2
       DEF Disconnect, RecvForeign
<1>8. CASE Dial
  <2>1. dialled' = dialled + 1 /\ dialled' \in Clients
    BY <1>8 DEF Dial, ListeningOK, Clients
  <2>2. /\ eventPc' \in {"start", "register"}
        /\ peer' \in [Clients -> {"none", "asked", "listed", "replied"}]
    BY <1>8, <2>1 DEF Dial, ListeningOK
  <2>3. eClis \subseteq 1 .. dialled' /\ dialled' \notin eClis
    BY <2>1 DEF ListeningOK
  <2>4. ListeningOK'
    BY <1>8, <2>1, <2>2, <2>3 DEF Dial, ListeningOK, Clients
  <2> QED
    BY <1>8, <1>a, <1>c, <1>d, <1>e, <1>f, <2>4 DEF Dial
<1>9. CASE RegisterReplied
  <2>1. dialled \in Clients
    BY <1>9 DEF RegisterReplied, ListeningOK, Clients
  <2>2. streams' \in [Clients -> Seq(Txs \cup {Reply})]
    BY <1>9, <2>1 DEF RegisterReplied, ListeningOK
  <2>3. eClis' \subseteq 1 .. dialled /\ running' \subseteq eClis'
    BY <1>9, <2>1 DEF RegisterReplied, ListeningOK, Clients
  <2>4. ListeningOK'
    BY <1>9, <2>2, <2>3 DEF RegisterReplied, ListeningOK
  <2> QED
    BY <1>9, <1>a, <1>c, <1>d, <1>e, <1>f, <2>4 DEF RegisterReplied
<1>10. CASE RegisterFails
  <2>1. dialled \in Clients /\ Unread(dialled)
    BY <1>10 DEF RegisterFails, ListeningOK, Clients
  <2>2. ListeningOK'
    BY <1>10, <1>h, <2>1 DEF RegisterFails, ListeningOK
  <2> QED
    BY <1>10, <1>a, <1>c, <1>d, <1>e, <1>g, <1>h, <2>1, <2>2 DEF RegisterFails
<1>11. CASE EventLoop
  BY <1>11, <1>a, <1>c, <1>d, <1>e, <1>f DEF EventLoop, ListeningOK
<1>12. ASSUME NEW c \in Clients, Recv(c) PROVE TypeOK'
  <2>1. ListeningOK'
    BY <1>12 DEF Recv, ListeningOK
  <2>2. HandlersOK'
    BY <1>12 DEF Recv, HandlersOK, Called
  <2>3. owed' \in [Clients -> SUBSET Txs]
    BY <1>12 DEF Recv, HistoryOK
  <2> QED
    BY <1>12, <1>a, <1>d, <1>e, <1>g, <2>1, <2>2, <2>3 DEF Recv
<1>13. ASSUME NEW c \in Clients, NEW tx \in Txs, ItemsGet(c, tx) PROVE TypeOK'
  <2>1. items[tx] \in Seq(Docs)
    BY DEF ProvingOK
  <2>2. HandlersOK'
    BY <1>13, <2>1 DEF ItemsGet, HandlersOK, NoCall, Marking
  <2> QED
    BY <1>13, <1>a, <1>b, <1>d, <1>e, <1>f, <2>2 DEF ItemsGet
<1>14. ASSUME NEW c \in Clients, NEW tx \in Txs, PersistDigest(c, tx)
       PROVE  TypeOK'
  <2>1. SetDocsBlockDigest(handlers[c][tx].docs) \in SUBSET Docs
    BY RangeOfSeq DEF HandlersOK, SetDocsBlockDigest
  <2>2. TableOK'
    <3> DEFINE S == SetDocsBlockDigest(handlers[c][tx].docs)
    <3>1. /\ UNCHANGED batches \/ batches' = [batches EXCEPT ![c][tx] = S]
          /\ UNCHANGED db
      BY <1>14 DEF PersistDigest
    <3> HIDE DEF S
    <3>2. S \in SUBSET Docs /\ batches \in [Clients -> [Txs -> SUBSET Docs]]
      BY <2>1 DEF TableOK, S
    <3>3. batches' \in [Clients -> [Txs -> SUBSET Docs]]
      BY <3>1, <3>2
    <3> QED
      BY <3>1, <3>3 DEF TableOK
  <2>3. HandlersOK'
    BY <1>14 DEF PersistDigest, HandlersOK, Marked
  <2> QED
    BY <1>14, <1>a, <1>b, <1>d, <1>f, <2>2, <2>3 DEF PersistDigest
<1>15. ASSUME NEW c \in Clients, NEW tx \in Txs, ItemsDelete(c, tx)
       PROVE  TypeOK'
  <2>1. ProvingOK'
    BY <1>15 DEF ItemsDelete, ProvingOK
  <2>2. HandlersOK'
    BY <1>15 DEF ItemsDelete, HandlersOK, NoCall
  <2> QED
    BY <1>15, <1>b, <1>d, <1>e, <1>f, <2>1, <2>2 DEF ItemsDelete
<1>16. CASE Close
  <2>1. ProvingOK'
    BY <1>16 DEF Close, ProvingOK
  <2>2. streams' \in [Clients -> Seq(Txs \cup {Reply})]
    BY <1>16, EmptySeq DEF Close, ListeningOK
  <2>3. ListeningOK'
    BY <1>16, <2>2 DEF Close, ListeningOK
  <2>4. owed' \in [Clients -> SUBSET Txs]
    BY <1>16 DEF Close, HistoryOK
  <2> QED
    BY <1>16, <1>c, <1>d, <1>e, <1>g, <2>1, <2>3, <2>4 DEF Close
<1>17. ASSUME NEW t \in Topics, Rebalance(t) PROVE TypeOK'
  <2>1. PICK ahead \in 0 .. Len(pending[t]), offset \in 0 .. Len(topic[t]) :
          /\ pending' = [pending EXCEPT ![t] =
                           SubSeq(@, 1, ahead) \o From(topic[t], offset)]
          /\ redelivered' = redelivered \cup
               (Range(From(topic[t], offset)) \ Range(From(pending[t], ahead)))
    BY <1>17 DEF Rebalance
  <2>2. pending[t] \in Seq(Docs) /\ topic[t] \in Seq(Docs)
    BY DEF ProvingOK, HistoryOK
  <2>3. SubSeq(pending[t], 1, ahead) \in Seq(Docs)
          /\ From(topic[t], offset) \in Seq(Docs)
    BY <2>2, RangeSplit DEF From
  <2>4. Range(From(topic[t], offset)) \subseteq Docs
    BY <2>3, RangeOfSeq
  <2>5. pending' \in [Topics -> Seq(Docs)]
    BY <2>1, <2>3 DEF ProvingOK
  <2>6. ProvingOK'
    BY <1>17, <2>5 DEF Rebalance, ProvingOK
  <2>7. HistoryOK'
    BY <1>17, <2>1, <2>4 DEF Rebalance, HistoryOK
  <2> QED
    BY <1>17, <1>b, <1>c, <1>d, <1>e, <2>6, <2>7 DEF Rebalance, listening
<1>18. CASE Restart
  <2>1. PICK offset \in [Topics -> UNION {0 .. Len(topic[t]) : t \in Topics}] :
          /\ \A t \in Topics : offset[t] <= Len(topic[t])
          /\ pending' = [t \in Topics |-> From(topic[t], offset[t])]
    BY <1>18 DEF Restart
  <2>2. ASSUME NEW t \in Topics
        PROVE  pending'[t] \in Seq(Docs) /\ Range(pending'[t]) \subseteq Docs
    <3>1. topic[t] \in Seq(Docs) /\ offset[t] \in 0 .. Len(topic[t])
      BY <2>1 DEF HistoryOK
    <3>2. From(topic[t], offset[t]) \in Seq(Docs)
      BY <3>1, RangeSplit DEF From
    <3> QED
      BY <2>1, <3>2, RangeOfSeq
  <2>3. pending' \in [Topics -> Seq(Docs)]
    BY <2>1, <2>2
  <2>4. ProvingOK'
    <3>1. /\ prover' = [t \in Topics |-> Idle]
          /\ items' = [tx \in Txs |-> << >>]
      BY <1>18 DEF Restart
    <3>2. prover' \in [Topics -> [pc: {"idle", "invoke", "set"}, docs: Seq(Docs),
                                  tx: Nat]]
      BY <3>1 DEF Idle, NoTx
    <3>3. \A t \in Topics : /\ Len(prover'[t].docs) <= Limit[t]
                            /\ prover'[t].pc # "set"
      BY <3>1 DEF Idle
    <3>4. items' \in [Txs -> Seq(Docs)]
      BY <3>1, EmptySeq
    <3> QED
      BY <2>3, <3>2, <3>3, <3>4 DEF ProvingOK
  <2>5. ListeningOK' /\ HandlersOK'
    BY <1>18 DEF Restart, ListeningOK, HandlersOK, NoCall
  <2>6. HistoryOK'
    BY <1>18, <2>2 DEF Restart, HistoryOK
  <2> QED
    BY <1>18, <1>d, <1>e, <2>4, <2>5, <2>6 DEF Restart
<1>19. ASSUME NEW c \in Clients, NEW tx \in Txs, NEW d \in Docs, WriteRow(c, tx, d)
       PROVE  TypeOK'
  <2>1. chain[tx] \in Digests /\ tx \in Nat /\ db[d] \in Rows
    BY DEF LedgerOK, TableOK, Txs
  <2>2. UpdateRow(db[d], chain[tx], tx) \in Rows
    BY <2>1 DEF UpdateRow, Rows, ALREADY_PROOFED
  <2>3. TableOK'
    BY <1>19, <2>2 DEF WriteRow, TableOK
  <2> QED
    BY <1>19, <1>a, <1>b, <1>c, <1>d, <1>f, <2>3 DEF WriteRow, listening
<1>20. CASE UNCHANGED vars
  BY <1>20, <1>a, <1>b, <1>c, <1>d, <1>e, <1>f DEF vars, listening
<1> QED
  BY <1>1, <1>2, <1>3, <1>4, <1>5, <1>6, <1>7, <1>8, <1>9, <1>10, <1>11,
     <1>12, <1>13, <1>14, <1>15, <1>16, <1>17, <1>18, <1>19,
     <1>20
     DEF Next, BlockchainNext, eventStart, RegisterProof, Network, invokeCompleted

(* The state has its types in every reachable state: no RegisterProof      *)
(* holds more documents than its period's limit, and only started clients  *)
(* receive events.                                                         *)
THEOREM BlockchainTypeCorrect == Spec => []TypeOK
BY TypeInit, TypeNext, PTL DEF Spec

-----------------------------------------------------------------------------
(* DigestBacked speaks of the table only.  It is preserved because a       *)
(* handler that is about to write has checked the chain, and because what  *)
(* the chain has accepted it does not change.  Its part on the digests does*)
(* not depend on the part on proofStatus, which the persister's INSERT     *)
(* also writes.                                                            *)
AcceptedRegistered == \A tx \in accepted : chain[tx] # NoDigest

HandlerBacked ==
  \A c \in Clients, tx \in Txs : handlers[c][tx].pc = "persist" =>
    tx \in accepted /\ chain[tx] = formatDocs(handlers[c][tx].docs)

Backed ==
  \A d \in Docs : db[d].blockDigest # NoDigest =>
    /\ db[d].txid \in accepted
    /\ chain[db[d].txid] = db[d].blockDigest
    /\ d \in DocsOf(db[d].blockDigest)

(* What Cassandra has logged was checked before, and is of one block.       *)
BatchBacked ==
  \A c \in Clients, tx \in Txs : batches[c][tx] # {} =>
    tx \in accepted /\ batches[c][tx] \subseteq DocsOf(chain[tx])

BackedInv == AcceptedRegistered /\ HandlerBacked /\ BatchBacked /\ Backed

StatusBacked ==
  \A d \in Docs : db[d].blockDigest # NoDigest => db[d].proofStatus = ALREADY_PROOFED

(* Accepted transactions stay, with their roots. *)
LedgerGrows ==
  accepted \subseteq accepted' /\ \A tx \in accepted : chain'[tx] = chain[tx]

(* Only a handler logs a batch, and only Cassandra writes rows of it. *)
TableStep ==
  \/ UNCHANGED table
  \/ \E c \in Clients, tx \in Txs : PersistDigest(c, tx)
  \/ \E c \in Clients, tx \in Txs, d \in Docs : WriteRow(c, tx, d)

(* The chain only grows, and only a handler that has looked its documents  *)
(* up and checked the payload goes on to write them.                       *)
LEMMA LedgerSteps ==
  TypeOK /\ AcceptedRegistered /\ [Next]_vars =>
    /\ LedgerGrows /\ AcceptedRegistered'
    /\ \A c \in Clients, tx \in Txs :
         \/ handlers'[c][tx] = handlers[c][tx]
         \/ handlers'[c][tx].pc # "persist"
         \/ tx \in accepted /\ chain[tx] = formatDocs(handlers'[c][tx].docs)
    /\ TableStep
<1> SUFFICES ASSUME TypeOK, AcceptedRegistered, [Next]_vars
             PROVE  /\ LedgerGrows /\ AcceptedRegistered'
                    /\ \A c \in Clients, tx \in Txs :
                         \/ handlers'[c][tx] = handlers[c][tx]
                         \/ handlers'[c][tx].pc # "persist"
                         \/ tx \in accepted /\ chain[tx] = formatDocs(handlers'[c][tx].docs)
                    /\ TableStep
  OBVIOUS
<1> DEFINE Checked ==
             \A c \in Clients, tx \in Txs :
               \/ handlers'[c][tx] = handlers[c][tx]
               \/ handlers'[c][tx].pc # "persist"
               \/ tx \in accepted /\ chain[tx] = formatDocs(handlers'[c][tx].docs)
           Good == LedgerGrows /\ AcceptedRegistered' /\ Checked /\ TableStep
<1>0. chain \in [Txs -> Digests] /\ accepted \subseteq Txs
  BY DEF TypeOK, LedgerOK
<1>a. UNCHANGED <<chain, accepted>> => LedgerGrows /\ AcceptedRegistered'
  BY DEF LedgerGrows, AcceptedRegistered
<1>b. UNCHANGED handlers => Checked
  OBVIOUS
<1> HIDE DEF Checked
<1>1. ASSUME NEW t \in Topics, Invoke(t) PROVE Good
  <2>1. PICK x \in Txs : /\ chain[x] = NoDigest
                         /\ chain' = [chain EXCEPT ![x] = formatDocs(prover[t].docs)]
    BY <1>1 DEF Invoke
  <2>2. UNCHANGED <<accepted, handlers, table>>
    BY <1>1 DEF Invoke, listening
  <2>3. \A tx \in accepted : chain'[tx] = chain[tx]
    BY <1>0, <2>1 DEF AcceptedRegistered
  <2> QED
    BY <1>b, <2>2, <2>3 DEF LedgerGrows, AcceptedRegistered, TableStep
<1>2. ASSUME NEW tx \in Txs, Commit(tx) PROVE Good
  <2>1. /\ chain[tx] # NoDigest /\ UNCHANGED <<chain, handlers, table>>
        /\ accepted \subseteq accepted' /\ accepted' \subseteq accepted \cup {tx}
    BY <1>2 DEF Commit
  <2> QED
    BY <1>b, <2>1 DEF LedgerGrows, AcceptedRegistered, TableStep
<1>3. ASSUME NEW c \in Clients, Recv(c) PROVE Good
  <2>1. Checked
    BY <1>3 DEF Recv, TypeOK, HandlersOK, Called, Checked
  <2> QED
    BY <1>3, <1>a, <2>1 DEF Recv, ledger, TableStep
<1>4. ASSUME NEW c \in Clients, NEW tx \in Txs, ItemsGet(c, tx) PROVE Good
  <2>1. Checked
    BY <1>4 DEF ItemsGet, TypeOK, HandlersOK, NoCall, Marking, Checked
  <2> QED
    BY <1>4, <1>a, <2>1 DEF ItemsGet, ledger, TableStep
<1>5. ASSUME NEW c \in Clients, NEW tx \in Txs, PersistDigest(c, tx) PROVE Good
  <2>1. Checked
    BY <1>5 DEF PersistDigest, TypeOK, HandlersOK, Marked, Checked
  <2>2. UNCHANGED <<chain, accepted>>
    BY <1>5 DEF PersistDigest, ledger
  <2> QED
    BY <1>5, <1>a, <2>1, <2>2 DEF TableStep
<1>6. ASSUME NEW c \in Clients, NEW tx \in Txs, ItemsDelete(c, tx) PROVE Good
  <2>1. Checked
    BY <1>6 DEF ItemsDelete, TypeOK, HandlersOK, NoCall, Checked
  <2> QED
    BY <1>6, <1>a, <2>1 DEF ItemsDelete, ledger, TableStep
<1>7. ASSUME Restart PROVE Good
  <2>1. Checked
    BY <1>7 DEF Restart, NoCall, Checked
  <2>2. UNCHANGED <<chain, accepted, table>>
    BY <1>7 DEF Restart, ledger
  <2> QED
    BY <1>a, <2>1, <2>2 DEF TableStep
<1>8. ASSUME UNCHANGED <<chain, accepted, handlers, table>> PROVE Good
  BY <1>8, <1>a, <1>b DEF TableStep
<1>9. ASSUME NEW d \in Docs, NEW t \in Topics, Submit(d, t) PROVE Good
  BY <1>8, <1>9 DEF Submit, listening, ledger
<1>10. ASSUME NEW t \in Topics, Tick(t) \/ InvokeFails(t) \/ ItemsSet(t) \/ Rebalance(t)
       PROVE  Good
  BY <1>8, <1>10 DEF Tick, InvokeFails, ItemsSet, Rebalance, listening, ledger
<1>11. ASSUME NEW c \in Clients, \/ Disconnect(c) \/ RecvForeign(c)
                                \/ PeerLists(c) \/ PeerReplies(c)
       PROVE  Good
  BY <1>8, <1>11 DEF Disconnect, RecvForeign, PeerLists, PeerReplies,
                     ledger
<1>12. ASSUME eventStart \/ Close PROVE Good
  BY <1>8, <1>12 DEF eventStart, Dial, RegisterReplied, RegisterFails, EventLoop, Close,
                     ledger
<1>13. ASSUME UNCHANGED vars PROVE Good
  BY <1>8, <1>13 DEF vars, listening, ledger
<1>14. ASSUME NEW c \in Clients, NEW tx \in Txs, NEW d \in Docs, WriteRow(c, tx, d)
       PROVE  Good
  <2>1. UNCHANGED <<chain, accepted, handlers>>
    BY <1>14 DEF WriteRow, ledger, listening
  <2> QED
    BY <1>14, <1>a, <1>b, <2>1 DEF TableStep
<1> HIDE DEF Good
<1>15. Good
  BY <1>1, <1>2, <1>3, <1>4, <1>5, <1>6, <1>7, <1>9, <1>10, <1>11, <1>12, <1>13, <1>14
     DEF Next, BlockchainNext, RegisterProof, Network, invokeCompleted
<1> QED
  BY <1>15 DEF Good, Checked

(* What a handler logs: the rows of exactly the documents of the block that*)
(* the chain accepted, or nothing.                                         *)
LEMMA PersistDigestLogs ==
  ASSUME TypeOK, HandlerBacked, NEW c \in Clients, NEW tx \in Txs, PersistDigest(c, tx)
  PROVE  /\ tx \in accepted /\ UNCHANGED <<chain, accepted, redelivered, db>>
         /\ \/ UNCHANGED batches
            \/ batches' = [batches EXCEPT ![c][tx] = DocsOf(chain[tx])]
<1>1. handlers[c][tx].docs \in Seq(Docs)
  BY DEF TypeOK, HandlersOK
<1>2. tx \in accepted /\ chain[tx] = formatDocs(handlers[c][tx].docs)
  BY DEF PersistDigest, HandlerBacked
<1>3. DocsOf(chain[tx]) = SetDocsBlockDigest(handlers[c][tx].docs)
  BY <1>1, <1>2, FormatDocs DEF SetDocsBlockDigest
<1> QED
  BY <1>2, <1>3 DEF PersistDigest, ledger, history

(* What Cassandra writes: the digest the chain accepted, into the row of a *)
(* document of that block, unless the row has another transaction.         *)
LEMMA WriteRowWrites ==
  ASSUME TypeOK, BatchBacked, NEW c \in Clients, NEW tx \in Txs, NEW d \in Docs,
         WriteRow(c, tx, d)
  PROVE  /\ tx \in accepted /\ d \in DocsOf(chain[tx]) /\ d \in batches[c][tx]
         /\ UNCHANGED <<chain, accepted, redelivered>>
         /\ batches' = [batches EXCEPT ![c][tx] = batches[c][tx] \ {d}]
         /\ \A e \in Docs : e # d => db'[e] = db[e]
         /\ \/ /\ db'[d].blockDigest = chain[tx] /\ db'[d].txid = tx
               /\ db'[d].proofStatus = ALREADY_PROOFED /\ db'[d].inserted = db[d].inserted
            \/ db'[d] = db[d] /\ db[d].blockDigest # NoDigest /\ db[d].txid # tx
<1>1. db \in [Docs -> Rows] /\ batches \in [Clients -> [Txs -> SUBSET Docs]]
  BY DEF TypeOK, TableOK
<1>2. d \in batches[c][tx] /\ batches' = [batches EXCEPT ![c][tx] = batches[c][tx] \ {d}]
  BY <1>1 DEF WriteRow
<1>3. tx \in accepted /\ d \in DocsOf(chain[tx])
  BY <1>2 DEF BatchBacked
<1>4. UNCHANGED <<chain, accepted, redelivered>>
  BY DEF WriteRow, ledger, history
<1>5. CASE db' = [db EXCEPT ![d] = UpdateRow(db[d], chain[tx], tx)]
  BY <1>1, <1>2, <1>3, <1>4, <1>5 DEF UpdateRow, Rows
<1>6. CASE db[d].blockDigest # NoDigest /\ db[d].txid # tx /\ UNCHANGED db
  BY <1>2, <1>3, <1>4, <1>6
<1> QED
  BY <1>5, <1>6 DEF WriteRow

(* A step leaves a row as it is or gives it a digest, and never touches    *)
(* what the INSERT wrote.                                                  *)
LEMMA RowsUpdated ==
  TypeOK /\ AcceptedRegistered /\ HandlerBacked /\ BatchBacked /\ [Next]_vars =>
    \A d \in Docs : \/ db'[d] = db[d]
                     \/ /\ db'[d].blockDigest # NoDigest
                        /\ db'[d].inserted = db[d].inserted
<1> SUFFICES ASSUME TypeOK, AcceptedRegistered, HandlerBacked, BatchBacked, [Next]_vars,
                    NEW d \in Docs
             PROVE  \/ db'[d] = db[d]
                    \/ db'[d].blockDigest # NoDigest /\ db'[d].inserted = db[d].inserted
  OBVIOUS
<1>1. TableStep
  BY LedgerSteps
<1>2. ASSUME NEW c \in Clients, NEW tx \in Txs, NEW e \in Docs, WriteRow(c, tx, e)
      PROVE  \/ db'[d] = db[d]
             \/ db'[d].blockDigest # NoDigest /\ db'[d].inserted = db[d].inserted
  <2>1. chain[tx] # NoDigest
    BY <1>2, WriteRowWrites DEF AcceptedRegistered
  <2> QED
    BY <1>2, <2>1, WriteRowWrites
<1>3. ASSUME NEW c \in Clients, NEW tx \in Txs, PersistDigest(c, tx) PROVE db'[d] = db[d]
  BY <1>3 DEF PersistDigest
<1> QED
  BY <1>1, <1>2, <1>3 DEF TableStep, table

(* The digests in the table stay backed. *)
LEMMA BackedInit == Init => BackedInv /\ StatusBacked
BY DEF Init, BackedInv, AcceptedRegistered, HandlerBacked, BatchBacked, Backed,
       StatusBacked, EmptyTable, NullRow, NoCall

(* Every step keeps the digests backed: a digest reaches the table only    *)
(* from a batch, and the batch only from a handler that checked the chain. *)
LEMMA BackedNext == TypeOK /\ BackedInv /\ [Next]_vars => BackedInv'
<1> SUFFICES ASSUME TypeOK, BackedInv, [Next]_vars PROVE BackedInv'
  OBVIOUS
<1> USE DEF BackedInv
<1>1. /\ LedgerGrows /\ AcceptedRegistered'
      /\ \A c \in Clients, tx \in Txs :
           \/ handlers'[c][tx] = handlers[c][tx]
           \/ handlers'[c][tx].pc # "persist"
           \/ tx \in accepted /\ chain[tx] = formatDocs(handlers'[c][tx].docs)
      /\ TableStep
  BY LedgerSteps
<1>2. HandlerBacked'
  BY <1>1 DEF HandlerBacked, LedgerGrows
<1>3. ASSUME UNCHANGED table PROVE BatchBacked' /\ Backed'
  BY <1>1, <1>3 DEF BatchBacked, Backed, LedgerGrows, table
<1>4. ASSUME NEW c \in Clients, NEW tx \in Txs, PersistDigest(c, tx)
      PROVE  BatchBacked' /\ Backed'
  <2>1. /\ tx \in accepted /\ UNCHANGED <<chain, accepted, db>>
        /\ \/ UNCHANGED batches
           \/ batches' = [batches EXCEPT ![c][tx] = DocsOf(chain[tx])]
        /\ batches \in [Clients -> [Txs -> SUBSET Docs]]
    BY <1>4, PersistDigestLogs DEF TypeOK, TableOK
  <2>2. BatchBacked'
    BY <2>1 DEF BatchBacked
  <2> QED
    BY <2>1, <2>2 DEF Backed
<1>5. ASSUME NEW c \in Clients, NEW tx \in Txs, NEW d \in Docs, WriteRow(c, tx, d)
      PROVE  BatchBacked' /\ Backed'
  <2>1. BatchBacked'
    <3>1. /\ batches' = [batches EXCEPT ![c][tx] = batches[c][tx] \ {d}]
          /\ UNCHANGED <<chain, accepted>> /\ batches \in [Clients -> [Txs -> SUBSET Docs]]
      BY <1>5, WriteRowWrites DEF TypeOK, TableOK
    <3> QED
      BY <3>1 DEF BatchBacked
  <2>2. Backed'
    BY <1>5, WriteRowWrites DEF Backed
  <2> QED
    BY <2>1, <2>2
<1> QED
  BY <1>1, <1>2, <1>3, <1>4, <1>5 DEF TableStep

(* Every block digest in the table names a transaction that the chain      *)
(* executed and whose root contains the document, in every reachable       *)
(* state: no order of invokeCompleted calls, duplicate or missing events,  *)
(* failed calls, late writes or restarts makes the table claim a proof     *)
(* there is not.                                                           *)
THEOREM DigestsAreBacked == Spec => []DigestBacked
<1>1. TypeOK /\ BackedInv /\ StatusBacked /\ [Next]_vars => StatusBacked'
  <2> SUFFICES ASSUME TypeOK, BackedInv, StatusBacked, [Next]_vars PROVE StatusBacked'
    OBVIOUS
  <2>1. TableStep
    BY LedgerSteps DEF BackedInv
  <2>2. ASSUME NEW c \in Clients, NEW tx \in Txs, NEW d \in Docs, WriteRow(c, tx, d)
        PROVE  StatusBacked'
    BY <2>2, WriteRowWrites DEF BackedInv, StatusBacked
  <2>3. UNCHANGED db => StatusBacked'
    BY DEF StatusBacked
  <2> QED
    BY <2>1, <2>2, <2>3 DEF TableStep, table, PersistDigest
<1>2. BackedInv /\ StatusBacked => DigestBacked
  BY DEF BackedInv, Backed, StatusBacked, DigestBacked
<1> QED
  BY <1>1, <1>2, BackedInit, BackedNext, BlockchainTypeCorrect, PTL DEF Spec

-----------------------------------------------------------------------------
(* A leaf has the columns of a document from the cache, and only a document*)
(* that is in docs twice has a second leaf.                                *)
LEMMA LeavesCount ==
  ASSUME NEW docs \in Seq(Docs), NEW leaf \in formatDocs(docs)
  PROVE  /\ leaf[2] = TRUE /\ leaf[3] \in Nat \ {0} /\ leaf = <<leaf[1], TRUE, leaf[3]>>
         /\ \A X : Single(docs, X) /\ leaf[3] > 1 => leaf[1] \in X
<1>1. PICK i \in DOMAIN docs :
        leaf = <<docs[i], TRUE, Cardinality({j \in 1 .. i : docs[j] = docs[i]})>>
  BY DEF formatDocs
<1> DEFINE same == {j \in 1 .. i : docs[j] = docs[i]}
<1>2. i \in 1 .. i /\ i \in same /\ IsFiniteSet(1 .. i)
  BY FS_Interval
<1>3. IsFiniteSet(same)
  BY <1>2, FS_Subset
<1>4. Cardinality(same) \in Nat /\ Cardinality(same) # 0
  BY <1>2, <1>3, FS_CardinalityType, FS_EmptySet
<1>5. ASSUME NEW X, Single(docs, X), docs[i] \notin X PROVE Cardinality(same) = 1
  <2>1. same = {i}
    BY <1>2, <1>5 DEF Single
  <2> QED
    BY <2>1, FS_Singleton
<1> QED
  BY <1>1, <1>4, <1>5

(* What has been given to this consumer and is not registered yet: what it *)
(* has to Get, and what a RegisterProof is about to send to a peer.        *)
batch == [t \in Topics |-> IF prover[t].pc = "invoke" THEN prover[t].docs ELSE << >>]

Queues == {"pending", "batch"} \X Topics

Queued == [q \in Queues |-> IF q[1] = "pending" THEN pending[q[2]] ELSE batch[q[2]]]

(* A document that came once is in one of the queues or in one block: this *)
(* is inductive, with all of them among the documents of the topics, which *)
(* have each document once.                                                *)
QueuedOnce ==
  /\ Apart(topic, {})
  /\ Apart(Queued, redelivered)
  /\ \A q \in Queues : Range(Queued[q]) \subseteq submitted
  /\ \A tx \in Txs : DocsOf(chain[tx]) \subseteq submitted
  /\ \A tx \in Txs, q \in Queues : DocsOf(chain[tx]) \cap Range(Queued[q]) \subseteq redelivered

LeavesOK ==
  \A tx \in Txs : \A leaf \in chain[tx] :
    leaf[3] \in Nat \ {0} /\ leaf = <<leaf[1], TRUE, leaf[3]>>

OnceInv == QueuedOnce /\ RegisteredOnce /\ LeavesOK

(* The queues of the handler one by one. *)
LEMMA QueuedAt ==
  /\ DOMAIN Queued = Queues
  /\ \A t \in Topics : /\ <<"pending", t>> \in Queues /\ Queued[<<"pending", t>>] = pending[t]
                       /\ <<"batch", t>> \in Queues /\ Queued[<<"batch", t>>] = batch[t]
  /\ \A q \in Queues : \E t \in Topics : q = <<"pending", t>> \/ q = <<"batch", t>>
BY DEF Queued, Queues

(* The same after a step. *)
LEMMA QueuedAtNext ==
  /\ DOMAIN Queued' = Queues
  /\ \A t \in Topics : /\ Queued'[<<"pending", t>>] = pending'[t]
                       /\ Queued'[<<"batch", t>>] = batch'[t]
BY DEF Queued, Queues, batch

(* Queues whose variable is unchanged hold what they held. *)
LEMMA StillQueued ==
  ASSUME NEW q \in Queues,
         \A t \in Topics : q = <<"pending", t>> => pending'[t] = pending[t],
         \A t \in Topics : q = <<"batch", t>> => batch'[t] = batch[t]
  PROVE  Queued'[q] = Queued[q]
<1>1. ASSUME NEW t \in Topics, q = <<"pending", t>> PROVE Queued'[q] = Queued[q]
  BY <1>1, QueuedAt, QueuedAtNext
<1>2. ASSUME NEW t \in Topics, q = <<"batch", t>> PROVE Queued'[q] = Queued[q]
  BY <1>2, QueuedAt, QueuedAtNext
<1> QED
  BY <1>1, <1>2, QueuedAt

(* Nothing is queued and nothing registered at the start. *)
LEMMA OnceInit == Init => OnceInv
<1> SUFFICES ASSUME Init PROVE OnceInv
  OBVIOUS
<1>1. \A t \in Topics : pending[t] = << >> /\ batch[t] = << >> /\ topic[t] = << >>
  BY DEF Init, batch, Idle
<1>2. \A q \in Queues : Queued[q] = << >>
  BY <1>1, QueuedAt
<1>3. Apart(Queued, redelivered) /\ Apart(topic, {})
  BY <1>1, <1>2, QueuedAt DEF Apart, Init
<1>4. \A tx \in Txs : chain[tx] = {} /\ DocsOf(chain[tx]) = {}
  BY DEF Init, NoDigest, DocsOf
<1> QED
  BY <1>2, <1>3, <1>4, RangeEmpty DEF OnceInv, QueuedOnce, RegisteredOnce, LeavesOK

(* Which steps move documents between the topics and the chain. *)
LEMMA OnceSteps ==
  ASSUME [Next]_vars
  PROVE  \/ \E d \in Docs, t \in Topics : Submit(d, t)
         \/ \E t \in Topics : \/ Tick(t) \/ Invoke(t) \/ Rebalance(t)
                              \/ InvokeFails(t) \/ ItemsSet(t)
         \/ Restart
         \/ UNCHANGED <<pending, prover, chain, topic, redelivered>>
<1> DEFINE rest == <<pending, prover, chain, topic, redelivered>>
<1>1. ASSUME NEW tx \in Txs, Commit(tx) PROVE UNCHANGED rest
  BY <1>1 DEF Commit, proving
<1>2. ASSUME NEW c \in Clients, \/ Disconnect(c) \/ RecvForeign(c)
                               \/ PeerLists(c) \/ PeerReplies(c) \/ Recv(c)
      PROVE  UNCHANGED rest
  BY <1>2 DEF Disconnect, RecvForeign, PeerLists, PeerReplies, Recv,
              proving, ledger, history
<1>3. ASSUME eventStart \/ Close PROVE UNCHANGED rest
  BY <1>3 DEF eventStart, Dial, RegisterReplied, RegisterFails, EventLoop, Close,
              proving, ledger, history
<1>4. ASSUME NEW c \in Clients, NEW tx \in Txs, invokeCompleted(c, tx)
      PROVE  UNCHANGED rest
  BY <1>4 DEF invokeCompleted, ItemsGet, PersistDigest, ItemsDelete, proving, ledger, history
<1>5. ASSUME NEW c \in Clients, NEW tx \in Txs, NEW d \in Docs, WriteRow(c, tx, d)
      PROVE  UNCHANGED rest
  BY <1>5 DEF WriteRow, proving, ledger, history
<1>6. UNCHANGED vars => UNCHANGED rest
  BY DEF vars, proving, ledger, history
<1> QED
  BY <1>1, <1>2, <1>3, <1>4, <1>5, <1>6 DEF Next, BlockchainNext, RegisterProof, Network

(* Every step keeps each document queued or registered once. *)
LEMMA OnceNext == TypeOK /\ OnceInv /\ [Next]_vars => OnceInv'
<1> SUFFICES ASSUME TypeOK, OnceInv, [Next]_vars PROVE OnceInv'
  OBVIOUS
<1> USE DEF OnceInv
<1>0. /\ Apart(topic, {}) /\ Apart(Queued, redelivered) /\ DOMAIN Queued = Queues
      /\ topic \in [Topics -> Seq(Docs)] /\ pending \in [Topics -> Seq(Docs)]
      /\ chain \in [Txs -> Digests]
      /\ \A t \in Topics : prover[t].docs \in Seq(Docs)
      /\ \A q \in Queues : Range(Queued[q]) \subseteq submitted
      /\ \A tx \in Txs : DocsOf(chain[tx]) \subseteq submitted
      /\ \A tx \in Txs, q \in Queues :
           DocsOf(chain[tx]) \cap Range(Queued[q]) \subseteq redelivered
  BY QueuedAt DEF QueuedOnce, TypeOK, ProvingOK, HistoryOK, LedgerOK
<1>1. ASSUME NEW d \in Docs, NEW t \in Topics, Submit(d, t) PROVE OnceInv'
  <2> DEFINE a == <<"pending", t>>
  <2>1. /\ pending' = [pending EXCEPT ![t] = Append(pending[t], d)]
        /\ topic' = [topic EXCEPT ![t] = Append(topic[t], d)]
        /\ UNCHANGED <<prover, chain, redelivered>>
        /\ d \notin submitted
    BY <1>1 DEF Submit, ledger
  <2>2. a \in Queues /\ Queued[a] = pending[t] /\ pending[t] \in Seq(Docs)
          /\ Queued'[a] = Append(pending[t], d)
    BY <1>0, <2>1, QueuedAt, QueuedAtNext
  <2>3. batch' = batch
    BY <2>1 DEF batch
  <2>4. Elsewhere(Queued, Queued', a, a)
    BY <1>0, <2>1, <2>3, QueuedAt, QueuedAtNext, StillQueued DEF Elsewhere
  <2> HIDE DEF a
  <2>5. Apart(Queued', redelivered')
    BY <1>0, <2>1, <2>2, <2>4, ApartSubmit
  <2>6. Elsewhere(topic, topic', t, t) /\ topic'[t] = Append(topic[t], d) /\ topic[t] \in Seq(Docs)
    BY <1>0, <2>1 DEF Elsewhere
  <2>7. \A u \in DOMAIN topic : d \notin Range(topic[u])
    BY <1>0, <2>1 DEF submitted
  <2>8. Apart(topic', {})
    BY <1>0, <2>6, <2>7, ApartSubmit
  <2>9. Range(topic'[t]) = Range(topic[t]) \cup {d} /\ Range(Queued'[a]) = Range(Queued[a]) \cup {d}
    BY <2>2, <2>6, RangeAppend
  <2>10. submitted' = submitted \cup {d}
    <3>1. \A u \in Topics : u # t => topic'[u] = topic[u]
      BY <1>0, <2>6 DEF Elsewhere
    <3>2. submitted' \subseteq submitted \cup {d}
      BY <2>9, <3>1 DEF submitted
    <3>3. submitted \cup {d} \subseteq submitted'
      BY <2>9, <3>1 DEF submitted
    <3> QED
      BY <3>2, <3>3
  <2>11. \A q \in Queues : Range(Queued'[q]) \subseteq Range(Queued[q]) \cup {d}
    BY <1>0, <2>4, <2>9 DEF Elsewhere
  <2>12. QueuedOnce'
    BY <1>0, <2>1, <2>5, <2>8, <2>10, <2>11 DEF QueuedOnce
  <2> QED
    BY <2>1, <2>12 DEF RegisteredOnce, LeavesOK
<1>2. ASSUME NEW t \in Topics, Tick(t) PROVE OnceInv'
  <2> DEFINE n == IF Len(pending[t]) < Limit[t] THEN Len(pending[t]) ELSE Limit[t]
             a == <<"pending", t>>
             b == <<"batch", t>>
  <2>1. pending[t] \in Seq(Docs) /\ n \in 0 .. Len(pending[t])
    BY <1>0, BlockchainAssumption
  <2>2. /\ pending' = [pending EXCEPT ![t] = SubSeq(pending[t], n + 1, Len(pending[t]))]
        /\ prover[t] = Idle
        /\ prover' = [prover EXCEPT ![t] = Registering(SubSeq(pending[t], 1, n))]
        /\ UNCHANGED <<chain, topic, redelivered>>
    BY <1>2 DEF Tick, From, ledger, history
  <2> HIDE DEF n
  <2>3. \A u \in Topics : batch'[u] = IF u = t THEN SubSeq(pending[t], 1, n) ELSE batch[u]
    BY <2>2 DEF batch, Registering, TypeOK, ProvingOK
  <2>4. a # b /\ Queued[a] = pending[t]
    BY QueuedAt
  <2>5. /\ Queued'[a] = SubSeq(pending[t], n + 1, Len(pending[t]))
        /\ Queued'[b] = SubSeq(pending[t], 1, n)
    BY <1>0, <2>2, <2>3, QueuedAtNext
  <2>6. Elsewhere(Queued, Queued', a, b)
    BY <1>0, <2>2, <2>3, QueuedAt, QueuedAtNext, StillQueued DEF Elsewhere
  <2> HIDE DEF a, b
  <2>7. Apart(Queued', redelivered)
    BY <1>0, <2>1, <2>4, <2>5, <2>6, ApartTake
  <2>8. Range(Queued'[a]) \subseteq Range(Queued[a]) /\ Range(Queued'[b]) \subseteq Range(Queued[a])
    BY <2>1, <2>4, <2>5, RangeSplit
  <2>9. a \in Queues /\ \A q \in Queues : \/ Range(Queued'[q]) \subseteq Range(Queued[q])
                                          \/ Range(Queued'[q]) \subseteq Range(Queued[a])
    BY <1>0, <2>6, <2>8 DEF Elsewhere
  <2>10. QueuedOnce'
    BY <1>0, <2>2, <2>7, <2>9 DEF QueuedOnce, submitted
  <2> QED
    BY <2>2, <2>10 DEF RegisteredOnce, LeavesOK
<1>3. ASSUME NEW t \in Topics, batch' = [batch EXCEPT ![t] = << >>],
             UNCHANGED <<pending, topic, redelivered>>
      PROVE  /\ Apart(Queued', redelivered')
             /\ \A q \in Queues : Range(Queued'[q]) \subseteq Range(Queued[q])
             /\ \A q \in Queues \ {<<"batch", t>>} : Queued'[q] = Queued[q]
             /\ Queued'[<<"batch", t>>] = << >>
  <2> DEFINE b == <<"batch", t>>
  <2>1. Queued'[b] = << >>
    BY <1>3, QueuedAtNext DEF batch
  <2>2. Elsewhere(Queued, Queued', b, b)
    BY <1>0, <1>3, QueuedAt, QueuedAtNext, StillQueued DEF Elsewhere, batch
  <2> HIDE DEF b
  <2>3. Apart(Queued', redelivered)
    BY <1>0, <2>1, <2>2, ApartReplace, SingleEmpty, RangeEmpty
  <2> QED
    BY <1>0, <1>3, <2>1, <2>2, <2>3, RangeEmpty DEF Elsewhere, b
<1>4. ASSUME NEW t \in Topics, Invoke(t) PROVE OnceInv'
  <2> DEFINE b == <<"batch", t>>
             docs == prover[t].docs
  <2>1. PICK x \in Txs : /\ chain[x] = NoDigest
                         /\ chain' = [chain EXCEPT ![x] = formatDocs(docs)]
                         /\ prover' = [prover EXCEPT ![t] = Registered(docs, x)]
    BY <1>4 DEF Invoke
  <2>2. /\ UNCHANGED <<pending, topic, redelivered>>
        /\ batch' = [batch EXCEPT ![t] = << >>]
    BY <1>4, <2>1 DEF Invoke, history, batch, Registered, TypeOK, ProvingOK
  <2>3. Queued[b] = docs /\ b \in Queues /\ docs \in Seq(Docs)
    BY <1>0, <1>4, QueuedAt DEF Invoke, batch
  <2> HIDE DEF b, docs
  <2>4. /\ Single(docs, redelivered) /\ Range(docs) \subseteq submitted
        /\ \A q \in Queues : q # b => Range(docs) \cap Range(Queued[q]) \subseteq redelivered
    BY <1>0, <2>3, ApartParts
  <2>5. DocsOf(chain'[x]) = Range(docs)
    BY <1>0, <2>1, <2>3, FormatDocs
  <2>6. \A tx \in Txs : tx # x => chain'[tx] = chain[tx]
    BY <1>0, <2>1
  <2>7. \A tx \in Txs : DocsOf(chain'[tx]) \subseteq submitted
    BY <1>0, <2>4, <2>5, <2>6
  <2>8. \A tx \in Txs, q \in Queues : DocsOf(chain'[tx]) \cap Range(Queued'[q]) \subseteq redelivered
    BY <1>0, <1>3, <2>2, <2>4, <2>5, <2>6, RangeEmpty DEF b
  <2>9. QueuedOnce'
    <3>1. /\ Apart(Queued', redelivered')
          /\ \A q \in Queues : Range(Queued'[q]) \subseteq Range(Queued[q])
      BY <1>3, <2>2
    <3> QED
      BY <1>0, <2>2, <2>7, <2>8, <3>1 DEF QueuedOnce, submitted
  <2>10. \A tx \in Txs : DocsOf(chain[tx]) \cap Range(docs) \subseteq redelivered
    BY <1>0, <2>3
  <2>11. \A leaf \in chain'[x] : /\ leaf[3] \in Nat \ {0} /\ leaf = <<leaf[1], TRUE, leaf[3]>>
                                 /\ leaf[3] > 1 => leaf[1] \in redelivered
    BY <1>0, <2>1, <2>3, <2>4, LeavesCount
  <2>12. RegisteredOnce'
    <3>1. \A tx1, tx2 \in Txs :
            tx1 # tx2 => DocsOf(chain'[tx1]) \cap DocsOf(chain'[tx2]) \subseteq redelivered
      BY <2>5, <2>6, <2>10 DEF RegisteredOnce
    <3>2. \A tx \in Txs : \A leaf \in chain'[tx] : leaf[3] > 1 => leaf[1] \in redelivered
      BY <2>6, <2>11 DEF RegisteredOnce
    <3> QED
      BY <2>2, <3>1, <3>2 DEF RegisteredOnce
  <2>13. LeavesOK'
    BY <2>6, <2>11 DEF LeavesOK
  <2> QED
    BY <2>9, <2>12, <2>13
<1>5. ASSUME NEW t \in Topics, InvokeFails(t) \/ ItemsSet(t) PROVE OnceInv'
  <2>1. prover' = [prover EXCEPT ![t] = Idle] /\ UNCHANGED <<pending, chain, topic, redelivered>>
    BY <1>5 DEF InvokeFails, ItemsSet, ledger, history
  <2>2. batch' = [batch EXCEPT ![t] = << >>]
    BY <2>1 DEF batch, Idle, TypeOK, ProvingOK
  <2>3. /\ Apart(Queued', redelivered')
        /\ \A q \in Queues : Range(Queued'[q]) \subseteq Range(Queued[q])
    BY <1>3, <2>1, <2>2
  <2>4. QueuedOnce'
    BY <1>0, <2>1, <2>3 DEF QueuedOnce, submitted
  <2> QED
    BY <2>1, <2>4 DEF RegisteredOnce, LeavesOK
<1>6. ASSUME UNCHANGED <<chain, topic>>, redelivered \subseteq redelivered',
             Apart(Queued', redelivered'),
             \A q \in Queues : /\ Range(Queued'[q]) \subseteq submitted
                               /\ \A x \in Range(Queued'[q]) :
                                    x \in redelivered' \/ \E r \in Queues : x \in Range(Queued[r])
      PROVE  OnceInv'
  <2>1. \A tx \in Txs, q \in Queues : DocsOf(chain[tx]) \cap Range(Queued'[q]) \subseteq redelivered'
    BY <1>0, <1>6
  <2>2. QueuedOnce'
    BY <1>0, <1>6, <2>1 DEF QueuedOnce, submitted
  <2> QED
    BY <1>6, <2>2 DEF RegisteredOnce, LeavesOK
<1>7. ASSUME NEW t \in Topics, Rebalance(t) PROVE OnceInv'
  <2> DEFINE a == <<"pending", t>>
  <2>1. PICK new, back : /\ Rereads(pending[t], topic[t], new, back)
                         /\ pending' = [pending EXCEPT ![t] = new]
                         /\ redelivered' = redelivered \cup back
    BY <1>7 DEF Rebalance, Rereads
  <2>2. /\ a \in Queues /\ Queued[a] = pending[t] /\ t \in DOMAIN topic
        /\ pending[t] \in Seq(Docs) /\ topic[t] \in Seq(Docs)
    BY <1>0, QueuedAt
  <2>3. UNCHANGED <<batch, chain, topic>>
    BY <1>7 DEF Rebalance, ledger, batch
  <2>4. Elsewhere(Queued, Queued', a, a) /\ Queued'[a] = new
    <3>1. Queued'[a] = new
      BY <1>0, <2>1, QueuedAtNext
    <3>2. \A q \in Queues : q # a => Queued'[q] = Queued[q]
      BY <1>0, <2>1, <2>3, StillQueued
    <3> QED
      BY <1>0, <2>2, <3>1, <3>2, QueuedAtNext DEF Elsewhere
  <2> HIDE DEF a
  <2>5. Single(pending[t], redelivered) /\ Single(topic[t], {})
    BY <1>0, <2>2, ApartParts
  <2>6. /\ Single(new, redelivered') /\ Range(new) = Range(pending[t]) \cup back
        /\ back \subseteq Range(topic[t])
    BY <2>1, <2>2, <2>5, Reread
  <2>7. \A r \in Queues : r # a => Range(new) \cap Range(Queued[r]) \subseteq redelivered'
    <3>1. \A r \in Queues : r # a => Range(pending[t]) \cap Range(Queued[r]) \subseteq redelivered
      BY <1>0, <2>2, ApartParts
    <3> QED
      BY <2>1, <2>6, <3>1
  <2>8. Apart(Queued, redelivered')
    BY <1>0, <2>1, ApartWeaker
  <2>9. Apart(Queued', redelivered')
    BY <1>0, <2>4, <2>6, <2>7, <2>8, ApartReplace
  <2>10. back \subseteq submitted
    BY <2>6 DEF submitted
  <2>11. \A q \in Queues : Range(Queued'[q]) \subseteq Range(Queued[q]) \cup back
    BY <1>0, <2>2, <2>4, <2>6 DEF Elsewhere
  <2> QED
    BY <1>0, <1>6, <2>1, <2>3, <2>9, <2>10, <2>11
<1>8. CASE Restart
  <2>1. RereadsAll(topic, pending')
    <3>1. PICK offset \in [Topics -> UNION {0 .. Len(topic[t]) : t \in Topics}] :
            /\ \A t \in Topics : offset[t] <= Len(topic[t])
            /\ pending' = [t \in Topics |-> From(topic[t], offset[t])]
      BY <1>8 DEF Restart
    <3>2. \A t \in Topics : offset[t] \in 0 .. Len(topic[t])
      BY <3>1
    <3> QED
      BY <1>0, <3>1, <3>2 DEF RereadsAll
  <2>2. /\ Apart(pending', {}) /\ DOMAIN pending' = Topics
        /\ \A t \in Topics : Range(pending'[t]) \subseteq Range(topic[t])
    BY <1>0, <2>1, RereadAll
  <2>3. /\ redelivered' = redelivered \cup UNION {Range(pending'[t]) \ Range(pending[t])
                                                    : t \in Topics}
        /\ UNCHANGED <<chain, topic>>
        /\ \A t \in Topics : batch'[t] = << >>
    BY <1>8 DEF Restart, ledger, batch, Idle
  <2>4. /\ \A t \in Topics : Single(pending'[t], {})
        /\ \A t, u \in Topics : t # u => Range(pending'[t]) \cap Range(pending'[u]) \subseteq {}
    BY <2>2, ApartParts
  <2>5. ASSUME NEW q \in Queues
        PROVE  \/ Queued'[q] = << >>
               \/ \E t \in Topics : q = <<"pending", t>> /\ Queued'[q] = pending'[t]
    <3>1. PICK t \in Topics : q = <<"pending", t>> \/ q = <<"batch", t>>
      BY QueuedAt
    <3>2. Queued'[<<"batch", t>>] = << >> /\ Queued'[<<"pending", t>>] = pending'[t]
      BY <2>3, QueuedAtNext
    <3> QED
      BY <3>1, <3>2
  <2>6. ASSUME NEW q \in Queues PROVE Single(Queued'[q], {})
    BY <2>4, <2>5, SingleEmpty
  <2>7. ASSUME NEW q \in Queues, NEW r \in Queues, q # r
        PROVE  Range(Queued'[q]) \cap Range(Queued'[r]) \subseteq {}
    BY <2>4, <2>5, <2>7, RangeEmpty
  <2>8. Apart(Queued', redelivered')
    <3>1. Apart(Queued', {})
      BY <2>6, <2>7, QueuedAtNext, ApartJoin
    <3> QED
      BY <3>1, ApartWeaker
  <2>9. ASSUME NEW q \in Queues
        PROVE  /\ Range(Queued'[q]) \subseteq submitted
               /\ \A x \in Range(Queued'[q]) :
                    x \in redelivered' \/ \E r \in Queues : x \in Range(Queued[r])
    <3>1. CASE Queued'[q] = << >>
      BY <3>1, RangeEmpty
    <3>2. ASSUME NEW t \in Topics, Queued'[q] = pending'[t]
          PROVE  /\ Range(Queued'[q]) \subseteq submitted
                 /\ \A x \in Range(Queued'[q]) :
                      x \in redelivered' \/ \E r \in Queues : x \in Range(Queued[r])
      <4>1. Range(Queued'[q]) \subseteq submitted
        BY <2>2, <3>2 DEF submitted
      <4>2. ASSUME NEW x \in Range(pending'[t]), x \notin Range(pending[t])
            PROVE  x \in redelivered'
        BY <2>3, <4>2
      <4>3. <<"pending", t>> \in Queues /\ Queued[<<"pending", t>>] = pending[t]
        BY QueuedAt
      <4> QED
        BY <3>2, <4>1, <4>2, <4>3
    <3> QED
      BY <2>5, <3>1, <3>2
  <2> QED
    BY <1>6, <2>3, <2>8, <2>9
<1>9. CASE UNCHANGED <<pending, prover, chain, topic, redelivered>>
  <2>1. batch' = batch /\ Queued' = Queued /\ submitted' = submitted
    BY <1>9 DEF batch, Queued, submitted
  <2> QED
    BY <1>9, <2>1 DEF QueuedOnce, RegisteredOnce, LeavesOK
<1> QED
  BY <1>1, <1>2, <1>4, <1>5, <1>7, <1>8, <1>9, OnceSteps

(* The chain gets a document a second time, in the same or in another      *)
(* block, only if the cache delivered it a second time.                    *)
THEOREM DocumentsRegisteredOnce == Spec => []RegisteredOnce
<1>1. OnceInv => RegisteredOnce
  BY DEF OnceInv
<1> QED
  BY <1>1, OnceInit, OnceNext, BlockchainTypeCorrect, PTL DEF Spec

-----------------------------------------------------------------------------
(* No step takes a digest back, and what was delivered once keeps the      *)
(* digest and the transaction it has.                                      *)
DigestsKept ==
  \A d \in Docs : db[d].blockDigest # NoDigest =>
    /\ db'[d].blockDigest # NoDigest
    /\ d \notin redelivered =>
         db'[d].blockDigest = db[d].blockDigest /\ db'[d].txid = db[d].txid

(* The digest of a document that came once is not replaced: the block that *)
(* is written would be a second one with the document.                     *)
LEMMA DigestsStay ==
  TypeOK /\ OnceInv /\ BackedInv /\ [Next]_vars => DigestsKept
<1> SUFFICES ASSUME TypeOK, OnceInv, BackedInv, [Next]_vars PROVE DigestsKept
  OBVIOUS
<1> USE DEF BackedInv
<1>1. TableStep
  BY LedgerSteps
<1>2. ASSUME NEW c \in Clients, NEW tx \in Txs, NEW e \in Docs, WriteRow(c, tx, e)
      PROVE  DigestsKept
  <2> SUFFICES ASSUME NEW d \in Docs, db[d].blockDigest # NoDigest
               PROVE  /\ db'[d].blockDigest # NoDigest
                      /\ d \notin redelivered =>
                           /\ db'[d].blockDigest = db[d].blockDigest
                           /\ db'[d].txid = db[d].txid
    BY DEF DigestsKept
  <2> DEFINE old == db[d].txid
  <2>1. /\ tx \in accepted
        /\ \/ db'[d] = db[d]
           \/ /\ d \in DocsOf(chain[tx])
              /\ db'[d].blockDigest = chain[tx] /\ db'[d].txid = tx
    BY <1>2, WriteRowWrites
  <2>2. /\ old \in accepted /\ chain[old] = db[d].blockDigest
        /\ d \in DocsOf(chain[old])
    BY DEF Backed
  <2>3. old \in Txs /\ chain[tx] # NoDigest
    BY <2>1, <2>2 DEF TypeOK, LedgerOK, AcceptedRegistered
  <2>4. d \in DocsOf(chain[tx]) /\ d \notin redelivered => old = tx
    BY <2>2, <2>3 DEF OnceInv, RegisteredOnce
  <2> QED
    BY <2>1, <2>2, <2>3, <2>4
<1>3. UNCHANGED db => DigestsKept
  BY DEF DigestsKept
<1> QED
  BY <1>1, <1>2, <1>3 DEF TableStep, table, PersistDigest

(* BlockWhole speaks of a digest that a row has.  Inductive is the same of *)
(* a transaction of which Cassandra has written or logged anything: all of *)
(* its documents are written or logged.                                    *)
Written(tx) == {d \in Docs : db[d].blockDigest # NoDigest /\ db[d].txid = tx}

Logged(tx) == UNION {batches[c][tx] : c \in Clients}

WholeInv ==
  \A tx \in Txs :
    Written(tx) \cup Logged(tx) # {} /\ DocsOf(chain[tx]) \cap redelivered = {} =>
      DocsOf(chain[tx]) \subseteq Written(tx) \cup Logged(tx)

(* There is no block at first. *)
LEMMA WholeInit == Init => WholeInv
BY DEF Init, WholeInv, Written, Logged, EmptyTable, NullRow

(* A block stays whole: a batch is logged with all of its documents, a row *)
(* that leaves the log is written, and a later block has none of them.     *)
LEMMA WholeNext ==
  TypeOK /\ OnceInv /\ BackedInv /\ WholeInv /\ [Next]_vars => WholeInv'
<1> SUFFICES ASSUME TypeOK, OnceInv, BackedInv, WholeInv, [Next]_vars PROVE WholeInv'
  OBVIOUS
<1>0. /\ batches \in [Clients -> [Txs -> SUBSET Docs]] /\ db \in [Docs -> Rows]
      /\ LedgerGrows /\ TableStep
  BY LedgerSteps DEF TypeOK, TableOK, BackedInv
<1>1. redelivered \subseteq redelivered'
  BY OnceSteps DEF Submit, Tick, Invoke, Rebalance, InvokeFails, ItemsSet, Restart, history
<1>2. \A tx \in Txs : Written(tx) \cup Logged(tx) # {} => tx \in accepted
  BY DEF BackedInv, Backed, BatchBacked, Written, Logged
<1> SUFFICES ASSUME NEW tx \in Txs, (Written(tx) \cup Logged(tx) # {})',
                    DocsOf(chain'[tx]) \cap redelivered' = {},
                    NEW e \in DocsOf(chain'[tx])
             PROVE  e \in (Written(tx) \cup Logged(tx))'
  BY DEF WholeInv
<1>3. ASSUME Written(tx) \cup Logged(tx) # {}
      PROVE  /\ chain'[tx] = chain[tx] /\ e \notin redelivered
             /\ e \in Written(tx) \cup Logged(tx)
  <2>1. chain'[tx] = chain[tx]
    BY <1>0, <1>2, <1>3 DEF LedgerGrows
  <2> QED
    BY <1>1, <1>3, <2>1 DEF WholeInv
<1>4. CASE UNCHANGED table
  <2>1. Written(tx)' = Written(tx) /\ Logged(tx)' = Logged(tx)
    BY <1>4 DEF table, Written, Logged
  <2> QED
    BY <1>3, <2>1
<1>5. ASSUME NEW c \in Clients, NEW x \in Txs, PersistDigest(c, x)
      PROVE  e \in (Written(tx) \cup Logged(tx))'
  <2>1. /\ UNCHANGED <<chain, db>>
        /\ \/ UNCHANGED batches
           \/ batches' = [batches EXCEPT ![c][x] = DocsOf(chain[x])]
    BY <1>5, PersistDigestLogs DEF BackedInv
  <2>2. Written(tx)' = Written(tx)
    BY <2>1 DEF Written
  <2>3. CASE UNCHANGED batches
    BY <1>3, <2>2, <2>3 DEF Logged
  <2>4. CASE batches' = [batches EXCEPT ![c][x] = DocsOf(chain[x])] /\ x = tx
    <3>1. batches'[c][tx] = DocsOf(chain'[tx])
      BY <1>0, <2>1, <2>4
    <3> QED
      BY <3>1 DEF Logged
  <2>5. CASE batches' = [batches EXCEPT ![c][x] = DocsOf(chain[x])] /\ x # tx
    <3>1. \A b \in Clients : batches'[b][tx] = batches[b][tx]
      BY <1>0, <2>5
    <3>2. Logged(tx)' = Logged(tx)
      BY <3>1 DEF Logged
    <3> QED
      BY <1>3, <2>2, <3>2
  <2> QED
    BY <2>1, <2>3, <2>4, <2>5
<1>6. ASSUME NEW c \in Clients, NEW x \in Txs, NEW d \in Docs, WriteRow(c, x, d)
      PROVE  e \in (Written(tx) \cup Logged(tx))'
  <2>1. /\ x \in accepted /\ d \in DocsOf(chain[x]) /\ d \in batches[c][x]
        /\ batches' = [batches EXCEPT ![c][x] = batches[c][x] \ {d}]
        /\ \A f \in Docs : f # d => db'[f] = db[f]
        /\ \/ db'[d].blockDigest = chain[x] /\ db'[d].txid = x
           \/ db'[d] = db[d] /\ db[d].blockDigest # NoDigest /\ db[d].txid # x
    BY <1>6, WriteRowWrites DEF BackedInv
  <2>2. chain[x] # NoDigest
    BY <2>1 DEF BackedInv, AcceptedRegistered
  <2>3. \A b \in Clients, y \in Txs :
          /\ batches'[b][y] \subseteq batches[b][y]
          /\ batches[b][y] \subseteq batches'[b][y] \cup {d}
          /\ y # x => batches'[b][y] = batches[b][y]
    BY <1>0, <2>1
  <2>4. ASSUME NEW y \in Txs, y # x, d \in DocsOf(chain[y]) PROVE d \in redelivered
    BY <2>1, <2>4 DEF OnceInv, RegisteredOnce
  <2>5. db[d].blockDigest # NoDigest /\ db[d].txid # x => d \in redelivered
    BY <2>4 DEF BackedInv, Backed, TypeOK, LedgerOK
  <2>6. Written(tx) \cup Logged(tx) # {}
    <3>1. CASE tx = x
      BY <2>1, <3>1 DEF Logged
    <3>2. CASE tx # x
      BY <2>1, <2>3, <3>2 DEF Written, Logged
    <3> QED
      BY <3>1, <3>2
  <2>7. /\ chain'[tx] = chain[tx] /\ e \notin redelivered
        /\ e \in Written(tx) \cup Logged(tx)
    BY <1>3, <2>6
  <2>8. CASE e # d
    <3>1. e \in Written(tx) => e \in Written(tx)'
      BY <2>1, <2>8 DEF Written
    <3>2. e \in Logged(tx) => e \in Logged(tx)'
      BY <2>3, <2>8 DEF Logged
    <3> QED
      BY <2>7, <3>1, <3>2
  <2>9. CASE e = d
    <3>1. tx = x
      BY <2>4, <2>7, <2>9
    <3>2. db'[d].blockDigest # NoDigest /\ db'[d].txid = tx
      BY <2>1, <2>2, <2>5, <2>7, <2>9, <3>1
    <3> QED
      BY <2>9, <3>2 DEF Written
  <2> QED
    BY <2>8, <2>9
<1> QED
  BY <1>0, <1>4, <1>5, <1>6 DEF TableStep

(* Where every transaction is whole, so is every block in the table. *)
LEMMA WholeBlocks == TypeOK /\ BackedInv /\ WholeInv => BlockWhole
<1> SUFFICES ASSUME TypeOK, BackedInv, WholeInv,
                    NEW d \in Docs, db[d].blockDigest # NoDigest,
                    DocsOf(db[d].blockDigest) \cap redelivered = {}
             PROVE  FindDocsByBlockDigest(db, db[d].blockDigest) \cup
                      Awaited(db[d].blockDigest) = DocsOf(db[d].blockDigest)
  BY DEF BlockWhole
<1> DEFINE D == db[d].blockDigest
           tx == db[d].txid
<1>1. tx \in Txs /\ chain[tx] = D /\ d \in Written(tx)
  BY DEF BackedInv, Backed, Written, TypeOK, LedgerOK
<1>2. DocsOf(D) \subseteq Written(tx) \cup Logged(tx)
  BY <1>1 DEF WholeInv
<1>3. Written(tx) \subseteq FindDocsByBlockDigest(db, D)
  BY <1>1 DEF Written, FindDocsByBlockDigest, BackedInv, Backed
<1>4. Logged(tx) \subseteq Awaited(D)
  BY <1>1 DEF Logged, Awaited
<1>5. FindDocsByBlockDigest(db, D) \subseteq DocsOf(D)
  BY DEF FindDocsByBlockDigest, BackedInv, Backed
<1>6. Awaited(D) \subseteq DocsOf(D)
  BY DEF Awaited, BackedInv, BatchBacked
<1> QED
  BY <1>2, <1>3, <1>4, <1>5, <1>6

(* A block the table shows is whole or becomes so, in every reachable      *)
(* state: its documents are the rows under its digest and the rows that    *)
(* Cassandra has yet to write from the batch it logged, however the rows of*)
(* a batch are written one by one, early or late, through restarts and     *)
(* beside other batches, unless the cache delivered one of them twice.     *)
THEOREM BlocksAreWhole == Spec => []BlockWhole
  BY WholeInit, WholeNext, WholeBlocks, OnceInit, OnceNext, BackedInit, BackedNext,
     BlockchainTypeCorrect, PTL DEF Spec

(* Once invokeCompleted has given a document that was delivered once its   *)
(* digest, no later event changes the digest or the transaction.           *)
THEOREM ProofsAreFinal == Spec => ProofFinal
<1>1. DigestsKept => \A d \in Docs : db[d].blockDigest # NoDigest /\ d \notin redelivered =>
                       /\ db'[d].blockDigest = db[d].blockDigest
                       /\ db'[d].txid = db[d].txid
  BY DEF DigestsKept
<1>2. Spec => [](TypeOK /\ OnceInv /\ BackedInv)
  BY OnceInit, OnceNext, BackedInit, BackedNext, BlockchainTypeCorrect, PTL DEF Spec
<1> QED
  BY <1>1, <1>2, DigestsStay, PTL DEF Spec, ProofFinal

-----------------------------------------------------------------------------
(* EventsKept is about running clients; inductive is that it holds of all  *)
(* of them, also of one whose Register has no answer yet.                  *)
AllKept == \A c \in Clients : owed[c] \subseteq Range(streams[c])

(* A client that takes the head from its stream keeps the others. *)
LEMMA KeptByTail ==
  ASSUME NEW S, NEW s \in Seq(S), s # << >>, NEW O, O \subseteq Range(s)
  PROVE  O \ {Head(s)} \subseteq Range(Tail(s))
BY RangeHeadTail

(* No event sent to a running client is lost before invokeCompleted: every *)
(* receive takes one message off the stream and is about that event, or    *)
(* ends the client.                                                        *)
THEOREM EventsAreKept == Spec => []EventsKept
<1>1. Init => AllKept
  BY RangeEmpty DEF Init, AllKept
<1>2. TypeOK /\ AllKept /\ [Next]_vars => AllKept'
  <2> SUFFICES ASSUME TypeOK, AllKept, [Next]_vars PROVE AllKept'
    OBVIOUS
  <2> DEFINE M == Txs \cup {Reply}
  <2>0. /\ streams \in [Clients -> Seq(M)] /\ owed \in [Clients -> SUBSET Txs]
        /\ Reply \notin Txs /\ Reply \in M /\ Txs \subseteq M
    BY BlockchainAssumption DEF TypeOK, ListeningOK, HistoryOK, Txs, Reply
  <2> HIDE DEF M
  <2>1. ASSUME NEW tx \in Txs, Commit(tx) PROVE AllKept'
    <3> SUFFICES ASSUME NEW c \in Clients PROVE owed'[c] \subseteq Range(streams'[c])
      BY DEF AllKept
    <3>1. Range(Append(streams[c], tx)) = Range(streams[c]) \cup {tx}
      BY <2>0, RangeAppend
    <3> QED
      BY <2>0, <2>1, <3>1 DEF Commit, AllKept
  <2>2. ASSUME NEW c \in Clients, NEW m \in M, owed' = owed,
               streams' = [streams EXCEPT ![c] = Append(@, m)]
        PROVE  AllKept'
    <3>1. Range(Append(streams[c], m)) = Range(streams[c]) \cup {m}
      BY <2>0, RangeAppend
    <3> QED
      BY <2>0, <2>2, <3>1 DEF AllKept
  <2>3. ASSUME NEW c \in Clients, PeerReplies(c) PROVE AllKept'
    BY <2>0, <2>2, <2>3 DEF PeerReplies, history
  <2>4. ASSUME NEW c \in Clients, Unread(c) PROVE AllKept'
    BY <2>0, <2>4 DEF Unread, AllKept
  <2>5. ASSUME NEW c \in Clients, Disconnect(c) \/ RecvForeign(c) PROVE AllKept'
    BY <2>4, <2>5 DEF Disconnect, RecvForeign
  <2>6. CASE RegisterFails
    <3>1. dialled \in Clients
      BY <2>6 DEF RegisterFails, TypeOK, ListeningOK, Clients
    <3> QED
      BY <2>4, <2>6, <3>1 DEF RegisterFails
  <2>7. CASE RegisterReplied
    <3>1. dialled \in Clients
      BY <2>7 DEF RegisterReplied, TypeOK, ListeningOK, Clients
    <3>2. /\ streams[dialled] \in Seq(M) /\ streams[dialled] # << >>
          /\ owed[dialled] \subseteq Range(streams[dialled])
          /\ Head(streams[dialled]) \notin owed[dialled]
      BY <2>0, <2>7, <3>1 DEF RegisterReplied, AllKept
    <3>3. owed[dialled] \subseteq Range(Tail(streams[dialled]))
      BY <3>2, KeptByTail
    <3> QED
      BY <2>0, <2>7, <3>1, <3>3 DEF RegisterReplied, history, AllKept
  <2>8. ASSUME NEW c \in Clients, Recv(c) PROVE AllKept'
    <3>1. /\ streams[c] \in Seq(M) /\ streams[c] # << >>
          /\ owed[c] \subseteq Range(streams[c])
      BY <2>0, <2>8 DEF Recv, AllKept
    <3>2. owed[c] \ {Head(streams[c])} \subseteq Range(Tail(streams[c]))
      BY <3>1, KeptByTail
    <3> QED
      BY <2>0, <2>8, <3>2 DEF Recv, AllKept
  <2>9. CASE Close
    BY <2>9 DEF Close, AllKept
  <2>10. CASE Restart
    BY <2>10 DEF Restart, AllKept
  <2>11. ASSUME UNCHANGED <<streams, owed>> PROVE AllKept'
    BY <2>11 DEF AllKept
  <2>12. ASSUME NEW d \in Docs, NEW t \in Topics, Submit(d, t) PROVE AllKept'
    BY <2>11, <2>12 DEF Submit, listening
  <2>13. ASSUME NEW t \in Topics, Tick(t) \/ RegisterProof(t) \/ Rebalance(t) PROVE AllKept'
    BY <2>11, <2>13 DEF Tick, RegisterProof, Invoke, InvokeFails, ItemsSet, Rebalance,
                        listening, history
  <2>14. ASSUME NEW c \in Clients, PeerLists(c) PROVE AllKept'
    BY <2>11, <2>14 DEF PeerLists, history
  <2>15. CASE Dial \/ EventLoop
    BY <2>11, <2>15 DEF Dial, EventLoop, history
  <2>16. ASSUME NEW c \in Clients, NEW tx \in Txs, invokeCompleted(c, tx) PROVE AllKept'
    BY <2>11, <2>16 DEF invokeCompleted, ItemsGet, PersistDigest, ItemsDelete, history
  <2>17. ASSUME NEW c \in Clients, NEW tx \in Txs, NEW d \in Docs, WriteRow(c, tx, d)
         PROVE  AllKept'
    BY <2>11, <2>17 DEF WriteRow, listening, history
  <2>18. CASE UNCHANGED vars
    BY <2>11, <2>18 DEF vars, listening, history
  <2> QED
    BY <2>1, <2>3, <2>5, <2>6, <2>7, <2>8, <2>9, <2>10, <2>12, <2>13, <2>14, <2>15,
       <2>16, <2>17, <2>18 DEF Next, BlockchainNext, eventStart, Network
<1>3. TypeOK /\ AllKept => EventsKept
  <2>1. TypeOK => running \subseteq Clients
    BY BlockchainAssumption DEF TypeOK, ListeningOK, Clients
  <2> QED
    BY <2>1 DEF AllKept, EventsKept
<1> QED
  BY <1>1, <1>2, <1>3, BlockchainTypeCorrect, PTL DEF Spec
=============================================================================
