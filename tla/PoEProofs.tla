----------------------------- MODULE PoEProofs -----------------------------
(***************************************************************************)
(* Proofs about PoE: what the two consumers of the cache, which share the  *)
(* table and know nothing of each other, make the API answer.              *)
(*                                                                         *)
(* The invariants of the blockchain handler are taken over from            *)
(* BlockchainProofs; BP is the handler of PoE with the facts proved about  *)
(* it.  What has to be shown is that the persister's INSERTs and its       *)
(* rebalances leave them alone.                                            *)
(***************************************************************************)
EXTENDS PoE, TLAPS

BP == INSTANCE BlockchainProofs

(* B and BP are the same instance of the same module, so that their        *)
(* definitions have the same bodies.                                       *)
LEMMA SameHandler == B!BlockchainNext => BP!BlockchainNext
BY DEF B!BlockchainNext, BP!BlockchainNext,
       B!Tick, BP!Tick, B!RegisterProof, BP!RegisterProof, B!Invoke, BP!Invoke,
       B!InvokeFails, BP!InvokeFails, B!ItemsSet, BP!ItemsSet, B!Network,
       BP!Network, B!Commit, BP!Commit, B!PeerLists, BP!PeerLists,
       B!PeerReplies, BP!PeerReplies, B!WriteRow, BP!WriteRow, B!UpdateRow,
       BP!UpdateRow,
       B!Disconnect, BP!Disconnect, B!Unread, BP!Unread, B!eventStart,
       BP!eventStart, B!Dial, BP!Dial, B!RegisterReplied, BP!RegisterReplied,
       B!RegisterFails, BP!RegisterFails, B!EventLoop, BP!EventLoop, B!Recv,
       BP!Recv, B!RecvForeign, BP!RecvForeign, B!invokeCompleted,
       BP!invokeCompleted, B!ItemsGet, BP!ItemsGet, B!PersistDigest,
       BP!PersistDigest, B!ItemsDelete, BP!ItemsDelete, B!Close, BP!Close,
       B!proving, BP!proving, B!listening, BP!listening, B!ledger, BP!ledger,
       B!table, BP!table, B!history, BP!history, B!Txs, BP!Txs, B!Clients,
       BP!Clients, B!Idle, BP!Idle, B!Registering, BP!Registering,
       B!Registered, BP!Registered, B!NoCall, BP!NoCall, B!Called, BP!Called,
       B!Marking, BP!Marking, B!Marked, BP!Marked,
       B!Reply, BP!Reply, B!formatDocs, BP!formatDocs, B!Listed, BP!Listed,
       B!Cardinality, BP!Cardinality, B!From, BP!From, B!NoDigest, BP!NoDigest,
       B!NoTx, BP!NoTx, B!SetDocsBlockDigest, BP!SetDocsBlockDigest, B!Range,
       BP!Range, B!ALREADY_PROOFED, BP!ALREADY_PROOFED

(* The same of the operations that PoE uses by themselves. *)
LEMMA SameOperations ==
  /\ \A d \in Docs, t \in Topics : B!Submit(d, t) => BP!Submit(d, t)
  /\ \A t \in Topics : B!Rebalance(t) => BP!Rebalance(t)
  /\ B!Init => BP!Init
<1>1. ASSUME NEW d \in Docs, NEW t \in Topics, B!Submit(d, t) PROVE BP!Submit(d, t)
  BY <1>1 DEF B!Submit, BP!Submit, B!submitted, BP!submitted, B!Range,
              BP!Range, B!listening, BP!listening, B!ledger, BP!ledger,
              B!table, BP!table
<1>2. ASSUME NEW t \in Topics, B!Rebalance(t) PROVE BP!Rebalance(t)
  BY <1>2 DEF B!Rebalance, BP!Rebalance, B!Range, BP!Range, B!listening,
              BP!listening, B!ledger, BP!ledger, B!table, BP!table, B!From,
              BP!From
<1>3. B!Init => BP!Init
  BY DEF B!Init, BP!Init, B!Txs, BP!Txs, B!Clients, BP!Clients, B!Idle,
         BP!Idle, B!NoCall, BP!NoCall, B!NoTx, BP!NoTx, B!NoDigest,
         BP!NoDigest, B!EmptyTable, BP!EmptyTable, B!NullRow, BP!NullRow,
         B!NOT_SPECIFIAL, BP!NOT_SPECIFIAL
<1> QED
  BY <1>1, <1>2, <1>3

(* The names that the properties use, in both. *)
LEMMA SameTerms ==
  /\ NoDigest = BP!NoDigest
  /\ \A D : B!DocsOf(D) = BP!DocsOf(D)
  /\ \A D : FindDocsByBlockDigest(db, D) = BP!FindDocsByBlockDigest(db, D)
  /\ \A D : B!Awaited(D) = BP!Awaited(D)
  /\ B!Txs = BP!Txs /\ B!Clients = BP!Clients
BY DEF B!Awaited, BP!Awaited, B!Txs, BP!Txs, B!Clients, BP!Clients,
       NoDigest, BP!NoDigest, B!DocsOf, BP!DocsOf, FindDocsByBlockDigest,
       BP!FindDocsByBlockDigest

-----------------------------------------------------------------------------
(* What an INSERT of the persister may do to the table. *)
InsertsOnly ==
  \A d \in Docs : \/ db'[d] = db[d]
                  \/ /\ db'[d].inserted
                     /\ db'[d].blockDigest = db[d].blockDigest
                     /\ db'[d].txid = db[d].txid

(* A step of the persister, seen from the blockchain handler. *)
PersisterStep ==
  /\ UNCHANGED <<chainVars, topic>>
  /\ breaks' \in {breaks, breaks + 1} /\ (breaks' # breaks => breaks < MaxBreaks)
  /\ db \in [Docs -> Rows] => InsertsOnly /\ db' \in [Docs -> Rows]

(* Each step is one of the handler, or one of the persister that the       *)
(* handler sees only in the table.                                         *)
LEMMA Consumers == [Next]_vars => [BP!Next]_(BP!vars) \/ PersisterStep
<1> SUFFICES ASSUME [Next]_vars PROVE [BP!Next]_(BP!vars) \/ PersisterStep
  OBVIOUS
<1>1. ASSUME NEW d \in Docs, NEW t \in Topics, SubmitRaw(d, t) PROVE BP!Next
  BY <1>1, SameOperations DEF SubmitRaw, BP!Next
<1>2. ASSUME B!BlockchainNext PROVE BP!Next
  BY <1>2, SameHandler DEF BP!Next
<1>3. ASSUME NEW t \in Topics, B!Rebalance(t) PROVE BP!Next
  BY <1>3, SameOperations DEF BP!Next
<1>4. ASSUME NEW t \in Topics, P!Rebalance(t), UNCHANGED chainVars PROVE PersisterStep
  BY <1>4 DEF P!Rebalance, PersisterStep, InsertsOnly
<1>5. ASSUME P!PersistNext, UNCHANGED chainVars PROVE PersisterStep
  <2>1. UNCHANGED <<topic, breaks>>
    BY <1>5 DEF P!PersistNext, P!MainLoop, P!Goroutines, P!Close, P!CacheCheckTick,
                P!AcquireFetch, P!Receive, P!QueueTimeout, P!PutDocumentsIntoDB,
                P!GetDocumentsFromCache, P!BatchStored, P!BatchRefused, P!Get, P!Send,
                P!Signal, P!CloseSeesChan, P!CloseSeesQueue, P!CloseSession, P!delivery
  <2>2. UNCHANGED db \/ \E w \in Workers : db' = P!PutDocsIntoDB(db, putting[w])
    BY <1>5 DEF P!PersistNext, P!MainLoop, P!Goroutines, P!Close, P!CacheCheckTick,
                P!AcquireFetch, P!Receive, P!QueueTimeout, P!PutDocumentsIntoDB,
                P!GetDocumentsFromCache, P!BatchStored, P!BatchRefused, P!Get, P!Send,
                P!Signal, P!CloseSeesChan, P!CloseSeesQueue, P!CloseSession
  <2>3. ASSUME NEW docs, db \in [Docs -> Rows], db' = P!PutDocsIntoDB(db, docs)
        PROVE  InsertsOnly /\ db' \in [Docs -> Rows]
    BY <2>3 DEF P!PutDocsIntoDB, InsertsOnly, Rows, NOT_PROOFED, P!NOT_PROOFED
  <2> QED
    BY <1>5, <2>1, <2>2, <2>3 DEF PersisterStep, InsertsOnly
<1>6. UNCHANGED vars => UNCHANGED BP!vars
  BY DEF vars, persistVars, chainVars, BP!vars, BP!proving, BP!listening, BP!ledger,
         BP!table, BP!history
<1>7. ASSUME NEW d \in Docs, SubmitRawUnread(d) PROVE UNCHANGED BP!vars
  BY <1>7 DEF SubmitRawUnread, chainVars, BP!vars, BP!proving, BP!listening, BP!ledger,
              BP!table, BP!history
<1> QED
  BY <1>1, <1>2, <1>3, <1>4, <1>5, <1>6, <1>7 DEF Next, ServiceNext, Rebalance

-----------------------------------------------------------------------------
(* The handler's invariants. *)
HandlerInv == BP!TypeOK /\ BP!OnceInv /\ BP!BackedInv /\ BP!WholeInv

(* The table's rows have their types. *)
LEMMA TableTyped ==
  HandlerInv => db \in [Docs -> Rows] /\ chain \in [B!Txs -> Digests]
BY SameTerms
   DEF HandlerInv, BP!TypeOK, BP!TableOK, BP!LedgerOK, BP!Rows, Rows, BP!Digests, Digests,
       BP!NOT_PROOFED, NOT_PROOFED, BP!NOT_SPECIFIAL, NOT_SPECIFIAL, BP!ALREADY_PROOFED,
       ALREADY_PROOFED

(* They hold of the service: the INSERT writes neither digests nor         *)
(* transactions, and the persister's rebalances are its own.               *)
LEMMA HandlerInvHolds == Spec => []HandlerInv
<1> USE PoEAssumption
<1>1. Init => HandlerInv
  BY SameOperations, BP!TypeInit, BP!OnceInit, BP!BackedInit, BP!WholeInit
     DEF Init, HandlerInv, BP!FaultKinds, B!FaultKinds
<1>2. HandlerInv /\ [Next]_vars => HandlerInv'
  <2> SUFFICES ASSUME HandlerInv, [Next]_vars PROVE HandlerInv'
    OBVIOUS
  <2>1. CASE [BP!Next]_(BP!vars)
    BY <2>1, BP!TypeNext, BP!OnceNext, BP!BackedNext, BP!WholeNext
       DEF HandlerInv, BP!FaultKinds, B!FaultKinds
  <2>2. CASE PersisterStep
    <3> USE DEF HandlerInv
    <3>1. db \in [Docs -> Rows]
      BY TableTyped
    <3>2. InsertsOnly /\ db' \in [Docs -> Rows]
      BY <2>2, <3>1 DEF PersisterStep
    <3>3. UNCHANGED <<pending, prover, items, eventPc, dialled, eClis, running, peer,
                      streams, handlers, chain, committed, accepted, batches, redelivered,
                      owed, topic>>
      BY <2>2 DEF PersisterStep, chainVars
    <3>4. BP!TypeOK'
      <4>1. BP!TableOK'
        BY <3>2, <3>3
           DEF BP!TypeOK, BP!TableOK, BP!Rows, Rows, BP!Digests, Digests, BP!NOT_PROOFED,
               NOT_PROOFED, BP!NOT_SPECIFIAL, NOT_SPECIFIAL, BP!ALREADY_PROOFED,
               ALREADY_PROOFED
      <4>2. BP!HistoryOK'
        BY <2>2, <3>3 DEF BP!TypeOK, BP!HistoryOK, PersisterStep
      <4>3. BP!ProvingOK' /\ BP!ListeningOK' /\ BP!HandlersOK' /\ BP!LedgerOK'
        BY <3>3 DEF BP!TypeOK, BP!ProvingOK, BP!ListeningOK, BP!HandlersOK, BP!LedgerOK
      <4> QED
        BY <4>1, <4>2, <4>3 DEF BP!TypeOK
    <3>5. BP!OnceInv'
      <4>1. UNCHANGED <<BP!Queued, BP!submitted>>
        BY <3>3 DEF BP!Queued, BP!batch, BP!submitted
      <4>2. BP!QueuedOnce'
        BY <3>3, <4>1 DEF BP!OnceInv, BP!QueuedOnce
      <4>3. BP!RegisteredOnce' /\ BP!LeavesOK'
        BY <3>3 DEF BP!OnceInv, BP!RegisteredOnce, BP!LeavesOK
      <4> QED
        BY <4>2, <4>3 DEF BP!OnceInv
    <3>6. BP!BackedInv'
      <4>1. BP!AcceptedRegistered' /\ BP!HandlerBacked' /\ BP!BatchBacked'
        BY <3>3 DEF BP!BackedInv, BP!AcceptedRegistered, BP!HandlerBacked, BP!BatchBacked
      <4>2. BP!Backed'
        BY <3>2, <3>3 DEF BP!BackedInv, BP!Backed, InsertsOnly
      <4> QED
        BY <4>1, <4>2 DEF BP!BackedInv
    <3>7. BP!WholeInv'
      <4>1. ASSUME NEW tx \in BP!Txs
            PROVE  BP!Written(tx)' = BP!Written(tx) /\ BP!Logged(tx)' = BP!Logged(tx)
        BY <3>2, <3>3 DEF BP!Written, BP!Logged, InsertsOnly
      <4> QED
        BY <3>3, <4>1 DEF BP!WholeInv
    <3> QED
      BY <3>4, <3>5, <3>6, <3>7
  <2> QED
    BY <2>1, <2>2, Consumers
<1> QED
  BY <1>1, <1>2, PTL DEF Spec

-----------------------------------------------------------------------------
(* The rows of the block of d give a root that the chain has accepted. *)
Verifies(d) ==
  /\ db[d].blockDigest # NoDigest
  /\ B!VerifyDocs(FindDocsByBlockDigest(db, db[d].blockDigest))

(* A row with a digest was written, so it is found. *)
LEMMA ResultValid ==
  \A d \in Docs : "valid" \in getProofResult(db[d]) <=> Verifies(d)
<1> SUFFICES ASSUME NEW d \in Docs PROVE "valid" \in getProofResult(db[d]) <=> Verifies(d)
  OBVIOUS
<1>1. db[d].blockDigest # NoDigest => RowExists(db[d])
  BY DEF RowExists
<1>2. CASE RowExists(db[d]) /\ db[d].blockDigest # NoDigest
  BY <1>2 DEF getProofResult, Verdicts, Verifies
<1>3. CASE db[d].blockDigest = NoDigest
  BY <1>3 DEF getProofResult, Verdicts, Verifies
<1> QED
  BY <1>1, <1>2, <1>3

(* The same after a step. *)
LEMMA ResultValidNext ==
  \A d \in Docs : "valid" \in getProofResult(db[d])' <=> Verifies(d)'
<1> SUFFICES ASSUME NEW d \in Docs PROVE "valid" \in getProofResult(db[d])' <=> Verifies(d)'
  OBVIOUS
<1>1. db'[d].blockDigest # NoDigest => RowExists(db'[d])
  BY DEF RowExists
<1>2. CASE RowExists(db'[d]) /\ db'[d].blockDigest # NoDigest
  BY <1>2 DEF getProofResult, Verdicts, Verifies
<1>3. CASE db'[d].blockDigest = NoDigest
  BY <1>3 DEF getProofResult, Verdicts, Verifies
<1> QED
  BY <1>1, <1>2, <1>3

(* What the rows of a document's block are. *)
LEMMA BlockOf ==
  ASSUME HandlerInv, NEW d \in Docs, db[d].blockDigest # NoDigest
  PROVE  LET D == db[d].blockDigest
         IN  /\ d \in B!DocsOf(D) /\ B!DocsOf(D) \subseteq Docs
             /\ \E tx \in accepted : chain[tx] = D
             /\ FindDocsByBlockDigest(db, D) \subseteq B!DocsOf(D)
             /\ BlockOnce(d) => FindDocsByBlockDigest(db, D) \cup B!Awaited(D) = B!DocsOf(D)
             /\ BlockOnce(d) => D = {<<e, TRUE, 1>> : e \in B!DocsOf(D)}
<1> DEFINE D == db[d].blockDigest
           x == db[d].txid
<1>1. x \in accepted /\ chain[x] = D /\ d \in BP!DocsOf(D)
  BY SameTerms DEF HandlerInv, BP!BackedInv, BP!Backed
<1>2. x \in BP!Txs /\ D \in BP!Digests
  BY <1>1 DEF HandlerInv, BP!TypeOK, BP!LedgerOK
<1>3. BP!DocsOf(D) \subseteq Docs
  BY <1>2 DEF BP!Digests, BP!DocsOf
<1>4. BP!FindDocsByBlockDigest(db, D) \subseteq BP!DocsOf(D)
  BY DEF HandlerInv, BP!BackedInv, BP!Backed, BP!FindDocsByBlockDigest
<1>5. BlockOnce(d) => BP!FindDocsByBlockDigest(db, D) \cup BP!Awaited(D) = BP!DocsOf(D)
  <2>1. BP!BlockWhole
    BY PoEAssumption, BP!WholeBlocks DEF HandlerInv, BP!FaultKinds, B!FaultKinds
  <2> QED
    BY <2>1, SameTerms DEF BP!BlockWhole, BlockOnce
<1>6. ASSUME BlockOnce(d) PROVE D = {<<e, TRUE, 1>> : e \in BP!DocsOf(D)}
  <2>1. \A leaf \in D : leaf = <<leaf[1], TRUE, 1>> /\ leaf[1] \in BP!DocsOf(D)
    <3> SUFFICES ASSUME NEW leaf \in D
                 PROVE  leaf = <<leaf[1], TRUE, 1>> /\ leaf[1] \in BP!DocsOf(D)
      OBVIOUS
    <3>1. leaf[1] \in BP!DocsOf(D)
      BY DEF BP!DocsOf
    <3>2. leaf[1] \notin redelivered
      BY <1>6, <3>1, SameTerms DEF BlockOnce
    <3>3. leaf[3] \in Nat \ {0} /\ leaf = <<leaf[1], TRUE, leaf[3]>> /\ ~(leaf[3] > 1)
      BY <1>1, <1>2, <3>2 DEF HandlerInv, BP!OnceInv, BP!LeavesOK, BP!RegisteredOnce
    <3>4. leaf[3] = 1
      BY <3>3
    <3> QED
      BY <3>1, <3>3, <3>4
  <2>2. \A e \in BP!DocsOf(D) : \E leaf \in D : leaf[1] = e
    BY DEF BP!DocsOf
  <2> HIDE DEF D
  <2>3. ASSUME NEW e \in BP!DocsOf(D) PROVE <<e, TRUE, 1>> \in D
    BY <2>1, <2>2
  <2>4. ASSUME NEW leaf \in D PROVE leaf \in {<<e, TRUE, 1>> : e \in BP!DocsOf(D)}
    BY <2>1
  <2> QED
    BY <2>3, <2>4
<1> QED
  BY <1>1, <1>3, <1>4, <1>5, <1>6, SameTerms

(* A block whose rows have all been inserted and updated, and which the    *)
(* cache delivered once, verifies, whatever order INSERT and UPDATE came   *)
(* in.                                                                     *)
THEOREM InsertedBlocksVerify == Spec => []InsertedBlockVerifies
<1>1. HandlerInv => InsertedBlockVerifies
  <2> SUFFICES ASSUME HandlerInv, NEW d \in Docs, db[d].blockDigest # NoDigest,
                      \A e \in B!DocsOf(db[d].blockDigest) : db[e].inserted, BlockOnce(d),
                      B!Awaited(db[d].blockDigest) = {}
               PROVE  "valid" \in getProofResult(db[d])
    BY DEF InsertedBlockVerifies
  <2> DEFINE D == db[d].blockDigest
  <2>1. /\ FindDocsByBlockDigest(db, D) = B!DocsOf(D)
        /\ D = {<<e, TRUE, 1>> : e \in B!DocsOf(D)}
        /\ \E tx \in accepted : chain[tx] = D
        /\ B!DocsOf(D) \subseteq Docs
    BY BlockOf
  <2>2. \A e \in B!DocsOf(D) : db[e].inserted = TRUE
    <3>1. db \in [Docs -> Rows]
      BY TableTyped
    <3> QED
      BY <2>1, <3>1 DEF Rows
  <2>3. B!formatRows(B!DocsOf(D)) = {<<e, TRUE, 1>> : e \in B!DocsOf(D)}
    BY <2>2 DEF B!formatRows
  <2>4. B!VerifyDocs(B!DocsOf(D))
    BY <2>1, <2>3 DEF B!VerifyDocs, NoDigest, B!NoDigest
  <2> QED
    BY <2>1, <2>4, ResultValid DEF Verifies
<1> QED
  BY <1>1, HandlerInvHolds, PTL

-----------------------------------------------------------------------------
(* A block that verifies has all of its rows: the rows of a part would give*)
(* the root of another block with the document.                            *)
LEMMA VerifiesWhole ==
  ASSUME HandlerInv, NEW d \in Docs, Verifies(d), BlockOnce(d)
  PROVE  FindDocsByBlockDigest(db, db[d].blockDigest) = B!DocsOf(db[d].blockDigest)
<1> DEFINE D == db[d].blockDigest
           S == FindDocsByBlockDigest(db, D)
           x == db[d].txid
<1>1. /\ D # NoDigest /\ d \in S /\ d \in B!DocsOf(D) /\ d \notin redelivered
  <2>1. D # NoDigest
    BY DEF Verifies
  <2>2. d \in B!DocsOf(D)
    BY <2>1, BlockOf
  <2> QED
    BY <2>1, <2>2 DEF FindDocsByBlockDigest, BlockOnce
<1>2. PICK tx \in accepted : chain[tx] = {<<e, db[e].inserted, 1>> : e \in S}
  BY DEF Verifies, B!VerifyDocs, B!formatRows
<1>3. B!DocsOf(chain[tx]) = S
  <2> HIDE DEF S
  <2>1. \A e \in S : <<e, db[e].inserted, 1>> \in chain[tx] /\ <<e, db[e].inserted, 1>>[1] = e
    BY <1>2
  <2>2. \A leaf \in chain[tx] : \E e \in S : leaf = <<e, db[e].inserted, 1>>
    BY <1>2
  <2>3. S \subseteq B!DocsOf(chain[tx])
    BY <2>1 DEF B!DocsOf
  <2>4. B!DocsOf(chain[tx]) \subseteq S
    BY <2>2 DEF B!DocsOf
  <2> QED
    BY <2>3, <2>4
<1>4. x \in accepted /\ chain[x] = D
  BY <1>1, SameTerms DEF HandlerInv, BP!BackedInv, BP!Backed
<1>5. tx \in BP!Txs /\ x \in BP!Txs
  BY <1>4 DEF HandlerInv, BP!TypeOK, BP!LedgerOK
<1>6. tx = x
  BY <1>1, <1>3, <1>4, <1>5, SameTerms DEF HandlerInv, BP!OnceInv, BP!RegisteredOnce
<1> QED
  BY <1>3, <1>4, <1>6

(* What no step takes from the rows of a document: that it is there, its   *)
(* digest, and, if it came once, the rows of its block and their verdict.  *)
LEMMA RowsKept ==
  HandlerInv /\ HandlerInv' /\ [Next]_vars =>
    \A d \in Docs :
      /\ RowExists(db[d]) => RowExists(db'[d])
      /\ db[d].blockDigest # NoDigest => db'[d].blockDigest # NoDigest
      /\ Verifies(d) /\ BlockOnce(d) => Verifies(d)'
<1> USE PoEAssumption
<1> SUFFICES ASSUME HandlerInv, HandlerInv', [Next]_vars, NEW d \in Docs
             PROVE  /\ RowExists(db[d]) => RowExists(db'[d])
                    /\ db[d].blockDigest # NoDigest => db'[d].blockDigest # NoDigest
                    /\ Verifies(d) /\ BlockOnce(d) => Verifies(d)'
  OBVIOUS
<1>0. db \in [Docs -> Rows]
  BY TableTyped
<1>1. ASSUME [BP!Next]_(BP!vars)
      PROVE  /\ \A e \in Docs : \/ db'[e] = db[e]
                                \/ /\ db'[e].blockDigest # NoDigest
                                   /\ db'[e].inserted = db[e].inserted
             /\ \A e \in Docs : db[e].blockDigest # NoDigest =>
                  /\ db'[e].blockDigest # NoDigest
                  /\ e \notin redelivered => db'[e].blockDigest = db[e].blockDigest
             /\ accepted \subseteq accepted' /\ \A tx \in accepted : chain'[tx] = chain[tx]
  <2>1. BP!DigestsKept
    BY <1>1, BP!DigestsStay DEF HandlerInv, BP!FaultKinds, B!FaultKinds
  <2>2. BP!LedgerGrows
    BY <1>1, BP!LedgerSteps DEF HandlerInv, BP!BackedInv, BP!FaultKinds, B!FaultKinds
  <2>3. \A e \in Docs : \/ db'[e] = db[e]
                        \/ /\ db'[e].blockDigest # BP!NoDigest
                           /\ db'[e].inserted = db[e].inserted
    BY <1>1, BP!RowsUpdated DEF HandlerInv, BP!BackedInv, BP!FaultKinds, B!FaultKinds
  <2> QED
    BY <2>1, <2>2, <2>3, SameTerms DEF BP!DigestsKept, BP!LedgerGrows
<1>2. ASSUME PersisterStep
      PROVE  /\ \A e \in Docs : \/ db'[e] = db[e]
                                \/ /\ db'[e].inserted
                                   /\ db'[e].blockDigest = db[e].blockDigest
             /\ UNCHANGED <<accepted, chain>>
  BY <1>0, <1>2 DEF PersisterStep, InsertsOnly, chainVars
<1>3. /\ RowExists(db[d]) => RowExists(db'[d])
      /\ db[d].blockDigest # NoDigest => db'[d].blockDigest # NoDigest
  BY <1>1, <1>2, Consumers DEF RowExists
<1>4. ASSUME Verifies(d), BlockOnce(d) PROVE Verifies(d)'
  <2> DEFINE D == db[d].blockDigest
             S == B!DocsOf(D)
  <2>1. /\ D # NoDigest /\ d \in S /\ S \subseteq Docs
        /\ FindDocsByBlockDigest(db, D) = S
    BY <1>4, BlockOf, VerifiesWhole DEF Verifies
  <2>2. PICK tx \in accepted : chain[tx] = {<<e, db[e].inserted, 1>> : e \in S}
    BY <1>4, <2>1 DEF Verifies, B!VerifyDocs, B!formatRows
  <2>3. \A e \in S : db[e].inserted = TRUE
    <3>1. \A leaf \in chain[tx] : leaf = <<leaf[1], TRUE, leaf[3]>>
      BY DEF HandlerInv, BP!OnceInv, BP!LeavesOK, BP!TypeOK, BP!LedgerOK
    <3>2. ASSUME NEW e \in S PROVE db[e].inserted = TRUE
      <4>1. <<e, db[e].inserted, 1>> \in chain[tx]
        BY <2>2
      <4>2. <<e, db[e].inserted, 1>> = <<e, TRUE, 1>>
        BY <3>1, <4>1
      <4> QED
        BY <4>2
    <3> QED
      BY <3>2
  <2>4. \A e \in S : db[e].blockDigest = D /\ e \notin redelivered
    BY <1>4, <2>1 DEF FindDocsByBlockDigest, BlockOnce
  <2> HIDE DEF D, S
  <2>5. /\ \A e \in S : db'[e].blockDigest = D /\ db'[e].inserted = TRUE
        /\ tx \in accepted' /\ chain'[tx] = chain[tx]
    <3>1. CASE [BP!Next]_(BP!vars)
      BY <1>1, <2>1, <2>3, <2>4, <3>1
    <3>2. CASE PersisterStep
      <4>1. \A e \in S : db'[e].inserted \in BOOLEAN
        BY <1>0, <2>1, <3>2 DEF PersisterStep, Rows
      <4> QED
        BY <1>2, <2>1, <2>3, <2>4, <3>2, <4>1
    <3> QED
      BY <3>1, <3>2, Consumers
  <2>6. FindDocsByBlockDigest(db', D) = S
    <3>1. S \subseteq FindDocsByBlockDigest(db', D)
      BY <2>1, <2>5 DEF FindDocsByBlockDigest
    <3>2. \A e \in Docs : db'[e].blockDigest = D => e \in S
      BY <2>1, SameTerms DEF HandlerInv, BP!BackedInv, BP!Backed, S
    <3> QED
      BY <3>1, <3>2 DEF FindDocsByBlockDigest
  <2>7. {<<e, db'[e].inserted, 1>> : e \in S} = chain'[tx]
    BY <2>2, <2>3, <2>5
  <2>8. {<<e, db'[e].inserted, 1>> : e \in S} # {}
    BY <2>1
  <2>9. db'[d].blockDigest = D
    BY <2>1, <2>5
  <2> QED
    BY <2>1, <2>5, <2>6, <2>7, <2>8, <2>9 DEF Verifies, B!VerifyDocs, B!formatRows, B!NoDigest
<1> QED
  BY <1>3, <1>4

(* The table takes nothing back in any step of either consumer: a row      *)
(* stays, with its digest, and a block that came once and verifies goes on *)
(* to verify.                                                              *)
THEOREM TableIsNeverTakenBack == Spec => TableNeverBack
<1> DEFINE Kept ==
             \A d \in Docs :
               /\ RowExists(db[d]) => RowExists(db'[d])
               /\ db[d].blockDigest # NoDigest => db'[d].blockDigest # NoDigest
               /\ "valid" \in getProofResult(db[d]) /\ BlockOnce(d) =>
                    "valid" \in getProofResult(db[d])'
<1>1. HandlerInv /\ HandlerInv' /\ [Next]_vars => Kept
  BY RowsKept, ResultValid, ResultValidNext
<1> HIDE DEF Kept
<1>2. Spec => [][Kept]_vars
  BY <1>1, HandlerInvHolds, PTL DEF Spec
<1> QED
  BY <1>2 DEF Kept, TableNeverBack

-----------------------------------------------------------------------------
(* A document is in a block that the chain has accepted. *)
Proven(d) == \E tx \in accepted : d \in B!DocsOf(chain[tx])

(* Every version that a row has had claims a proof only of a proven        *)
(* document: the chain keeps what it has accepted, so a version that was   *)
(* right when it was written is right on a replica that is behind.         *)
SeenInv ==
  /\ seen \in [Docs -> SUBSET Rows]
  /\ \A d \in Docs : \A row \in seen[d] : row.blockDigest # NoDigest => Proven(d)

(* A digest in the table is a proof. *)
LEMMA DigestProven ==
  ASSUME HandlerInv, NEW d \in Docs, db[d].blockDigest # NoDigest PROVE Proven(d)
BY SameTerms DEF HandlerInv, BP!BackedInv, BP!Backed, Proven

(* What the replicas may hold stays proven. *)
LEMMA SeenInvHolds == Spec => []SeenInv
<1> USE PoEAssumption
<1>1. Init => SeenInv
  BY DEF Init, SeenInv, NullRow, Rows, Digests, NoDigest, NoTx, NOT_SPECIFIAL
<1>2. HandlerInv /\ HandlerInv' /\ SeenInv /\ [Next]_vars => SeenInv'
  <2> SUFFICES ASSUME HandlerInv, HandlerInv', SeenInv, [Next]_vars PROVE SeenInv'
    OBVIOUS
  <2>1. ASSUME NEW d \in Docs, Proven(d) PROVE Proven(d)'
    <3>1. CASE [BP!Next]_(BP!vars)
      <4>1. BP!LedgerGrows
        BY <3>1, BP!LedgerSteps DEF HandlerInv, BP!BackedInv, BP!FaultKinds, B!FaultKinds
      <4> QED
        BY <2>1, <4>1 DEF BP!LedgerGrows, Proven
    <3>2. CASE PersisterStep
      BY <2>1, <3>2 DEF PersisterStep, chainVars, Proven
    <3> QED
      BY <3>1, <3>2, Consumers
  <2>2. db' \in [Docs -> Rows]
    BY DEF HandlerInv, BP!TypeOK, BP!TableOK, BP!Rows, Rows, BP!Digests, Digests,
           BP!NOT_PROOFED, NOT_PROOFED, BP!NOT_SPECIFIAL, NOT_SPECIFIAL,
           BP!ALREADY_PROOFED, ALREADY_PROOFED
  <2>3. ASSUME NEW d \in Docs, db'[d].blockDigest # NoDigest PROVE Proven(d)'
    BY <2>3, SameTerms DEF HandlerInv, BP!BackedInv, BP!Backed, Proven
  <2>4. CASE UNCHANGED vars
    BY <2>1, <2>4 DEF vars, SeenInv
  <2>5. CASE seen' = [d \in Docs |-> seen[d] \cup {db'[d]}]
    BY <2>1, <2>2, <2>3, <2>5 DEF SeenInv
  <2> QED
    BY <2>4, <2>5 DEF Next
<1> QED
  BY <1>1, <1>2, HandlerInvHolds, PTL DEF Spec

(* No answer of the API claims a proof that there is not, whichever replica*)
(* it was read from and whatever that replica is behind or ahead in.       *)
THEOREM AnswersAreBacked == Spec => []AnswersBacked
<1>1. HandlerInv /\ SeenInv => AnswersBacked
  <2> SUFFICES ASSUME HandlerInv, SeenInv, NEW d \in Docs,
                      NEW row \in GetDocFromDBByDocID(Replicas(d)),
                      \/ getProofStatus(row) = "ok"
                      \/ "valid" \in getProofResult(row) \cup postProofResult(d)
               PROVE  Proven(d)
    BY DEF AnswersBacked, Proven
  <2>1. "valid" \in postProofResult(d) => db[d].blockDigest # NoDigest
    BY DEF postProofResult
  <2>2. getProofStatus(row) = "ok" \/ "valid" \in getProofResult(row) =>
          row.blockDigest # NoDigest
    BY DEF getProofStatus, getProofResult
  <2>3. ASSUME NEW version \in Replicas(d)
        PROVE  version \in Rows /\ (version.blockDigest # NoDigest => Proven(d))
    <3>1. CASE version \in seen[d]
      BY <3>1 DEF SeenInv
    <3>2. ASSUME NEW w \in Workers, version = PutDocsIntoDB(EmptyTable, putting[w])[d]
          PROVE  version \in Rows /\ version.blockDigest = NoDigest
      BY <3>2 DEF PutDocsIntoDB, EmptyTable, NullRow, Rows, Digests, NoDigest, NoTx,
                  NOT_SPECIFIAL, NOT_PROOFED
    <3>3. ASSUME NEW tx \in B!Txs, NEW c \in B!Clients, d \in batches[c][tx],
                 version = UpdateRow(NullRow, chain[tx], tx)
          PROVE  version \in Rows /\ Proven(d)
      <4>1. version \in Rows
        <5>1. chain[tx] \in Digests /\ tx \in Nat
          BY TableTyped DEF B!Txs
        <5> QED
          BY <3>3, <5>1 DEF UpdateRow, NullRow, Rows, ALREADY_PROOFED
      <4>2. Proven(d)
        BY <3>3, SameTerms DEF HandlerInv, BP!BackedInv, BP!BatchBacked, Proven
      <4> QED
        BY <4>1, <4>2
    <3> QED
      BY <3>1, <3>2, <3>3 DEF Replicas
  <2>4. row.blockDigest # NoDigest => Proven(d)
    <3>1. CASE row = NullRow
      BY <3>1 DEF NullRow
    <3>2. ASSUME NEW insert \in Replicas(d), NEW update \in Replicas(d),
                 row = [update EXCEPT !.inserted = insert.inserted]
          PROVE  row.blockDigest # NoDigest => Proven(d)
      BY <2>3, <3>2 DEF Rows
    <3> QED
      BY <3>1, <3>2 DEF GetDocFromDBByDocID
  <2> QED
    BY <2>1, <2>2, <2>4, DigestProven
<1> QED
  BY <1>1, HandlerInvHolds, SeenInvHolds, PTL
=============================================================================
