-------------------------------- MODULE PoE --------------------------------
(***************************************************************************)
(* The service: the persister and the blockchain handler are two           *)
(* independent consumers of the cache that write to the same table, and    *)
(* the API reads what they wrote.  Nothing orders the two: the INSERT of a *)
(* document and the UPDATE that records its proof come in either order.    *)
(*                                                                         *)
(* The cache gives every document to both consumers, as KafkaCache does    *)
(* with one consumer group each.                                           *)
(***************************************************************************)
EXTENDS Documents

CONSTANTS Topics, Limit, MaxBreaks,
          ChanCap, QueueSize, Workers, Pulls, MaxFetch, Env,  \* of Persist
          Events, MaxTx, Faults                               \* of Blockchain

VARIABLES cached, fetching, hand, docsChan, docQueue, pc, fetchers, putting,
          closer, refetched, givenUp            \* of Persist
VARIABLES pending, prover, items, eventPc, dialled, eClis, running, peer,
          streams, handlers, chain, committed, accepted, batches, redelivered,
          owed                                  \* of Blockchain
VARIABLES db, topic, breaks                     \* of both
VARIABLES
  unread,  \* documents in topics of periods that are not configured
  seen     \* history: seen[d], every value the row of d has had

persistVars == <<cached, fetching, hand, docsChan, docQueue, pc, fetchers,
                 putting, closer, refetched, givenUp>>
chainVars == <<pending, prover, items, eventPc, dialled, eClis, running, peer,
               streams, handlers, chain, committed, accepted, batches,
               redelivered, owed>>
vars == <<persistVars, chainVars, db, topic, breaks, unread, seen>>

P == INSTANCE Persist
B == INSTANCE Blockchain

ASSUME PoEAssumption ==
  /\ Limit \in [Topics -> Nat]
  /\ MaxBreaks \in Nat
  /\ ChanCap \in Nat \ {0} /\ QueueSize \in Nat /\ MaxFetch \in Nat \ {0}
  /\ Env \subseteq P!EnvKinds
  /\ Events \in Nat \ {0} /\ MaxTx \in Nat
  /\ Faults \subseteq B!FaultKinds

-----------------------------------------------------------------------------
(* submitRaw: cache.Put makes the document known to both consumers. *)
SubmitRaw(d, t) ==
  /\ d \notin unread
  /\ P!Submit(d, t) /\ B!Submit(d, t)
  /\ UNCHANGED unread

(* submitRaw takes every period that time.ParseDuration does, and answers  *)
(* 201 for each.  The topic of one that is not configured nobody reads.    *)
SubmitRawUnread(d) ==
  /\ d \notin unread \cup B!submitted
  /\ unread' = unread \cup {d}
  /\ UNCHANGED <<persistVars, chainVars, db, topic, breaks>>

(* The two consumers are groups of their own: one rebalances alone, each   *)
(* reads on from its own offsets.                                          *)
Rebalance == \E t \in Topics : \/ P!Rebalance(t) /\ UNCHANGED chainVars
                               \/ B!Rebalance(t) /\ UNCHANGED persistVars

Init == P!Init /\ B!Init /\ unread = {} /\ seen = [d \in Docs |-> {NullRow}]

ServiceNext == \/ P!PersistNext /\ UNCHANGED chainVars
               \/ B!BlockchainNext /\ UNCHANGED persistVars
               \/ Rebalance

Next == /\ \/ \E d \in Docs : SubmitRawUnread(d) \/ \E t \in Topics : SubmitRaw(d, t)
           \/ ServiceNext /\ UNCHANGED unread
        /\ seen' = [d \in Docs |-> seen[d] \cup {db'[d]}]

Spec == Init /\ [][Next]_vars

FairSpec == Spec /\ P!Fairness /\ B!Fairness

-----------------------------------------------------------------------------
(* What the API answers.  A request changes neither the table nor the chain*)
(* (the signature it may add is a column of its own).                      *)

(* The versions of the row of d that its replicas hold: values it has had, *)
(* and what the two consumers are writing.                                 *)
Replicas(d) ==
  seen[d]
    \cup {PutDocsIntoDB(EmptyTable, putting[w])[d] : w \in Workers}
    \cup {UpdateRow(NullRow, chain[tx], tx) :
            tx \in {x \in B!Txs : \E c \in B!Clients : d \in batches[c][x]}}

(* GET /poe/v1/documents/:id/status, when the SELECT returns row; an error *)
(* of any kind is answered as no row is.                                   *)
getProofStatus(row) ==
  CASE ~RowExists(row)              -> "none"
    [] row.blockDigest # NoDigest   -> "ok"
    [] OTHER                        -> "wait"

(* What is answered of a row with a digest: valid if the block verifies;   *)
(* invalid if it does not, or if the query on the chain or signing fails.  *)
Verdicts(row) ==
  {"invalid"} \cup {v \in {"valid"} :
                      B!VerifyDocs(FindDocsByBlockDigest(db, row.blockDigest))}

(* GET /poe/v1/documents/:id/result, when the SELECT returns row: what it  *)
(* may answer.  The second SELECT may fail too, and 404 is answered again. *)
getProofResult(row) ==
  CASE ~RowExists(row)              -> {"none"}
    [] row.blockDigest # NoDigest   -> {"none"} \cup Verdicts(row)
    [] OTHER                        -> {"wait"}

(* POST /poe/v1/documents/result finds the row by the document's hash, at  *)
(* QUORUM, and answers none also when that SELECT fails.                   *)
postProofResult(d) ==
  {"none"} \cup CASE FindDocsByHash(db, d) = {}      -> {}
                  [] db[d].blockDigest # NoDigest   -> Verdicts(db[d])
                  [] OTHER                          -> {"wait"}

(* GET /poe/v1/documents: the list of a type. *)
getDocs(type) ==
  FindDocs(db, CASE type = "register" -> NOT_PROOFED
                 [] type = "proof"    -> ALREADY_PROOFED
                 [] type = ""         -> NOT_SPECIFIAL)

-----------------------------------------------------------------------------
(* The documents of the block that d's row names came to the blockchain    *)
(* handler once.  A document that came twice is in two blocks, or twice in *)
(* one, and the rows no longer give the root that the chain has.           *)
BlockOnce(d) == B!DocsOf(db[d].blockDigest) \cap redelivered = {}

(* No request claims a proof that there is not.  The status by id comes    *)
(* from whatever replica answers, which may be behind in one consumer's    *)
(* writes and ahead in the other's; yet ok, and valid by either way, is    *)
(* answered only of a document that is in a block the chain has accepted.  *)
AnswersBacked ==
  \A d \in Docs : \A row \in GetDocFromDBByDocID(Replicas(d)) :
    \/ getProofStatus(row) = "ok"
    \/ "valid" \in getProofResult(row) \cup postProofResult(d)
    => \E tx \in accepted : d \in B!DocsOf(chain[tx])

(* The table takes nothing back, as reads at QUORUM see it: a row stays, a *)
(* digest is never removed, and a block that verifies verifies for good,   *)
(* whatever the other consumer writes into its rows afterwards, and        *)
(* whatever a rebalance makes the persister store a second time.  The      *)
(* answers by id have no such order: a SELECT that fails, or a replica that*)
(* is behind, lets the API say none or wait after ok.                      *)
TableNeverBack ==
  [][\A d \in Docs :
       /\ RowExists(db[d]) => RowExists(db'[d])
       /\ db[d].blockDigest # NoDigest => db'[d].blockDigest # NoDigest
       /\ "valid" \in getProofResult(db[d]) /\ BlockOnce(d) =>
            "valid" \in getProofResult(db[d])'
    ]_vars

(* A block whose rows have all been inserted and updated verifies: the root*)
(* that the API recomputes from the table is one the chain accepted.       *)
InsertedBlockVerifies ==
  \A d \in Docs :
    /\ db[d].blockDigest # NoDigest
    /\ \A e \in B!DocsOf(db[d].blockDigest) : db[e].inserted
    /\ B!Awaited(db[d].blockDigest) = {}
    /\ BlockOnce(d)
    => "valid" \in getProofResult(db[d])

(* A document whose status is ok can at last be verified, although the     *)
(* UPDATE came before the INSERTs and writes the rows of its block one by  *)
(* one: the persister catches up with every document of the block, unless  *)
(* the database refused one or one came to the blockchain handler twice.   *)
OkBecomesValid ==
  \A d \in Docs :
    getProofStatus(db[d]) = "ok" ~> \/ "valid" \in postProofResult(d)
                                   \/ B!DocsOf(db[d].blockDigest) \cap givenUp # {}
                                   \/ ~BlockOnce(d)

(* Documents that RegisterProof put into items before their transaction's  *)
(* event was sent get their digest, and their entry is removed, however    *)
(* the persister's INSERT falls between and whatever either consumer is    *)
(* given a second time, unless the chaincode rejects them.                 *)
StoredFirstIsProofed ==
  \A tx \in B!Txs, d \in Docs :
    /\ d \in Range(items[tx])
    /\ tx \notin committed
    /\ running # {}
    ~> \/ db[d].blockDigest # NoDigest /\ items[tx] = << >>
       \/ tx \in committed \ accepted

(* README.md describes the list of type register as registered and not yet *)
(* proofed documents.                                                      *)
RegisterListUnproofed ==
  \A d \in getDocs("register") : getProofStatus(db[d]) # "ok"

(* integration-tests/main.go asks for the result of a document whose       *)
(* status is not wait, and panics with "document proof failure." when it is*)
(* none or invalid: after ok, valid must be among the answers.             *)
StatusOkResultFound ==
  \A d \in Docs :
    getProofStatus(db[d]) = "ok" => "valid" \in postProofResult(d)
=============================================================================
