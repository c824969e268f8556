----------------------------- MODULE Documents -----------------------------
(***************************************************************************)
(* The Cassandra table `documents' and the statements that                 *)
(* CassandraPersister issues against it, as operators on a table value.    *)
(*                                                                         *)
(* A document is its id: hash, submitTime, waitDuration, metadata and      *)
(* appName are fixed when the cache creates it (Put) and never change, so  *)
(* a row only has to say whether those columns have been written           *)
(* (inserted).  Cassandra's INSERT and UPDATE are both upserts: each       *)
(* writes the columns it names and leaves the others as they were, and an  *)
(* UPDATE of a row that is not there creates it.                           *)
(*                                                                         *)
(* A table value is what a QUORUM read sees: writes and most reads use     *)
(* gocql's default, QUORUM.  The SELECT by id reads one replica.           *)
(***************************************************************************)
EXTENDS Integers, Sequences, Functions

CONSTANT Docs  \* document ids

(* The documents of a topic that lie behind an offset. *)
From(docs, offset) == SubSeq(docs, offset + 1, Len(docs))

(* The columns of a row that has never been written: gocql scans null as   *)
(* "" or 0.  NoDigest and NoTx stand for the empty string.                 *)
NoDigest == {}
NoTx == 0

(* A block digest identifies the Merkle root of a sorted list of           *)
(* documents, that is a bag of leaves (formatDocs), here a set of leaves   *)
(* each numbered among its equals.                                         *)
Digests == SUBSET (Docs \X BOOLEAN \X Nat)

NOT_SPECIFIAL   == 0
NOT_PROOFED     == 1
ALREADY_PROOFED == 2

(* proofTime is written with blockDigest and needs no column of its own.   *)
Rows == [inserted: BOOLEAN, blockDigest: Digests, txid: Nat,
         proofStatus: {NOT_SPECIFIAL, NOT_PROOFED, ALREADY_PROOFED}]

NullRow == [inserted    |-> FALSE,
            blockDigest |-> NoDigest,
            txid        |-> NoTx,
            proofStatus |-> NOT_SPECIFIAL]

EmptyTable == [d \in Docs |-> NullRow]

(* A plausible slip: the INSERT names every column of the document, so it  *)
(* writes the empty blockDigest of a document that came from the cache.    *)
PutDocsIntoDBAllColumns(db, docs) ==
  [d \in Docs |-> IF d \in Range(docs)
                  THEN [NullRow EXCEPT !.inserted    = TRUE,
                                       !.proofStatus = NOT_PROOFED]
                  ELSE db[d]]

(* INSERT INTO documents(id, hash, submitTime, waitDuration, metadata,     *)
(* appName, proofStatus): one row for each element of the sequence docs.   *)
PutDocsIntoDB(db, docs) ==
  [d \in Docs |-> IF d \in Range(docs)
                  THEN [db[d] EXCEPT !.inserted    = TRUE,
                                     !.proofStatus = NOT_PROOFED]
                  ELSE db[d]]

(* A plausible slip: the loop over the ids stops one short.                *)
SetDocsBlockDigestShort(docIDs) == Range(Tail(docIDs))

(* The UPDATE batch of SetDocsBlockDigest, as the rows it is to write; no  *)
(* batch for no ids.  The rows are partitions of their own, and a logged   *)
(* batch over several is not isolated: Cassandra writes them one by one.   *)
SetDocsBlockDigest(docIDs) == Range(docIDs)

(* One of them: UPDATE documents SET blockDigest, proofTime, transactionId,*)
(* proofStatus WHERE id = ?                                                *)
UpdateRow(row, digest, tx) ==
  [row EXCEPT !.blockDigest = digest,
              !.txid        = tx,
              !.proofStatus = ALREADY_PROOFED]

(* A row is there as soon as an INSERT or an UPDATE has written it.        *)
RowExists(row) == row.inserted \/ row.blockDigest # NoDigest

(* What GetDocFromDBByDocID may return when the replicas hold versions of  *)
(* the row: NullRow for the error of a failed SELECT and for no row, which *)
(* the callers do not tell apart; else, at consistency ONE, the row of the *)
(* replica that answers, which may still miss any INSERT or UPDATE.        *)
GetDocFromDBByDocID(versions) ==
  {NullRow} \cup
  {[update EXCEPT !.inserted = insert.inserted] : insert, update \in versions}

(* SELECT ... WHERE blockDigest = digest; the empty digest is refused.     *)
FindDocsByBlockDigest(db, digest) ==
  {d \in Docs : digest # NoDigest /\ db[d].blockDigest = digest}

(* SELECT ... WHERE hash = ?, for the hash of document d: only the INSERT   *)
(* writes that column.  The documents here differ in their contents.       *)
FindDocsByHash(db, d) == {e \in {d} : db[e].inserted}

(* SELECT ... WHERE appName = ? AND proofStatus = status, before LIMIT cuts *)
(* it to count, for the one application there is.  A null appName matches  *)
(* nothing, so only inserted rows are found.                               *)
FindDocs(db, status) == {d \in Docs : db[d].inserted /\ db[d].proofStatus = status}
=============================================================================
