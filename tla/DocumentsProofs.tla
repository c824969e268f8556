-------------------------- MODULE DocumentsProofs --------------------------
(***************************************************************************)
(* Facts about the statements on the table and about what the cache reads  *)
(* again, for the proofs about the modules that use them.                  *)
(***************************************************************************)
EXTENDS Documents, Moves

(* What lies behind an offset. *)
LEMMA FromTyped ==
  ASSUME NEW docs \in Seq(Docs), NEW n \in 0 .. Len(docs)
  PROVE  From(docs, n) \in Seq(Docs) /\ Range(From(docs, n)) \subseteq Range(docs)
BY RangeSplit DEF From

(* A rebalance of a topic: behind what has been read ahead, what was left  *)
(* of the topic is replaced by what lies behind the committed offset, and  *)
(* the documents in back, which had gone, come again.                      *)
Rereads(docs, log, new, back) ==
  \E ahead \in 0 .. Len(docs), offset \in 0 .. Len(log) :
    /\ Range(From(docs, ahead)) \subseteq Range(From(log, offset))
    /\ new = SubSeq(docs, 1, ahead) \o From(log, offset)
    /\ back = Range(From(log, offset)) \ Range(From(docs, ahead))

(* Nothing is lost by that, and once the documents that came again are     *)
(* excepted, nothing is there twice.                                       *)
LEMMA Reread ==
  ASSUME NEW docs \in Seq(Docs), NEW log \in Seq(Docs), NEW new, NEW back,
         Rereads(docs, log, new, back)
  PROVE  /\ new \in Seq(Docs)
         /\ back \subseteq Range(log)
         /\ Range(new) = Range(docs) \cup back
         /\ \A X : Single(docs, X) /\ Single(log, {}) => Single(new, X \cup back)
<1>1. PICK ahead \in 0 .. Len(docs), offset \in 0 .. Len(log) :
        /\ Range(From(docs, ahead)) \subseteq Range(From(log, offset))
        /\ new = SubSeq(docs, 1, ahead) \o From(log, offset)
        /\ back = Range(From(log, offset)) \ Range(From(docs, ahead))
  BY DEF Rereads
<1> DEFINE read == From(log, offset)
           kept == SubSeq(docs, 1, ahead)
           left == From(docs, ahead)
<1>2. /\ kept \in Seq(Docs) /\ read \in Seq(Docs)
      /\ Range(docs) = Range(kept) \cup Range(left)
      /\ Range(read) \subseteq Range(log)
  BY RangeSplit DEF From
<1>3. ASSUME NEW X, Single(docs, X), Single(log, {})
      PROVE  /\ Single(kept, X) /\ Range(kept) \cap Range(left) \subseteq X
             /\ Single(read, {})
  BY <1>3, SingleSplit DEF From
<1>4. /\ Range(left) \subseteq Range(read) /\ new = kept \o read
      /\ back = Range(read) \ Range(left)
  BY <1>1
<1> HIDE DEF read, kept, left
<1>5. Range(kept \o read) = Range(kept) \cup Range(read)
  <2>1. kept \in Seq(Docs) /\ read \in Seq(Docs)
    BY <1>2
  <2> QED
    BY <2>1, RangeConcatenation, Zenon
<1>6. ASSUME NEW X, Single(docs, X), Single(log, {})
      PROVE  Single(new, X \cup back)
  <2>1. /\ Single(kept, X \cup back) /\ Single(read, X \cup back)
        /\ Range(kept) \cap Range(read) \subseteq X \cup back
    BY <1>3, <1>4, <1>6 DEF Single
  <2>2. Single(kept \o read, X \cup back)
    BY <1>2, <2>1, SingleConcatenation
  <2> QED
    BY <1>4, <2>2
<1>7. new \in Seq(Docs)
  BY <1>2, <1>4
<1>8. Range(new) = Range(docs) \cup back /\ back \subseteq Range(log)
  BY <1>2, <1>4, <1>5
<1> QED
  BY <1>6, <1>7, <1>8

(* A restart: every topic is read again from some offset. *)
RereadsAll(log, new) ==
  \E offset : /\ new = [t \in DOMAIN log |-> From(log[t], offset[t])]
              /\ \A t \in DOMAIN log : offset[t] \in 0 .. Len(log[t])

(* That gives documents of the topics only, and none twice. *)
LEMMA RereadAll ==
  ASSUME NEW T, NEW log \in [T -> Seq(Docs)], NEW new, RereadsAll(log, new)
  PROVE  /\ new \in [T -> Seq(Docs)]
         /\ \A t \in T : Range(new[t]) \subseteq Range(log[t])
         /\ Apart(log, {}) => Apart(new, {})
<1>1. PICK offset : /\ new = [t \in T |-> From(log[t], offset[t])]
                    /\ \A t \in T : offset[t] \in 0 .. Len(log[t])
  BY DEF RereadsAll
<1>2. ASSUME NEW t \in T
      PROVE  /\ new[t] \in Seq(Docs) /\ Range(new[t]) \subseteq Range(log[t])
             /\ Single(log[t], {}) => Single(new[t], {})
  BY <1>1, RangeSplit, SingleSplit DEF From
<1>3. new \in [T -> Seq(Docs)]
  BY <1>1, <1>2
<1>4. ASSUME Apart(log, {}) PROVE Apart(new, {})
  <2>1. /\ \A t \in T : Single(log[t], {})
        /\ \A t, u \in T : t # u => Range(log[t]) \cap Range(log[u]) \subseteq {}
    BY <1>4, ApartParts
  <2>2. /\ \A t \in T : Single(new[t], {})
        /\ \A t, u \in T : t # u => Range(new[t]) \cap Range(new[u]) \subseteq {}
    BY <1>2, <2>1
  <2>3. DOMAIN new = T
    BY <1>1
  <2> QED
    BY <2>2, <2>3, ApartJoin
<1> QED
  BY <1>2, <1>3, <1>4

(* The INSERT marks exactly the documents of the batch. *)
LEMMA PutDocsIntoDBInserts ==
  ASSUME NEW db \in [Docs -> Rows], NEW docs \in Seq(Docs)
  PROVE  /\ PutDocsIntoDB(db, docs) \in [Docs -> Rows]
         /\ \A d \in Docs : PutDocsIntoDB(db, docs)[d].inserted
                              <=> d \in Range(docs) \/ db[d].inserted
BY DEF PutDocsIntoDB, Rows, NOT_PROOFED
=============================================================================
