--------------------------- MODULE PersistProofs ---------------------------
(***************************************************************************)
(* Proofs about Persist, for every number of topics, permits, goroutines   *)
(* and documents and every channel capacity and batch size.                *)
(***************************************************************************)
EXTENDS Persist, DocumentsProofs

(* The documents of a typed family of sequences are documents. *)
LEMMA HeldTyped ==
  ASSUME NEW I, NEW f \in [I -> Seq(Docs)]
  PROVE  Held(f) \subseteq Docs
BY RangeOfSeq DEF Held

(* After a restart the cache holds nothing that it never held before, and  *)
(* nothing twice.                                                          *)
LEMMA RestartRereads ==
  ASSUME topic \in [Topics -> Seq(Docs)], Restart
  PROVE  /\ cached' \in [Topics -> Seq(Docs)]
         /\ Held(cached') \subseteq submitted
         /\ Held(cached') \subseteq Docs
         /\ Apart(topic, {}) => Apart(cached', {})
<1>1. RereadsAll(topic, cached')
  <2>1. PICK offset \in [Topics -> UNION {0 .. Len(topic[t]) : t \in Topics}] :
          /\ \A t \in Topics : offset[t] <= Len(topic[t])
          /\ cached' = [t \in Topics |-> From(topic[t], offset[t])]
    BY DEF Restart
  <2>2. \A t \in Topics : offset[t] \in 0 .. Len(topic[t])
    BY <2>1
  <2> QED
    BY <2>1, <2>2 DEF RereadsAll
<1>2. /\ cached' \in [Topics -> Seq(Docs)]
      /\ \A t \in Topics : Range(cached'[t]) \subseteq Range(topic[t])
      /\ Apart(topic, {}) => Apart(cached', {})
  BY <1>1, RereadAll
<1>3. Held(cached') \subseteq submitted
  BY <1>2 DEF Held, submitted
<1>4. Held(cached') \subseteq Docs
  BY <1>2, HeldTyped
<1> QED
  BY <1>2, <1>3, <1>4

(* The state has its types, docsChan its capacity and the queue at most    *)
(* persist.queueSize documents, in every reachable state.                  *)
THEOREM TypeCorrect == Spec => []TypeOK
<1>1. Init => TypeOK
  BY PersistAssumption
     DEF Init, TypeOK, BatchMax, EmptyTable, NullRow, Rows, Digests, NoDigest,
         NoTx, NOT_SPECIFIAL
<1>2. TypeOK /\ [Next]_vars => TypeOK'
  <2> SUFFICES ASSUME TypeOK, [Next]_vars PROVE TypeOK'
    OBVIOUS
  <2> USE PersistAssumption
  <2>1. ASSUME NEW d \in Docs, NEW t \in Topics, Submit(d, t) PROVE TypeOK'
    BY <2>1 DEF Submit, TypeOK, BatchMax
  <2>2. CASE CacheCheckTick
    BY <2>2 DEF CacheCheckTick, TypeOK, BatchMax, moving, delivery
  <2>3. ASSUME NEW w \in Workers, AcquireFetch(w) PROVE TypeOK'
    BY <2>3 DEF AcquireFetch, TypeOK, BatchMax, delivery
  <2>4. CASE Receive
    BY <2>4 DEF Receive, TypeOK, BatchMax, delivery
  <2>5. CASE QueueTimeout
    BY <2>5 DEF QueueTimeout, TypeOK, BatchMax, moving, delivery
  <2>6. ASSUME NEW w \in Workers, PutDocumentsIntoDB(w) PROVE TypeOK'
    BY <2>6 DEF PutDocumentsIntoDB, TypeOK, BatchMax, delivery
  <2>7. ASSUME NEW w \in Workers, GetDocumentsFromCache(w) PROVE TypeOK'
    BY <2>7 DEF GetDocumentsFromCache, TypeOK, BatchMax, delivery
  <2>8. ASSUME NEW w \in Workers, BatchStored(w) PROVE TypeOK'
    <3>1. db \in [Docs -> Rows] /\ putting[w] \in Seq(Docs)
            /\ db' = PutDocsIntoDB(db, putting[w])
      BY <2>8 DEF BatchStored, TypeOK
    <3>2. db' \in [Docs -> Rows]
      BY <3>1, PutDocsIntoDBInserts, Zenon
    <3> QED
      BY <2>8, <3>2 DEF BatchStored, TypeOK, BatchMax, delivery
  <2>9. ASSUME NEW w \in Workers, BatchRefused(w) PROVE TypeOK'
    <3>1. Range(putting[w]) \subseteq Docs
      BY RangeOfSeq DEF TypeOK
    <3> QED
      BY <2>9, <3>1 DEF BatchRefused, TypeOK, BatchMax, delivery
  <2>10. ASSUME NEW t \in Topics, NEW p \in Pulls, Get(t, p) PROVE TypeOK'
    <3> DEFINE n == IF Len(cached[t]) < Limit[t] THEN Len(cached[t]) ELSE Limit[t]
    <3>1. cached[t] \in Seq(Docs) /\ n \in 0 .. Len(cached[t])
      BY DEF TypeOK
    <3>2. SubSeq(cached[t], 1, n) \in Seq(Docs)
            /\ SubSeq(cached[t], n + 1, Len(cached[t])) \in Seq(Docs)
      BY <3>1, RangeSplit
    <3>3. cached' \in [Topics -> Seq(Docs)] /\ hand' \in [Pulls -> Seq(Docs)]
      BY <2>10, <3>2 DEF Get, From, TypeOK
    <3>4. fetching' \in [Topics -> Nat]
      BY <2>10 DEF Get, TypeOK
    <3>5. UNCHANGED <<docsChan, docQueue, fetchers, putting, pc, closer, db,
                      topic, breaks, refetched, givenUp>>
      BY <2>10 DEF Get, delivery
    <3> QED
      BY <3>3, <3>4, <3>5 DEF TypeOK, BatchMax
  <2>11. ASSUME NEW p \in Pulls, Send(p) PROVE TypeOK'
    BY <2>11 DEF Send, TypeOK, BatchMax, delivery
  <2>12. CASE Close
    BY <2>12 DEF Close, Signal, CloseSeesChan, CloseSeesQueue, CloseSession,
                 TypeOK, BatchMax, moving, delivery
  <2>13. ASSUME NEW t \in Topics, Rebalance(t) PROVE TypeOK'
    <3>1. PICK new, back : /\ Rereads(cached[t], topic[t], new, back)
                           /\ cached' = [cached EXCEPT ![t] = new]
                           /\ refetched' = refetched \cup back
      BY <2>13 DEF Rebalance, Rereads
    <3>2. cached[t] \in Seq(Docs) /\ topic[t] \in Seq(Docs)
      BY DEF TypeOK
    <3>3. new \in Seq(Docs) /\ back \subseteq Docs
      BY <3>1, <3>2, Reread, RangeOfSeq
    <3>4. cached' \in [Topics -> Seq(Docs)] /\ refetched' \subseteq Docs
      BY <3>1, <3>3 DEF TypeOK
    <3> QED
      BY <2>13, <3>4 DEF Rebalance, TypeOK, BatchMax
  <2>14. CASE Restart
    <3>1. /\ cached' \in [Topics -> Seq(Docs)]
          /\ Held(cached') \subseteq Docs
      BY <2>14, RestartRereads DEF TypeOK
    <3>2. InFlight \subseteq Docs
      BY HeldTyped, RangeOfSeq DEF InFlight, TypeOK
    <3>3. refetched' \subseteq Docs /\ givenUp' \subseteq Docs
      BY <2>14, <3>1, <3>2 DEF Restart, TypeOK
    <3> QED
      BY <2>14, <3>1, <3>3 DEF Restart, TypeOK, BatchMax
  <2>15. CASE UNCHANGED vars
    BY <2>15 DEF vars, TypeOK, BatchMax, moving, delivery
  <2> QED
    BY <2>1, <2>2, <2>3, <2>4, <2>5, <2>6, <2>7, <2>8, <2>9, <2>10, <2>11,
       <2>12, <2>13, <2>14, <2>15 DEF Next, PersistNext, MainLoop, Goroutines
<1> QED
  BY <1>1, <1>2, PTL DEF Spec

(* From f to g, the sequence at i gains the documents X and the others     *)
(* stay as they are.                                                       *)
Gains(f, g, i, X) ==
  /\ DOMAIN g = DOMAIN f /\ i \in DOMAIN f
  /\ \A j \in DOMAIN f : j # i => g[j] = f[j]
  /\ Range(g[i]) = Range(f[i]) \cup X

(* What one sequence gains the family gains (and what it loses, with f and *)
(* g exchanged).                                                           *)
LEMMA HeldGains ==
  ASSUME NEW f, NEW g, NEW i, NEW X, Gains(f, g, i, X)
  PROVE  Held(g) = Held(f) \cup X
<1>1. \A x : x \in Held(g) => x \in Held(f) \/ x \in X
  BY DEF Held, Gains
<1>2. \A x : x \in Held(f) \/ x \in X => x \in Held(g)
  BY DEF Held, Gains
<1> QED
  BY <1>1, <1>2

-----------------------------------------------------------------------------
(* What each operation does to the documents between the cache and the     *)
(* table, as a set.                                                        *)

(* A submission adds its document. *)
LEMMA SubmitAdds ==
  ASSUME TypeOK, NEW d \in Docs, NEW t \in Topics, Submit(d, t)
  PROVE  /\ InFlight' = InFlight \cup {d}
         /\ submitted' = submitted \cup {d}
         /\ UNCHANGED <<Stored, givenUp, refetched>>
<1>1. Range(Append(cached[t], d)) = Range(cached[t]) \cup {d}
  BY RangeAppend DEF TypeOK
<1>2. Gains(cached, cached', t, {d})
  BY <1>1 DEF Submit, TypeOK, Gains
<1>3. Held(cached') = Held(cached) \cup {d}
  BY <1>2, HeldGains
<1>4. Range(Append(topic[t], d)) = Range(topic[t]) \cup {d}
  BY RangeAppend DEF TypeOK
<1>5. Gains(topic, topic', t, {d})
  BY <1>4 DEF Submit, TypeOK, Gains
<1>6. Held(topic') = Held(topic) \cup {d}
  BY <1>5, HeldGains
<1> QED
  BY <1>3, <1>6 DEF Submit, InFlight, Stored, submitted

(* Get, Send, Receive and PutDocumentsIntoDB move documents from one place *)
(* to another.                                                             *)
Move == \/ \E t \in Topics, p \in Pulls : Get(t, p)
        \/ \E p \in Pulls : Send(p)
        \/ Receive
        \/ \E w \in Workers : PutDocumentsIntoDB(w)

(* A move changes nothing about which documents are on their way. *)
LEMMA MoveKeeps ==
  ASSUME TypeOK, Move
  PROVE  InFlight' = InFlight /\ UNCHANGED <<submitted, Stored, givenUp, refetched>>
<1>1. ASSUME NEW t \in Topics, NEW p \in Pulls, Get(t, p) PROVE InFlight' = InFlight
  <2> DEFINE n == IF Len(cached[t]) < Limit[t] THEN Len(cached[t]) ELSE Limit[t]
             got == SubSeq(cached[t], 1, n)
             left == SubSeq(cached[t], n + 1, Len(cached[t]))
  <2>1. cached[t] \in Seq(Docs) /\ n \in 0 .. Len(cached[t])
    BY PersistAssumption DEF TypeOK
  <2>2. Range(cached[t]) = Range(got) \cup Range(left)
    BY <2>1, RangeSplit
  <2>3. /\ cached' = [cached EXCEPT ![t] = left]
        /\ hand[p] = << >> /\ hand' = [hand EXCEPT ![p] = got]
        /\ UNCHANGED <<docsChan, docQueue, putting>>
    BY <1>1 DEF Get, From
  <2> HIDE DEF got, left, n
  <2>4. Gains(cached', cached, t, Range(got))
    BY <2>2, <2>3 DEF TypeOK, Gains
  <2>5. Gains(hand, hand', p, Range(got))
    BY <2>3, RangeEmpty DEF TypeOK, Gains
  <2>6. Held(cached) = Held(cached') \cup Range(got)
    BY <2>4, HeldGains
  <2>7. Held(hand') = Held(hand) \cup Range(got)
    BY <2>5, HeldGains
  <2> QED
    BY <2>3, <2>6, <2>7 DEF InFlight
<1>2. ASSUME NEW p \in Pulls, Send(p) PROVE InFlight' = InFlight
  <2>1. Range(hand[p]) = {Head(hand[p])} \cup Range(Tail(hand[p]))
          /\ Head(hand[p]) \in Docs
    BY <1>2, RangeHeadTail DEF Send, TypeOK
  <2>2. Range(docsChan') = Range(docsChan) \cup {Head(hand[p])}
    BY <1>2, <2>1, RangeAppend DEF Send, TypeOK
  <2>3. Gains(hand', hand, p, {Head(hand[p])})
    BY <1>2, <2>1 DEF Send, TypeOK, Gains
  <2>4. Held(hand) = Held(hand') \cup {Head(hand[p])}
    BY <2>3, HeldGains
  <2> QED
    BY <1>2, <2>2, <2>4 DEF Send, InFlight
<1>3. ASSUME Receive PROVE InFlight' = InFlight
  <2>1. Range(docsChan) = {Head(docsChan)} \cup Range(Tail(docsChan))
          /\ Head(docsChan) \in Docs
    BY <1>3, RangeHeadTail DEF Receive, TypeOK
  <2>2. Range(docQueue') = Range(docQueue) \cup {Head(docsChan)}
    BY <1>3, <2>1, RangeAppend DEF Receive, TypeOK
  <2> QED
    BY <1>3, <2>1, <2>2 DEF Receive, InFlight
<1>4. ASSUME NEW w \in Workers, PutDocumentsIntoDB(w) PROVE InFlight' = InFlight
  <2>1. Gains(putting, putting', w, Range(docQueue)) /\ Range(docQueue') = {}
    BY <1>4, RangeEmpty DEF PutDocumentsIntoDB, Free, TypeOK, Gains
  <2>2. Held(putting') = Held(putting) \cup Range(docQueue)
    BY <2>1, HeldGains
  <2> QED
    BY <1>4, <2>1, <2>2 DEF PutDocumentsIntoDB, InFlight
<1>5. UNCHANGED <<db, topic, givenUp, refetched>>
  BY DEF Move, Get, Send, Receive, PutDocumentsIntoDB, delivery
<1> QED
  BY <1>1, <1>2, <1>3, <1>4, <1>5 DEF Move, Stored, submitted

(* A batch leaves, into the table or not at all. *)
LEMMA BatchLeaves ==
  ASSUME TypeOK, NEW w \in Workers, BatchStored(w) \/ BatchRefused(w)
  PROVE  /\ InFlight = InFlight' \cup Range(putting[w])
         /\ BatchStored(w) => Stored' = Stored \cup Range(putting[w]) /\ UNCHANGED givenUp
         /\ BatchRefused(w) => givenUp' = givenUp \cup Range(putting[w]) /\ UNCHANGED Stored
         /\ UNCHANGED <<submitted, refetched>>
<1>1. /\ putting' = [putting EXCEPT ![w] = << >>]
      /\ UNCHANGED <<cached, hand, docsChan, docQueue, topic, refetched>>
  BY DEF BatchStored, BatchRefused, delivery
<1>2. Gains(putting', putting, w, Range(putting[w]))
  BY <1>1, RangeEmpty DEF TypeOK, Gains
<1>3. Held(putting) = Held(putting') \cup Range(putting[w])
  BY <1>2, HeldGains
<1>4. InFlight = InFlight' \cup Range(putting[w])
  BY <1>1, <1>3 DEF InFlight
<1>5. ASSUME BatchStored(w)
      PROVE  Stored' = Stored \cup Range(putting[w]) /\ UNCHANGED givenUp
  <2>1. putting[w] \in Seq(Docs) /\ db \in [Docs -> Rows]
    BY DEF TypeOK
  <2> QED
    BY <1>5, <2>1, PutDocsIntoDBInserts, RangeOfSeq DEF BatchStored, Stored
<1>6. BatchRefused(w) => givenUp' = givenUp \cup Range(putting[w]) /\ UNCHANGED Stored
  BY DEF BatchRefused, Stored
<1> QED
  BY <1>1, <1>4, <1>5, <1>6 DEF submitted

(* A rebalance brings documents back. *)
LEMMA RebalanceRereads ==
  ASSUME TypeOK, NEW t \in Topics, Rebalance(t)
  PROVE  \E new, back : /\ Rereads(cached[t], topic[t], new, back)
                        /\ cached' = [cached EXCEPT ![t] = new]
                        /\ refetched' = refetched \cup back
BY DEF Rebalance, Rereads

(* What a rebalance brings back was submitted, and is noted. *)
LEMMA RebalanceAdds ==
  ASSUME TypeOK, NEW t \in Topics, Rebalance(t)
  PROVE  /\ \E back \in SUBSET submitted : /\ InFlight' = InFlight \cup back
                                           /\ refetched' = refetched \cup back
         /\ UNCHANGED <<submitted, Stored, givenUp>>
<1>1. PICK new, back : /\ Rereads(cached[t], topic[t], new, back)
                       /\ cached' = [cached EXCEPT ![t] = new]
                       /\ refetched' = refetched \cup back
  BY RebalanceRereads
<1>2. cached[t] \in Seq(Docs) /\ topic[t] \in Seq(Docs)
  BY DEF TypeOK
<1>3. back \subseteq Range(topic[t]) /\ Range(new) = Range(cached[t]) \cup back
  BY <1>1, <1>2, Reread
<1>4. UNCHANGED <<hand, docsChan, docQueue, putting, db, topic, givenUp>>
  BY DEF Rebalance
<1>5. Gains(cached, cached', t, back)
  BY <1>1, <1>3 DEF TypeOK, Gains
<1>6. Held(cached') = Held(cached) \cup back
  BY <1>5, HeldGains
<1>7. back \subseteq submitted
  BY <1>3 DEF Held, submitted, TypeOK
<1>8. InFlight' = InFlight \cup back
  BY <1>4, <1>6 DEF InFlight
<1> QED
  BY <1>1, <1>4, <1>7, <1>8 DEF submitted, Stored

(* A restart leaves what the cache reads again. *)
LEMMA RestartLeaves ==
  ASSUME TypeOK, Restart
  PROVE  /\ InFlight' = Held(cached') /\ InFlight' \subseteq submitted
         /\ refetched' = refetched \cup (InFlight' \ Held(cached))
         /\ givenUp' = givenUp \cup (InFlight \ InFlight')
         /\ UNCHANGED <<submitted, Stored>>
<1>1. Held(cached') \subseteq submitted
  BY RestartRereads DEF TypeOK
<1>2. Held(hand') = {} /\ Held(putting') = {}
  BY RangeEmpty DEF Restart, Held
<1>3. Range(docsChan') = {} /\ Range(docQueue') = {}
  BY RangeEmpty DEF Restart
<1>4. InFlight' = Held(cached')
  BY <1>2, <1>3 DEF InFlight
<1> QED
  BY <1>1, <1>4 DEF Restart, Stored, submitted

(* Every other step leaves the documents where they are. *)
Rest == \/ CacheCheckTick \/ QueueTimeout \/ Close \/ UNCHANGED vars
        \/ \E w \in Workers : AcquireFetch(w) \/ GetDocumentsFromCache(w)

(* The remaining steps leave the documents where they are. *)
LEMMA RestKeeps ==
  ASSUME Rest
  PROVE  UNCHANGED <<cached, hand, docsChan, docQueue, putting, db, topic,
                     refetched, givenUp>>
BY DEF Rest, CacheCheckTick, QueueTimeout, AcquireFetch, GetDocumentsFromCache,
       Close, Signal, CloseSeesChan, CloseSeesQueue, CloseSession, vars, moving,
       delivery

(* These are all the steps of the service. *)
LEMMA Steps ==
  ASSUME [Next]_vars
  PROVE  \/ \E d \in Docs, t \in Topics : Submit(d, t)
         \/ Move
         \/ \E w \in Workers : BatchStored(w) \/ BatchRefused(w)
         \/ \E t \in Topics : Rebalance(t)
         \/ Restart
         \/ Rest
BY DEF Next, PersistNext, MainLoop, Goroutines, Move, Rest

-----------------------------------------------------------------------------
(* No document that the cache handed over is lost on its way: in every     *)
(* reachable state it is in one of the hands of continuePersist, in the    *)
(* table, in a batch the database refused, or was dropped by a restart.    *)
(* With TypeOK the statement is inductive: each step takes a document out  *)
(* of one place and puts it into another that was empty or that keeps what *)
(* it has, and a rebalance or a restart brings back only what the cache    *)
(* has held.                                                               *)
THEOREM NothingIsLost == Spec => []NothingLost
<1> USE DEF NothingLost
<1>1. Init => NothingLost
  BY RangeEmpty DEF Init, InFlight, Held, Stored, submitted, EmptyTable,
                    NullRow
<1>2. TypeOK /\ NothingLost /\ [Next]_vars => NothingLost'
  <2> SUFFICES ASSUME TypeOK, NothingLost, [Next]_vars PROVE NothingLost'
    OBVIOUS
  <2>1. ASSUME NEW d \in Docs, NEW t \in Topics, Submit(d, t) PROVE NothingLost'
    BY <2>1, SubmitAdds
  <2>2. CASE Move
    BY <2>2, MoveKeeps
  <2>3. ASSUME NEW w \in Workers, BatchStored(w) \/ BatchRefused(w)
        PROVE  NothingLost'
    BY <2>3, BatchLeaves
  <2>4. ASSUME NEW t \in Topics, Rebalance(t) PROVE NothingLost'
    BY <2>4, RebalanceAdds
  <2>5. CASE Restart
    BY <2>5, RestartLeaves
  <2>6. CASE Rest
    BY <2>6, RestKeeps DEF InFlight, Stored, submitted
  <2> QED
    BY <2>1, <2>2, <2>3, <2>4, <2>5, <2>6, Steps
<1> QED
  BY <1>1, <1>2, TypeCorrect, PTL DEF Spec

-----------------------------------------------------------------------------
(* The sequences between the cache and the table, by place.  OneCopy is    *)
(* about them together; it needs that the topics themselves hold every     *)
(* document once, since a rebalance or a restart reads them again.         *)
Spread == [p \in Places |-> At(p)]

TopicsApart == Apart(topic, {})

CopyInv == TopicsApart /\ OneCopy

(* Every place is a topic of the cache, a hand of continuePersist, a batch, *)
(* docsChan or the queue.                                                  *)
LEMMA Everywhere ==
  \A q \in Places : \/ \E t \in Topics : q = <<"cache", t>>
                    \/ \E p \in Pulls : q = <<"hand", p>>
                    \/ \E w \in Workers : q = <<"put", w>>
                    \/ q = <<"chan", 0>>
                    \/ q = <<"queue", 0>>
BY DEF Places

(* The places one by one. *)
LEMMA PlaceAt ==
  /\ \A t \in Topics  : <<"cache", t>> \in Places /\ Spread[<<"cache", t>>] = cached[t]
  /\ \A p \in Pulls   : <<"hand", p>> \in Places /\ Spread[<<"hand", p>>] = hand[p]
  /\ \A w \in Workers : <<"put", w>> \in Places /\ Spread[<<"put", w>>] = putting[w]
  /\ <<"chan", 0>> \in Places /\ Spread[<<"chan", 0>>] = docsChan
  /\ <<"queue", 0>> \in Places /\ Spread[<<"queue", 0>>] = docQueue
  /\ DOMAIN Spread = Places
BY DEF Places, At, Spread

(* The same after a step. *)
LEMMA PlaceAtNext ==
  /\ \A t \in Topics  : Spread'[<<"cache", t>>] = cached'[t]
  /\ \A p \in Pulls   : Spread'[<<"hand", p>>] = hand'[p]
  /\ \A w \in Workers : Spread'[<<"put", w>>] = putting'[w]
  /\ Spread'[<<"chan", 0>>] = docsChan'
  /\ Spread'[<<"queue", 0>>] = docQueue'
  /\ DOMAIN Spread' = Places
BY DEF Places, At, Spread

(* InFlight is what is in some place. *)
LEMMA InFlightIsSpread == TypeOK => InFlight = Held(Spread)
<1> SUFFICES ASSUME TypeOK PROVE InFlight = Held(Spread)
  OBVIOUS
<1>1. ASSUME NEW x \in InFlight PROVE x \in Held(Spread)
  BY PlaceAt DEF InFlight, Held, TypeOK
<1>2. ASSUME NEW x \in Held(Spread) PROVE x \in InFlight
  <2>1. PICK q \in Places : x \in Range(Spread[q])
    BY PlaceAt DEF Held
  <2>2. ASSUME NEW t \in Topics, q = <<"cache", t>> PROVE x \in InFlight
    BY <2>1, <2>2, PlaceAt DEF InFlight, Held, TypeOK
  <2>3. ASSUME NEW p \in Pulls, q = <<"hand", p>> PROVE x \in InFlight
    BY <2>1, <2>3, PlaceAt DEF InFlight, Held, TypeOK
  <2>4. ASSUME NEW w \in Workers, q = <<"put", w>> PROVE x \in InFlight
    BY <2>1, <2>4, PlaceAt DEF InFlight, Held, TypeOK
  <2>5. CASE q \in {<<"chan", 0>>, <<"queue", 0>>}
    BY <2>1, <2>5, PlaceAt DEF InFlight
  <2> QED
    BY <2>2, <2>3, <2>4, <2>5, Everywhere
<1> QED
  BY <1>1, <1>2

(* OneCopy in the terms of the lemmas about moves. *)
LEMMA OneCopyApart ==
  OneCopy <=> /\ Apart(Spread, refetched)
              /\ InFlight \cap (Stored \cup givenUp) \subseteq refetched
BY DEF OneCopy, Apart, Spread

(* The same after a step. *)
LEMMA OneCopyApartNext ==
  OneCopy' <=> /\ Apart(Spread', refetched')
               /\ InFlight' \cap (Stored' \cup givenUp') \subseteq refetched'
BY DEF OneCopy, Apart, Spread

(* Places whose variable is unchanged hold what they held. *)
LEMMA Unmoved ==
  ASSUME NEW q \in Places,
         \A t \in Topics : q = <<"cache", t>> => cached'[t] = cached[t],
         \A p \in Pulls : q = <<"hand", p>> => hand'[p] = hand[p],
         \A w \in Workers : q = <<"put", w>> => putting'[w] = putting[w],
         q = <<"chan", 0>> => docsChan' = docsChan,
         q = <<"queue", 0>> => docQueue' = docQueue
  PROVE  Spread'[q] = Spread[q]
<1>1. ASSUME NEW t \in Topics, q = <<"cache", t>> PROVE Spread'[q] = Spread[q]
  BY <1>1, PlaceAt, PlaceAtNext
<1>2. ASSUME NEW p \in Pulls, q = <<"hand", p>> PROVE Spread'[q] = Spread[q]
  BY <1>2, PlaceAt, PlaceAtNext
<1>3. ASSUME NEW w \in Workers, q = <<"put", w>> PROVE Spread'[q] = Spread[q]
  BY <1>3, PlaceAt, PlaceAtNext
<1>4. CASE q \in {<<"chan", 0>>, <<"queue", 0>>}
  BY <1>4, PlaceAt, PlaceAtNext
<1> QED
  BY <1>1, <1>2, <1>3, <1>4, Everywhere

(* A move passes documents from one place to another. *)
LEMMA MoveApart ==
  ASSUME TypeOK, Move, Apart(Spread, refetched)
  PROVE  Apart(Spread', refetched)
<1>1. ASSUME NEW t \in Topics, NEW p \in Pulls, Get(t, p)
      PROVE  Apart(Spread', refetched)
  <2> DEFINE n == IF Len(cached[t]) < Limit[t] THEN Len(cached[t]) ELSE Limit[t]
             a == <<"cache", t>>
             b == <<"hand", p>>
  <2>1. cached[t] \in Seq(Docs) /\ n \in 0 .. Len(cached[t])
    BY PersistAssumption DEF TypeOK
  <2>2. a # b /\ Spread[a] = cached[t]
    BY PlaceAt
  <2>3. /\ cached' = [cached EXCEPT ![t] = SubSeq(cached[t], n + 1, Len(cached[t]))]
        /\ hand' = [hand EXCEPT ![p] = SubSeq(cached[t], 1, n)]
        /\ UNCHANGED <<docsChan, docQueue, putting>>
    BY <1>1 DEF Get, From
  <2> HIDE DEF n
  <2>4. /\ Spread'[a] = SubSeq(cached[t], n + 1, Len(cached[t]))
        /\ Spread'[b] = SubSeq(cached[t], 1, n)
    BY <2>3, PlaceAtNext DEF TypeOK
  <2>5. Elsewhere(Spread, Spread', a, b)
    BY <2>3, Unmoved, PlaceAt, PlaceAtNext DEF Elsewhere, TypeOK
  <2> QED
    BY <2>1, <2>2, <2>4, <2>5, ApartTake
<1>2. ASSUME NEW p \in Pulls, Send(p) PROVE Apart(Spread', refetched)
  <2> DEFINE a == <<"hand", p>>
             b == <<"chan", 0>>
  <2>1. a # b /\ Spread[a] = hand[p] /\ Spread[b] = docsChan
    BY PlaceAt
  <2>2. /\ hand[p] \in Seq(Docs) /\ hand[p] # << >> /\ docsChan \in Seq(Docs)
        /\ hand' = [hand EXCEPT ![p] = Tail(hand[p])]
        /\ docsChan' = Append(docsChan, Head(hand[p]))
        /\ UNCHANGED <<cached, docQueue, putting>>
    BY <1>2 DEF Send, TypeOK
  <2>3. Spread'[a] = Tail(hand[p]) /\ Spread'[b] = docsChan'
    BY <2>2, PlaceAtNext DEF TypeOK
  <2>4. Elsewhere(Spread, Spread', a, b)
    BY <2>2, Unmoved, PlaceAt, PlaceAtNext DEF Elsewhere, TypeOK
  <2> QED
    BY <2>1, <2>2, <2>3, <2>4, ApartForward
<1>3. ASSUME Receive PROVE Apart(Spread', refetched)
  <2> DEFINE a == <<"chan", 0>>
             b == <<"queue", 0>>
  <2>1. a # b /\ Spread[a] = docsChan /\ Spread[b] = docQueue
    BY PlaceAt
  <2>2. /\ docsChan \in Seq(Docs) /\ docsChan # << >> /\ docQueue \in Seq(Docs)
        /\ docsChan' = Tail(docsChan)
        /\ docQueue' = Append(docQueue, Head(docsChan))
        /\ UNCHANGED <<cached, hand, putting>>
    BY <1>3 DEF Receive, TypeOK
  <2>3. Spread'[a] = Tail(docsChan) /\ Spread'[b] = docQueue'
    BY <2>2, PlaceAtNext
  <2>4. Elsewhere(Spread, Spread', a, b)
    BY <2>2, Unmoved, PlaceAt, PlaceAtNext DEF Elsewhere
  <2> QED
    BY <2>1, <2>2, <2>3, <2>4, ApartForward
<1>4. ASSUME NEW w \in Workers, PutDocumentsIntoDB(w) PROVE Apart(Spread', refetched)
  <2> DEFINE a == <<"queue", 0>>
             b == <<"put", w>>
  <2>1. a # b /\ a \in DOMAIN Spread /\ Spread[a] = docQueue
    BY PlaceAt
  <2>2. /\ docQueue' = << >>
        /\ putting' = [putting EXCEPT ![w] = docQueue]
        /\ UNCHANGED <<cached, hand, docsChan>>
    BY <1>4 DEF PutDocumentsIntoDB
  <2> HIDE DEF a, b
  <2>3. Single(docQueue, refetched) /\ Single(<< >>, refetched)
    BY <2>1, ApartParts, SingleEmpty
  <2>4. Spread'[a] = << >> /\ Spread'[b] = docQueue
    BY <2>2, PlaceAtNext DEF TypeOK, a, b
  <2>5. Elsewhere(Spread, Spread', a, b)
    BY <2>2, Unmoved, PlaceAt, PlaceAtNext DEF Elsewhere, TypeOK, a, b
  <2> QED
    BY <2>1, <2>3, <2>4, <2>5, ApartPass, RangeEmpty
<1> QED
  BY <1>1, <1>2, <1>3, <1>4 DEF Move

(* The same after a step. *)
LEMMA InFlightIsSpreadNext == (TypeOK => InFlight = Held(Spread))'
BY InFlightIsSpread, PTL

(* A document is never at two places at once and, unless the cache brings  *)
(* it back, in none once its batch was executed or refused.                *)
LEMMA CopyInvInit == Init => CopyInv
<1> SUFFICES ASSUME Init PROVE CopyInv
  OBVIOUS
<1>1. \A q \in Places : Spread[q] = << >>
  BY Everywhere, PlaceAt DEF Init
<1>2. Apart(Spread, refetched) /\ TopicsApart
  BY <1>1, PlaceAt DEF Apart, TopicsApart, Init
<1>3. InFlight = {}
  BY RangeEmpty DEF InFlight, Held, Init
<1> QED
  BY <1>2, <1>3, OneCopyApart DEF CopyInv

(* Every step keeps one copy of each document, except of those that a      *)
(* rebalance or a restart brought back.                                    *)
LEMMA CopyInvNext ==
  TypeOK /\ TypeOK' /\ NothingLost /\ CopyInv /\ [Next]_vars => CopyInv'
<1> SUFFICES ASSUME TypeOK, TypeOK', NothingLost, CopyInv, [Next]_vars PROVE CopyInv'
  OBVIOUS
<1>0. /\ Apart(Spread, refetched) /\ Apart(topic, {})
      /\ InFlight \cap (Stored \cup givenUp) \subseteq refetched
      /\ \A q \in Places : Range(Spread[q]) \subseteq InFlight
      /\ InFlight \subseteq submitted
  BY OneCopyApart, InFlightIsSpread, PlaceAt DEF CopyInv, TopicsApart, Held, NothingLost
<1>1. ASSUME NEW d \in Docs, NEW t \in Topics, Submit(d, t) PROVE CopyInv'
  <2> DEFINE a == <<"cache", t>>
  <2>1. /\ a \in Places /\ Spread[a] = cached[t] /\ DOMAIN Spread = Places
        /\ Spread'[a] = cached'[t]
    BY PlaceAt, PlaceAtNext
  <2>2. /\ cached[t] \in Seq(Docs) /\ topic[t] \in Seq(Docs)
        /\ cached' = [cached EXCEPT ![t] = Append(cached[t], d)]
        /\ topic' = [topic EXCEPT ![t] = Append(topic[t], d)]
        /\ UNCHANGED <<hand, docsChan, docQueue, putting>>
        /\ d \notin submitted
    BY <1>1 DEF Submit, TypeOK
  <2> HIDE DEF a
  <2>3. d \notin InFlight /\ \A r \in Topics : d \notin Range(topic[r])
    BY <1>0, <2>2 DEF submitted, Held, TypeOK
  <2>4. Elsewhere(topic, topic', t, t) /\ topic'[t] = Append(topic[t], d)
    BY <2>2 DEF Elsewhere, TypeOK
  <2>5. DOMAIN topic = Topics
    BY DEF TypeOK
  <2>6. Apart(topic', {})
    BY <1>0, <2>2, <2>3, <2>4, <2>5, ApartSubmit
  <2>7. Elsewhere(Spread, Spread', a, a) /\ Spread'[a] = Append(cached[t], d)
    BY <2>1, <2>2, Unmoved, PlaceAtNext DEF Elsewhere, TypeOK, a
  <2>8. \A r \in DOMAIN Spread : d \notin Range(Spread[r])
    BY <1>0, <2>1, <2>3
  <2>9. Apart(Spread', refetched)
    BY <1>0, <2>1, <2>2, <2>7, <2>8, ApartSubmit
  <2>10. InFlight' \cap (Stored' \cup givenUp') \subseteq refetched' /\ refetched' = refetched
    BY <1>0, <1>1, <2>2, SubmitAdds DEF NothingLost
  <2> QED
    BY <2>6, <2>9, <2>10, OneCopyApartNext DEF CopyInv, TopicsApart
<1>2. CASE Move
  <2>1. UNCHANGED <<topic, refetched>>
    BY <1>2 DEF Move, Get, Send, Receive, PutDocumentsIntoDB, delivery
  <2>2. Apart(Spread', refetched')
    BY <1>0, <1>2, <2>1, MoveApart
  <2> QED
    BY <1>0, <1>2, <2>1, <2>2, MoveKeeps, OneCopyApartNext DEF CopyInv, TopicsApart
<1>3. ASSUME NEW w \in Workers, BatchStored(w) \/ BatchRefused(w) PROVE CopyInv'
  <2> DEFINE a == <<"put", w>>
  <2>1. a \in Places /\ Spread[a] = putting[w] /\ DOMAIN Spread = Places
    BY PlaceAt
  <2>2. /\ putting' = [putting EXCEPT ![w] = << >>]
        /\ UNCHANGED <<cached, hand, docsChan, docQueue, topic, refetched>>
    BY <1>3 DEF BatchStored, BatchRefused, delivery
  <2> HIDE DEF a
  <2>3. Elsewhere(Spread, Spread', a, a) /\ Spread'[a] = << >>
    BY <2>1, <2>2, Unmoved, PlaceAtNext DEF Elsewhere, TypeOK, a
  <2>4. Apart(Spread', refetched)
    BY <1>0, <2>3, ApartReplace, SingleEmpty, RangeEmpty
  <2>5. InFlight' \cap Range(putting[w]) \subseteq refetched
    <3> SUFFICES ASSUME NEW x \in InFlight', x \in Range(putting[w]) PROVE x \in refetched
      OBVIOUS
    <3>1. PICK r \in Places : x \in Range(Spread'[r])
      BY InFlightIsSpreadNext, PlaceAtNext DEF Held
    <3>2. r # a /\ Spread'[r] = Spread[r]
      BY <2>1, <2>3, <3>1, RangeEmpty DEF Elsewhere
    <3>3. Range(Spread[r]) \cap Range(Spread[a]) \subseteq refetched
      BY <1>0, <2>1, <3>2, ApartParts
    <3> QED
      BY <2>1, <3>1, <3>2, <3>3
  <2>6. InFlight' \cap (Stored' \cup givenUp') \subseteq refetched'
    BY <1>0, <1>3, <2>2, <2>5, BatchLeaves
  <2> QED
    BY <1>0, <2>2, <2>4, <2>6, OneCopyApartNext DEF CopyInv, TopicsApart
<1>4. ASSUME NEW t \in Topics, Rebalance(t) PROVE CopyInv'
  <2>1. PICK new, back : /\ Rereads(cached[t], topic[t], new, back)
                         /\ cached' = [cached EXCEPT ![t] = new]
                         /\ refetched' = refetched \cup back
    BY <1>4, RebalanceRereads
  <2> DEFINE a == <<"cache", t>>
  <2>2. a \in Places /\ Spread[a] = cached[t] /\ DOMAIN Spread = Places
    BY PlaceAt
  <2>3. /\ UNCHANGED <<hand, docsChan, docQueue, putting, topic>>
        /\ topic[t] \in Seq(Docs) /\ cached[t] \in Seq(Docs)
    BY <1>4 DEF Rebalance, TypeOK
  <2> HIDE DEF a
  <2>4. Elsewhere(Spread, Spread', a, a) /\ Spread'[a] = new
    BY <2>1, <2>2, <2>3, Unmoved, PlaceAtNext DEF Elsewhere, TypeOK, a
  <2>5. Single(cached[t], refetched) /\ Single(topic[t], {})
    <3>1. t \in DOMAIN topic
      BY DEF TypeOK
    <3>2. Single(topic[t], {})
      BY <1>0, <3>1, ApartParts
    <3> QED
      BY <1>0, <2>2, <3>2, ApartParts
  <2>6. Single(new, refetched') /\ Range(new) = Range(cached[t]) \cup back
    BY <2>1, <2>3, <2>5, Reread
  <2>7. \A r \in DOMAIN Spread :
           r # a => Range(new) \cap Range(Spread[r]) \subseteq refetched'
    <3>1. \A r \in DOMAIN Spread :
            r # a => Range(cached[t]) \cap Range(Spread[r]) \subseteq refetched
      BY <1>0, <2>2, ApartParts
    <3> QED
      BY <2>1, <2>6, <3>1
  <2>8. Apart(Spread, refetched')
    BY <1>0, <2>1, ApartWeaker
  <2>9. Apart(Spread', refetched')
    BY <2>4, <2>6, <2>7, <2>8, ApartReplace
  <2>10. InFlight' \cap (Stored' \cup givenUp') \subseteq refetched'
    BY <1>0, <1>4, RebalanceAdds
  <2> QED
    BY <1>0, <2>3, <2>9, <2>10, OneCopyApartNext DEF CopyInv, TopicsApart
<1>5. CASE Restart
  <2>1. Apart(cached', {}) /\ DOMAIN cached' = Topics
    BY <1>0, <1>5, RestartRereads DEF TypeOK
  <2>2. /\ \A t \in Topics : Single(cached'[t], {})
        /\ \A t, u \in Topics : t # u => Range(cached'[t]) \cap Range(cached'[u]) \subseteq {}
    BY <2>1, ApartParts
  <2>3. ASSUME NEW r \in Places
        PROVE  \/ Spread'[r] = << >>
               \/ \E t \in Topics : r = <<"cache", t>> /\ Spread'[r] = cached'[t]
    <3>1. /\ \A p \in Pulls : Spread'[<<"hand", p>>] = << >>
          /\ \A w \in Workers : Spread'[<<"put", w>>] = << >>
          /\ Spread'[<<"chan", 0>>] = << >> /\ Spread'[<<"queue", 0>>] = << >>
      BY <1>5, PlaceAtNext DEF Restart
    <3> QED
      BY <3>1, Everywhere, PlaceAtNext
  <2>4. ASSUME NEW r \in Places PROVE Single(Spread'[r], {})
    BY <2>2, <2>3, SingleEmpty
  <2>5. ASSUME NEW r \in Places, NEW s \in Places, r # s
        PROVE  Range(Spread'[r]) \cap Range(Spread'[s]) \subseteq {}
    BY <2>2, <2>3, <2>5, RangeEmpty
  <2>6. Apart(Spread', refetched')
    <3>1. Apart(Spread', {})
      BY <2>4, <2>5, PlaceAtNext, ApartJoin
    <3> QED
      BY <3>1, ApartWeaker
  <2>7. InFlight' \cap (Stored' \cup givenUp') \subseteq refetched'
    BY <1>0, <1>5, RestartLeaves DEF InFlight
  <2> QED
    BY <1>0, <1>5, <2>6, <2>7, OneCopyApartNext DEF CopyInv, TopicsApart, Restart
<1>6. CASE Rest
  <2>1. UNCHANGED <<cached, hand, docsChan, docQueue, putting, db, topic,
                    refetched, givenUp>>
    BY <1>6, RestKeeps
  <2>2. Spread' = Spread
    <3>1. \A q \in Places : Spread'[q] = Spread[q]
      BY <2>1, Unmoved
    <3>2. Spread = [q \in Places |-> Spread[q]] /\ Spread' = [q \in Places |-> Spread'[q]]
      BY DEF Spread
    <3> QED
      BY <3>1, <3>2, Zenon
  <2>3. UNCHANGED <<InFlight, Stored>>
    BY <2>1 DEF InFlight, Stored
  <2> QED
    BY <1>0, <2>1, <2>2, <2>3, OneCopyApartNext DEF CopyInv, TopicsApart
<1> QED
  BY <1>1, <1>2, <1>3, <1>4, <1>5, <1>6, Steps

(* Whatever the tickers, goroutines and permits do, a document is INSERTed *)
(* a second time only if the cache delivered it a second time.             *)
THEOREM OneCopyHolds == Spec => []OneCopy
<1>1. CopyInv => OneCopy
  BY DEF CopyInv
<1> QED
  BY <1>1, CopyInvInit, CopyInvNext, TypeCorrect, NothingIsLost, PTL DEF Spec

-----------------------------------------------------------------------------
(* Each step of the pipeline is one of Transfer, or changes nothing there. *)
LEMMA StepRefines ==
  TypeOK /\ TypeOK' /\ NothingLost /\ CopyInv /\ CopyInv' /\ [Next]_vars
    => [T!Next]_(T!vars)
<1> SUFFICES ASSUME TypeOK, TypeOK', NothingLost, CopyInv, CopyInv', [Next]_vars
             PROVE  [T!Next]_(T!vars)
  OBVIOUS
<1>1. ASSUME NEW d \in Docs, NEW t \in Topics, Submit(d, t) PROVE [T!Next]_(T!vars)
  <2>1. d \notin submitted
    BY <1>1 DEF Submit
  <2>2. T!Arrive(d)
    BY <1>1, <2>1, SubmitAdds DEF T!Arrive, NothingLost
  <2> QED
    BY <2>2 DEF T!Next
<1>2. CASE Move
  BY <1>2, MoveKeeps DEF T!vars
<1>3. ASSUME NEW w \in Workers, BatchStored(w) \/ BatchRefused(w)
      PROVE  [T!Next]_(T!vars)
  <2> DEFINE S == Range(putting[w])
             still == S \cap InFlight'
  <2>1. InFlight = InFlight' \cup S /\ UNCHANGED refetched
    BY <1>3, BatchLeaves
  <2>2. S # {}
    <3>1. putting[w] \in Seq(Docs) /\ putting[w] # << >>
      BY <1>3 DEF BatchStored, BatchRefused, TypeOK
    <3> QED
      BY <3>1, RangeHeadTail
  <2>3. /\ BatchStored(w) => S \subseteq Stored' /\ Stored' = Stored \cup S /\ UNCHANGED givenUp
        /\ BatchRefused(w) => S \subseteq givenUp' /\ givenUp' = givenUp \cup S /\ UNCHANGED Stored
    BY <1>3, BatchLeaves
  <2>4. still \in SUBSET (S \cap refetched)
    BY <1>3, <2>1, <2>3 DEF CopyInv, OneCopy
  <2> HIDE DEF S
  <2>5. InFlight' = InFlight \ (S \ still)
    BY <2>1
  <2>6. T!Moved(S)
    BY <2>4, <2>5 DEF T!Moved
  <2>7. T!Store(S) \/ T!GiveUp(S)
    BY <1>3, <2>1, <2>3, <2>6 DEF T!Store, T!GiveUp
  <2> QED
    BY <2>1, <2>2, <2>7 DEF T!Next
<1>4. ASSUME NEW t \in Topics, Rebalance(t) PROVE [T!Next]_(T!vars)
  <2>1. PICK back \in SUBSET submitted : /\ InFlight' = InFlight \cup back
                                         /\ refetched' = refetched \cup back
    BY <1>4, RebalanceAdds
  <2>2. T!Break({}, back)
    BY <1>4, <2>1, RebalanceAdds DEF T!Break
  <2>3. back \in SUBSET (InFlight \cup Stored \cup givenUp) /\ {} \in SUBSET InFlight
    BY DEF NothingLost
  <2> QED
    BY <2>2, <2>3 DEF T!Next
<1>5. CASE Restart
  <2> DEFINE dropped == InFlight \ InFlight'
             back == InFlight' \ Held(cached)
  <2>1. /\ InFlight' = (InFlight \ dropped) \cup back
        /\ back \in SUBSET (InFlight \cup Stored \cup givenUp)
    BY <1>5, RestartLeaves DEF NothingLost, InFlight
  <2>2. T!Break(dropped, back)
    BY <1>5, <2>1, RestartLeaves DEF T!Break
  <2> QED
    BY <2>1, <2>2 DEF T!Next
<1>6. CASE Rest
  BY <1>6, RestKeeps DEF T!vars, InFlight, Stored
<1> QED
  BY <1>1, <1>2, <1>3, <1>4, <1>5, <1>6, Steps

(* continuePersist implements Transfer: seen from outside, documents that  *)
(* were submitted are moved into the table or given up, each once unless   *)
(* the cache brought it back.                                              *)
THEOREM TransferImplemented == Spec => ImplementsTransfer
<1>1. Init => T!Init
  BY RangeEmpty DEF Init, T!Init, InFlight, Held, Stored, EmptyTable, NullRow
<1>2. Spec => [](TypeOK /\ NothingLost /\ CopyInv)
  BY CopyInvInit, CopyInvNext, TypeCorrect, NothingIsLost, PTL DEF Spec
<1> QED
  BY <1>1, <1>2, StepRefines, PTL DEF Spec, ImplementsTransfer, T!Spec
=============================================================================
