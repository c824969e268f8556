------------------------ MODULE MemoryCacheProofs ------------------------
(***************************************************************************)
(* No document disappears from the in-memory cache before Close, for any   *)
(* number of documents, topics, consumers and any count, whichever topics  *)
(* the consumers poll.                                                     *)
(***************************************************************************)
EXTENDS MemoryCache, TLAPS

(* What the proof needs to know of the types. *)
TypeOK ==
  /\ vals \in [Topics -> SUBSET Docs]
  /\ customerReaded \in [Consumers -> [Topics -> SUBSET Docs]]
  /\ topicOf \in [Docs -> Topics \cup {""}]
  /\ closed \in BOOLEAN

KeptInv == TypeOK /\ KeptOrRead

(* Nothing has been put into a new cache. *)
LEMMA KeptInit == Init => KeptInv
BY DEF Init, KeptInv, TypeOK, KeptOrRead

(* Every operation keeps the invariant.  A document leaves the map of its  *)
(* topic only in Get, which notes it for the consumer it hands it to, and  *)
(* Close ends the promise.                                                 *)
LEMMA KeptNext == KeptInv /\ [Next]_vars => KeptInv'
<1> SUFFICES ASSUME KeptInv, [Next]_vars PROVE KeptInv'
  OBVIOUS
<1> USE MemoryCacheAssumption DEF KeptInv, TypeOK
<1>1. ASSUME NEW d \in Docs, NEW t \in Topics, Put(d, t) PROVE KeptInv'
  <2>1. TypeOK'
    BY <1>1 DEF Put
  <2>2. ASSUME NEW e \in Docs, topicOf'[e] # "", ~closed'
        PROVE  \/ e \in vals'[topicOf'[e]]
               \/ \E c \in Consumers : e \in customerReaded'[c][topicOf'[e]]
    <3>1. CASE e = d
      BY <1>1, <3>1 DEF Put
    <3>2. CASE e # d
      <4>1. topicOf'[e] = topicOf[e] /\ topicOf[e] \in Topics
        BY <1>1, <2>2, <3>2 DEF Put
      <4>2. vals[topicOf[e]] \subseteq vals'[topicOf[e]]
        BY <1>1, <4>1 DEF Put
      <4> QED BY <1>1, <2>2, <4>1, <4>2 DEF Put, KeptOrRead
    <3> QED BY <3>1, <3>2
  <2> QED BY <2>1, <2>2 DEF KeptOrRead
<1>2. ASSUME NEW c \in Consumers, NEW t \in Periods, Subscribe(c, t)
      PROVE  KeptInv'
  BY <1>2 DEF Subscribe, KeptOrRead
<1>3. ASSUME NEW c \in Consumers, NEW t \in Periods, Get(c, t) PROVE KeptInv'
  <2>1. PICK docs \in SUBSET (vals[t] \ customerReaded[c][t]) :
          /\ vals' = [vals EXCEPT ![t] = @ \ docs]
          /\ customerReaded' = [customerReaded EXCEPT ![c][t] = @ \cup docs]
    BY <1>3 DEF Get
  <2>2. UNCHANGED <<topicOf, closed>>
    BY <1>3 DEF Get
  <2>3. docs \subseteq Docs
    OBVIOUS
  <2>4. TypeOK'
    BY <2>1, <2>2, <2>3
  <2>5. \A x \in Consumers, u \in Topics :
          customerReaded[x][u] \subseteq customerReaded'[x][u]
    BY <2>1
  <2>6. \A u \in Topics : \A e \in vals[u] :
          e \in vals'[u] \/ e \in customerReaded'[c][u]
    BY <2>1
  <2>7. ASSUME NEW e \in Docs, topicOf[e] # "", ~closed
        PROVE  \/ e \in vals'[topicOf[e]]
               \/ \E x \in Consumers : e \in customerReaded'[x][topicOf[e]]
    BY <2>5, <2>6, <2>7 DEF KeptOrRead
  <2> QED BY <2>2, <2>4, <2>7 DEF KeptOrRead
<1>4. ASSUME NEW c \in Consumers, NEW t \in Periods, GetNoTopic(c, t)
      PROVE  KeptInv'
  BY <1>4 DEF GetNoTopic, KeptOrRead
<1>5. CASE Close
  BY <1>5 DEF Close, KeptOrRead
<1>6. CASE UNCHANGED vars
  BY <1>6 DEF vars, KeptOrRead
<1> QED BY <1>1, <1>2, <1>3, <1>4, <1>5, <1>6 DEF Next

(* Between Put and Close a document is in the map of its own topic, or     *)
(* some consumer has got it from there.                                    *)
THEOREM DocumentsAreKept == Spec => []KeptOrRead
<1>1. KeptInv => KeptOrRead
  BY DEF KeptInv
<1> QED BY KeptInit, KeptNext, <1>1, PTL DEF Spec
=============================================================================
