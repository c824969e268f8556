---------------------------- MODULE MemoryCache ----------------------------
(***************************************************************************)
(* The in-memory cache: one map of documents for each topic, shared by all *)
(* consumers.  Every operation runs under one mutex and is one step; only  *)
(* Get's look at customerTopics is outside it, and nothing ever leaves     *)
(* customerTopics.                                                         *)
(***************************************************************************)
EXTENDS Naturals, FiniteSets

CONSTANTS
  Docs,       \* documents, each with the id Put gives it
  Topics,     \* the topics memory_<duration>, one for every duration there is
  Periods,    \* the topics of the configured periods, which consumers poll
  Consumers,  \* "persister" and "blockchain"
  Count       \* the count that consumers pass to Get

ASSUME MemoryCacheAssumption == Count \in Nat /\ Periods \subseteq Topics

VARIABLES
  vals,            \* vals[t]: documents of topic t
  made,            \* topics that vals has a map for
  customerTopics,  \* customerTopics[c]: topics c subscribed
  customerReaded,  \* customerReaded[c][t]: documents c got from t
  topicOf,         \* history: the topic of every document put, "" before
  closed           \* Close has been called

vars == <<vals, made, customerTopics, customerReaded, topicOf, closed>>

(* Put takes any duration and makes its topic, whether anybody reads it or *)
(* not.                                                                    *)
Put(d, t) ==
  /\ topicOf[d] = ""
  /\ vals' = [vals EXCEPT ![t] = @ \cup {d}]
  /\ made' = made \cup {t}
  /\ topicOf' = [topicOf EXCEPT ![d] = t]
  /\ UNCHANGED <<customerTopics, customerReaded, closed>>

Subscribe(c, t) ==
  /\ customerTopics' = [customerTopics EXCEPT ![c] = @ \cup {t}]
  /\ UNCHANGED <<vals, made, customerReaded, topicOf, closed>>

(* A plausible slip: the document is deleted before the count is checked.  *)
GetDeletesAll(c, t) ==
  /\ customerTopics' = [customerTopics EXCEPT ![c] = @ \cup {t}]
  /\ t \in made
  /\ \E docs \in SUBSET (vals[t] \ customerReaded[c][t]) :
       /\ Cardinality(docs) <= Count
       /\ vals' = [vals EXCEPT ![t] = {}]
       /\ customerReaded' = [customerReaded EXCEPT ![c][t] = @ \cup docs]
  /\ UNCHANGED <<made, topicOf, closed>>

(* A plausible slip: the loop tests count > 1.                             *)
GetOneLess(c, t) ==
  /\ customerTopics' = [customerTopics EXCEPT ![c] = @ \cup {t}]
  /\ t \in made
  /\ \E docs \in SUBSET (vals[t] \ customerReaded[c][t]) :
       /\ Cardinality(docs) + 1 <= Count
       /\ Cardinality(docs) + 1 < Count => docs = vals[t] \ customerReaded[c][t]
       /\ vals' = [vals EXCEPT ![t] = @ \ docs]
       /\ customerReaded' = [customerReaded EXCEPT ![c][t] = @ \cup docs]
  /\ UNCHANGED <<made, topicOf, closed>>

(* Get subscribes the consumer if need be and takes up to Count documents  *)
(* it has not read, in the random order of the map, out of vals.           *)
Get(c, t) ==
  /\ customerTopics' = [customerTopics EXCEPT ![c] = @ \cup {t}]
  /\ t \in made
  /\ \E docs \in SUBSET (vals[t] \ customerReaded[c][t]) :
       /\ Cardinality(docs) <= Count
       /\ Cardinality(docs) < Count => docs = vals[t] \ customerReaded[c][t]
       /\ vals' = [vals EXCEPT ![t] = @ \ docs]
       /\ customerReaded' = [customerReaded EXCEPT ![c][t] = @ \cup docs]
  /\ UNCHANGED <<made, topicOf, closed>>

(* Get of a topic that nobody has put to returns an error. *)
GetNoTopic(c, t) ==
  /\ customerTopics' = [customerTopics EXCEPT ![c] = @ \cup {t}]
  /\ t \notin made
  /\ UNCHANGED <<vals, made, customerReaded, topicOf, closed>>

Close ==
  /\ vals' = [t \in Topics |-> {}]
  /\ made' = {}
  /\ closed' = TRUE
  /\ UNCHANGED <<customerTopics, customerReaded, topicOf>>

Init ==
  /\ vals = [t \in Topics |-> {}]
  /\ made = {}
  /\ customerTopics = [c \in Consumers |-> {}]
  /\ customerReaded = [c \in Consumers |-> [t \in Topics |-> {}]]
  /\ topicOf = [d \in Docs |-> ""]
  /\ closed = FALSE

Next == \/ \E d \in Docs, t \in Topics : Put(d, t)
        \/ \E c \in Consumers, t \in Periods :
             Subscribe(c, t) \/ Get(c, t) \/ GetNoTopic(c, t)
        \/ Close

Spec == Init /\ [][Next]_vars

(* Both consumers poll the topic of every configured period, on a ticker.  *)
FairSpec == Spec /\ \A c \in Consumers, t \in Periods : WF_vars(Get(c, t))

-----------------------------------------------------------------------------
ReadBy(c) == UNION {customerReaded[c][t] : t \in Topics}

(* Between Put and Close no document disappears: it is in the map of its   *)
(* own topic, or some consumer has got it from that topic.                 *)
KeptOrRead ==
  \A d \in Docs : topicOf[d] # "" /\ ~closed =>
    \/ d \in vals[topicOf[d]]
    \/ \E c \in Consumers : d \in customerReaded[c][topicOf[d]]

(* Every document put under a configured period reaches a consumer, unless *)
(* the cache is closed, although each Get takes the documents in random    *)
(* order.  One put under another period stays in its map for good.         *)
SomeConsumerGets ==
  \A d \in Docs : topicOf[d] \in Periods ~> closed \/ \E c \in Consumers : d \in ReadBy(c)

(* cache.go says of Subscribe: "once the consumer subscribed the topic,    *)
(* they will get documents which related to the topic".                    *)
EverySubscriberGets ==
  \A d \in Docs, c \in Consumers :
    topicOf[d] # "" /\ topicOf[d] \in customerTopics[c]
      ~> closed \/ d \in ReadBy(c)
=============================================================================
