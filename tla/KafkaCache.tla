---------------------------- MODULE KafkaCache ----------------------------
(***************************************************************************)
(* The Kafka cache, seen by one consumer: the persister and the blockchain *)
(* handler are two consumer groups with state of their own, and share only *)
(* the topics they read.                                                   *)
(*                                                                         *)
(*   Put --> topic --> handleConsumer --> channel of the topic --> Get     *)
(*                          |  MarkOffset                                  *)
(*                          v                                              *)
(*                     committed offset                                    *)
(*                                                                         *)
(* A document is its offset in its topic.  One goroutine (the feeder) reads*)
(* all topics and sends each document into the channel of its topic; the   *)
(* consumer's goroutines (callers) empty the channels.  Whoever of them    *)
(* needs a channel first makes it, in two steps that nothing holds         *)
(* together.  The group member is the vendored sarama-cluster; the broker  *)
(* is external, modelled by what the member's requests show of it.         *)
(***************************************************************************)
EXTENDS Integers, Sequences, Functions

CONSTANTS
  Topics,    \* one topic for each configured period
  Limit,     \* Limit[t]: capacity of a channel, and the count of every Get
  Callers,   \* goroutines of the consumer that may be in Get
  Backlog,   \* Backlog[t]: documents in topic t when the process starts
  MaxDocs,   \* bound: documents put, the backlog included
  MaxFaults, \* bound: rebalances and restarts
  Env        \* what the environment may do, see below

EnvKinds == {"newGroup",     \* the group may have no offset to start with
             "garbled",      \* a message may be no document
             "expired",      \* documents may be deleted before they are read
             "rebalance",    \* the group loses and regains its partitions
             "commitFails",  \* the commit of a release or of Close fails
             "close",        \* a signal handler calls Close
             "restart"}      \* the process dies and is started again

Feeder == "feeder"
Makers == Callers \cup {Feeder}

Offsets == 1 .. MaxDocs
None == -1
NoChan == "none"

ASSUME KafkaCacheAssumption ==
  /\ Limit \in [Topics -> Nat]
  /\ Backlog \in [Topics -> 0 .. MaxDocs]
  /\ MaxDocs \in Nat /\ MaxFaults \in Nat
  /\ Env \subseteq EnvKinds
  /\ Callers \cap {Feeder, NoChan} = {}

VARIABLES
  log,        \* external: log[t] messages are in topic t
  garbled,    \* external: garbled[t], those that proto.Unmarshal refuses
  committed,  \* external: the group's committed offsets, None before the first
  member,     \* the group membership: "out", "joining", "joined" or "closed"
  position,   \* position[t]: documents of t read, or skipped, in this session
  marked,     \* marked[t]: the offset MarkOffset left for the next commit
  current,    \* topicConsumersDocsChans[t]: the channel, named by its maker
  chan,       \* chan[t][w]: contents of the channel that w made for topic t
  work,       \* work[w]: where goroutine w is
  faults,     \* rebalances and restarts so far
  from,       \* history: from[t], where reading started for want of an offset
  sent,       \* history: sent[t], documents that were put into a channel
  again,      \* history: again[t], read and not committed when the group joined
  handed      \* history: handed[t][i], times Get returned document i

broker  == <<log, garbled, committed>>
session == <<member, position, marked>>
chans   == <<current, chan>>
history == <<from, sent, again, handed>>
vars == <<broker, session, chans, work, faults, history>>

-----------------------------------------------------------------------------
(* The states of a goroutine: it found no channel and will create one, it  *)
(* will look the channel up, it uses the one it found, it will mark.       *)
Idle == [pc |-> "idle", topic |-> NoChan, chan |-> NoChan, docs |-> << >>]

(* The test at the head of constructTopicConsumerDocsChan; a channel that  *)
(* is there is used.                                                       *)
Check(t, docs) ==
  [pc    |-> IF current[t] = NoChan THEN "create" ELSE "use",
   topic |-> t, chan |-> current[t], docs |-> docs]

(* The channel that w uses. *)
Buffer(w) == chan[work[w].topic][work[w].chan]

Larger(m, n) == IF m < n THEN n ELSE m

(* The document the feeder has read and not yet put into a channel. *)
InHand(t) == {i \in Range(work[Feeder].docs) : work[Feeder].topic = t}

-----------------------------------------------------------------------------
DocsPut == FoldFunction(+, 0, log)

(* The producer's SendMessage returns once all replicas have the document; *)
(* Close has closed the producer.  (A document whose period is not         *)
(* configured goes to a topic that no consumer subscribes.)                *)
Put(t) ==
  /\ member # "closed"
  /\ DocsPut < MaxDocs
  /\ log' = [log EXCEPT ![t] = @ + 1]
  /\ UNCHANGED <<garbled, committed, session, chans, work, faults, history>>

(* The consumer's first Subscribe creates a group member for all topics    *)
(* and starts the feeder; it does not wait for the member to join.         *)
Subscribe ==
  /\ member = "out"
  /\ member' = "joining"
  /\ UNCHANGED <<broker, position, marked, chans, work, faults, history>>

(* What a join that starts the topics in lost at the newest message leaves *)
(* in the histories.                                                       *)
JoinRecorded(lost) ==
  /\ from' = [t \in Topics |-> IF t \in lost THEN log[t] ELSE from[t]]
  /\ again' = [t \in Topics |-> again[t] \cup
                 {i \in sent[t] \cup InHand(t) : i > committed[t]}]
  /\ UNCHANGED <<sent, handed>>

(* The topics for which the member has no offset to read on from: the group*)
(* has none, or what lies behind it is gone and the broker answers         *)
(* ErrOffsetOutOfRange (here: after a rebalance or a restart, a bound).    *)
Lost ==
  {t \in Topics :
     \/ committed[t] = None
     \/ "expired" \in Env /\ faults > 0 /\ committed[t] < log[t]}

(* A plausible slip: the member reads on from the last committed document  *)
(* instead of the one after it.                                            *)
JoinOneBefore ==
  /\ member = "joining"
  /\ member' = "joined"
  /\ \E lost \in SUBSET Lost :
       /\ \A t \in Topics : committed[t] = None => t \in lost
       /\ position' = [t \in Topics |-> IF t \in lost THEN log[t]
                                        ELSE Larger(committed[t] - 1, 0)]
       /\ marked' = [t \in Topics |-> IF t \in lost THEN None ELSE committed[t]]
       /\ JoinRecorded(lost)
  /\ UNCHANGED <<broker, chans, work, faults>>

(* subscribe, once the member has its partitions: it reads on from the     *)
(* committed offset, or else from the newest message (OffsetNewest).       *)
Join ==
  /\ member = "joining"
  /\ member' = "joined"
  /\ \E lost \in SUBSET Lost :
       /\ \A t \in Topics : committed[t] = None => t \in lost
       /\ position' = [t \in Topics |-> IF t \in lost THEN log[t] ELSE committed[t]]
       /\ marked' = [t \in Topics |-> IF t \in lost THEN None ELSE committed[t]]
       /\ JoinRecorded(lost)
  /\ UNCHANGED <<broker, chans, work, faults>>

(* The offsets after a commit: only what MarkOffset has changed is sent.   *)
Dirty == [t \in Topics |-> IF marked[t] = None THEN committed[t] ELSE marked[t]]

(* The member's commit loop. *)
CommitOffsets ==
  /\ member = "joined"
  /\ committed' = Dirty
  /\ UNCHANGED <<log, garbled, session, chans, work, faults, history>>

(* What releasing the partitions commits: what was marked, if it works.    *)
Released ==
  \/ committed' = IF member = "joined" THEN Dirty ELSE committed
  \/ "commitFails" \in Env /\ UNCHANGED committed

(* The group rebalances: the member releases its partitions and has to join*)
(* again.                                                                  *)
Rebalance ==
  /\ "rebalance" \in Env /\ faults < MaxFaults
  /\ member = "joined"
  /\ Released
  /\ member' = "joining"
  /\ faults' = faults + 1
  /\ UNCHANGED <<log, garbled, position, marked, chans, work, history>>

-----------------------------------------------------------------------------
(* A plausible slip: the feeder marks what it receives, before it sends it. *)
FeederReceiveMarks(t) ==
  /\ member = "joined"
  /\ work[Feeder] = Idle
  /\ position[t] < log[t]
  /\ position' = [position EXCEPT ![t] = @ + 1]
  /\ work' = [work EXCEPT ![Feeder] = Check(t, <<position'[t]>>)]
  /\ marked' = [marked EXCEPT ![t] = Larger(@, position'[t])]
  /\ UNCHANGED <<broker, member, chans, faults, history>>

(* The feeder takes the next message of some topic off Messages().         *)
FeederReceive(t) ==
  /\ member = "joined"
  /\ work[Feeder] = Idle
  /\ position[t] < log[t]
  /\ position' = [position EXCEPT ![t] = @ + 1]
  /\ work' = [work EXCEPT ![Feeder] = Check(t, <<position'[t]>>)]
  /\ UNCHANGED <<broker, member, marked, chans, faults, history>>

(* The rest of constructTopicConsumerDocsChan: make the channel, under the *)
(* lock but without another look, so a channel made since then is replaced.*)
Create(w) ==
  /\ work[w].pc = "create"
  /\ current' = [current EXCEPT ![work[w].topic] = w]
  /\ work' = [work EXCEPT ![w].pc = "lookup"]
  /\ UNCHANGED <<broker, session, chan, faults, history>>

(* After that the caller, or the feeder, reads the channel out of the map. *)
Lookup(w) ==
  /\ work[w].pc = "lookup"
  /\ work' = [work EXCEPT ![w].pc = "use", ![w].chan = current[work[w].topic]]
  /\ UNCHANGED <<broker, session, chans, faults, history>>

(* A message that is no document the feeder leaves out: it is neither sent *)
(* nor marked, and the mark of the next message passes it.                 *)
Skip ==
  LET f == work[Feeder]
  IN  /\ f.pc \in {"lookup", "use"}
      /\ Range(f.docs) \cap garbled[f.topic] # {}
      /\ work' = [work EXCEPT ![Feeder] = Idle]
      /\ UNCHANGED <<broker, session, chans, faults, history>>

(* The feeder sends the document: it waits while the channel is full, and  *)
(* the documents of all topics wait with it.                               *)
Send ==
  LET f == work[Feeder]
  IN  /\ f.pc = "use"
      /\ Range(f.docs) \cap garbled[f.topic] = {}
      /\ Len(Buffer(Feeder)) < Limit[f.topic]
      /\ chan' = [chan EXCEPT ![f.topic][f.chan] = @ \o f.docs]
      /\ work' = [work EXCEPT ![Feeder].pc = "mark"]
      /\ sent' = [sent EXCEPT ![f.topic] = @ \cup Range(f.docs)]
      /\ UNCHANGED <<broker, session, current, faults, from, again, handed>>

(* MarkOffset: an offset only ever grows, and a partition that has been    *)
(* released has none.                                                      *)
MarkOffset ==
  LET f == work[Feeder]
  IN  /\ f.pc = "mark"
      /\ marked' = IF member = "joined"
                   THEN [marked EXCEPT ![f.topic] = Larger(@, Head(f.docs))]
                   ELSE marked
      /\ work' = [work EXCEPT ![Feeder] = Idle]
      /\ UNCHANGED <<broker, member, position, chans, faults, history>>

-----------------------------------------------------------------------------
(* A period's goroutine, started after Subscribe, calls Get. *)
GetCall(c, t) ==
  /\ member # "out"
  /\ work[c] = Idle
  /\ work' = [work EXCEPT ![c] = Check(t, << >>)]
  /\ UNCHANGED <<broker, session, chans, faults, history>>

(* A plausible slip: the loop goes one too far. *)
GetReceiveOneMore(c) ==
  /\ work[c].pc = "use"
  /\ Len(work[c].docs) <= Limit[work[c].topic]
  /\ Buffer(c) # << >>
  /\ work' = [work EXCEPT ![c].docs = Append(@, Head(Buffer(c)))]
  /\ chan' = [chan EXCEPT ![work[c].topic][work[c].chan] = Tail(@)]
  /\ UNCHANGED <<broker, session, current, faults, history>>

(* Get's loop receives one document ... *)
GetReceive(c) ==
  /\ work[c].pc = "use"
  /\ Len(work[c].docs) < Limit[work[c].topic]
  /\ Buffer(c) # << >>
  /\ work' = [work EXCEPT ![c].docs = Append(@, Head(Buffer(c)))]
  /\ chan' = [chan EXCEPT ![work[c].topic][work[c].chan] = Tail(@)]
  /\ UNCHANGED <<broker, session, current, faults, history>>

(* A plausible slip: what a short read has received is not returned. *)
GetReturnFullOnly(c) ==
  /\ work[c].pc = "use"
  /\ Len(work[c].docs) = Limit[work[c].topic] \/ Buffer(c) = << >>
  /\ handed' = [handed EXCEPT ![work[c].topic] =
                   [i \in DOMAIN @ |->
                      IF /\ i \in Range(work[c].docs)
                         /\ Len(work[c].docs) = Limit[work[c].topic]
                      THEN @[i] + 1 ELSE @[i]]]
  /\ work' = [work EXCEPT ![c] = Idle]
  /\ UNCHANGED <<broker, session, chans, faults, from, sent, again>>

(* ... until it has count of them or the channel is empty, and returns.    *)
GetReturn(c) ==
  /\ work[c].pc = "use"
  /\ Len(work[c].docs) = Limit[work[c].topic] \/ Buffer(c) = << >>
  /\ handed' = [handed EXCEPT ![work[c].topic] =
                   [i \in DOMAIN @ |-> IF i \in Range(work[c].docs)
                                       THEN @[i] + 1 ELSE @[i]]]
  /\ work' = [work EXCEPT ![c] = Idle]
  /\ UNCHANGED <<broker, session, chans, faults, from, sent, again>>

-----------------------------------------------------------------------------
(* Close: the producer, a last commit, the members.  Then it watches the   *)
(* channels in a loop that has no end, while the goroutines go on.         *)
Close ==
  /\ "close" \in Env
  /\ member \in {"joining", "joined"}
  /\ Released
  /\ member' = "closed"
  /\ UNCHANGED <<log, garbled, position, marked, chans, work, faults, history>>

(* The process dies, while it runs or in Close, and starts again with      *)
(* NewKafkaCache: channels and goroutines are gone, the broker keeps its   *)
(* offsets.                                                                *)
Restart ==
  /\ "restart" \in Env /\ faults < MaxFaults
  /\ member # "out"
  /\ member' = "out"
  /\ current' = [t \in Topics |-> NoChan]
  /\ chan' = [t \in Topics |-> [w \in Makers |-> << >>]]
  /\ work' = [w \in Makers |-> Idle]
  /\ faults' = faults + 1
  /\ UNCHANGED <<broker, position, marked, history>>

-----------------------------------------------------------------------------
(* External: other producers' messages, or damaged ones, may be among those*)
(* that wait.                                                              *)
Unreadable == {g \in [Topics -> SUBSET Offsets] :
                 \A t \in Topics : /\ g[t] \subseteq 1 .. Backlog[t]
                                   /\ "garbled" \in Env \/ g[t] = {}}

Init ==
  /\ log = Backlog
  /\ garbled \in Unreadable
  /\ \/ committed = [t \in Topics |-> 0]
     \/ "newGroup" \in Env /\ committed = [t \in Topics |-> None]
  /\ member = "out"
  /\ position = [t \in Topics |-> 0]
  /\ marked = committed
  /\ current = [t \in Topics |-> NoChan]
  /\ chan = [t \in Topics |-> [w \in Makers |-> << >>]]
  /\ work = [w \in Makers |-> Idle]
  /\ faults = 0
  /\ from = [t \in Topics |-> 0]
  /\ sent = [t \in Topics |-> {}]
  /\ again = [t \in Topics |-> {}]
  /\ handed = [t \in Topics |-> [i \in Offsets |-> 0]]

(* The goroutine that handleConsumer starts. *)
handleConsumer == \/ \E t \in Topics : FeederReceive(t)
                  \/ Create(Feeder) \/ Lookup(Feeder) \/ Skip \/ Send \/ MarkOffset

(* A call of Get, once it has begun. *)
Get(c) == Create(c) \/ Lookup(c) \/ GetReceive(c) \/ GetReturn(c)

Next == \/ \E t \in Topics : Put(t)
        \/ Subscribe \/ Join \/ CommitOffsets
        \/ Rebalance
        \/ handleConsumer
        \/ \E c \in Callers, t \in Topics : GetCall(c, t)
        \/ \E c \in Callers : Get(c)
        \/ Close \/ Restart

Spec == Init /\ [][Next]_vars

(* The consumer subscribes and polls every topic on a ticker, a member     *)
(* joins in the end, goroutines run on, and of the partitions that have a  *)
(* message none is passed over for ever.                                   *)
Fairness ==
  /\ WF_vars(Subscribe) /\ WF_vars(Join)
  /\ WF_vars(Create(Feeder) \/ Lookup(Feeder) \/ Skip \/ Send \/ MarkOffset)
  /\ \A t \in Topics : SF_vars(FeederReceive(t))
  /\ \A t \in Topics : SF_vars(\E c \in Callers : GetCall(c, t))
  /\ \A c \in Callers : WF_vars(Get(c))

FairSpec == Spec /\ Fairness

-----------------------------------------------------------------------------
Types ==
  /\ log \in [Topics -> Nat]
  /\ garbled \in [Topics -> SUBSET Nat]
  /\ committed \in [Topics -> Nat \cup {None}]
  /\ member \in {"out", "joining", "joined", "closed"}
  /\ position \in [Topics -> Nat]
  /\ marked \in [Topics -> Nat \cup {None}]
  /\ current \in [Topics -> Makers \cup {NoChan}]
  /\ chan \in [Topics -> [Makers -> Seq(Nat)]]
  /\ work \in [Makers -> [pc: {"idle", "create", "lookup", "use", "mark"},
                          topic: Topics \cup {NoChan},
                          chan: Makers \cup {NoChan}, docs: Seq(Nat)]]
  /\ faults \in 0 .. MaxFaults
  /\ from \in [Topics -> Nat]
  /\ sent \in [Topics -> SUBSET Nat]
  /\ again \in [Topics -> SUBSET Nat]
  /\ handed \in [Topics -> [Offsets -> Nat]]

(* No channel holds, and no Get returns, more than the period's limit.     *)
WithinLimit ==
  /\ \A t \in Topics, w \in Makers : Len(chan[t][w]) <= Limit[t]
  /\ \A c \in Callers : work[c].pc = "use" =>
       Len(work[c].docs) <= Limit[work[c].topic]

(* Whatever is read, sent, marked or committed is in its topic.            *)
WithinLog ==
  \A t \in Topics :
    /\ committed[t] <= log[t] /\ marked[t] <= log[t]
    /\ position[t] <= log[t] /\ from[t] <= log[t]
    /\ sent[t] \cup again[t] \subseteq 1 .. log[t]
    /\ \A w \in Makers :
         /\ Range(chan[t][w]) \subseteq 1 .. log[t]
         /\ work[w].topic = t => Range(work[w].docs) \subseteq 1 .. log[t]

(* Types, with what the channels and the topics bound. *)
TypeOK == Types /\ WithinLimit /\ WithinLog

(* An offset is committed behind a document only after the document was put*)
(* into a channel: a rebalance or a death of the process between receive,  *)
(* send, MarkOffset and commit makes the next member read it again, and    *)
(* never skips it.  A message that is no document is never sent, and must  *)
(* not take a document with it.  (A group without an offset starts at      *)
(* from.)                                                                  *)
CommittedWasSent ==
  \A t \in Topics : \A i \in Offsets :
    from[t] < i /\ i <= committed[t] => i \in sent[t] \cup garbled[t]

(* A document reaches the consumer twice only if the group joined when the *)
(* document had been read and its offset not committed.                    *)
TwiceOnlyIfUncommitted ==
  \A t \in Topics : \A i \in Offsets : handed[t][i] > 1 => i \in again[t]

(* The group is joined, every topic has its channel, nobody is about to    *)
(* replace one, and the feeder does not wait on a replaced one.            *)
Settled ==
  /\ member = "joined"
  /\ \A t \in Topics : current[t] # NoChan
  /\ \A w \in Makers : work[w].pc # "create"
  /\ work[Feeder].pc = "use" => work[Feeder].chan = current[work[Feeder].topic]

(* Once things have settled, every document that is still in its topic     *)
(* reaches the consumer unless the group or the process breaks: a full     *)
(* channel of one topic holds the one feeder up, but not for ever, and a   *)
(* message that is no document does not stop it.                           *)
SettledIsHanded ==
  \A t \in Topics : \A i \in Offsets :
    Settled /\ position[t] < i /\ i <= log[t] /\ i \notin garbled[t]
      ~> handed[t][i] > 0 \/ ~Settled

(* cache.go says of Subscribe: "once the consumer subscribed the topic,    *)
(* they will get documents which related to the topic".                    *)
SubscriberGets ==
  \A t \in Topics : \A i \in Offsets :
    member = "joined" /\ position[t] < i /\ i <= log[t]
      ~> handed[t][i] > 0
=============================================================================
