------------------------- MODULE KafkaCacheProofs -------------------------
(***************************************************************************)
(* The Kafka cache keeps its types and bounds, commits no document that it *)
(* has not sent, and hands a document over twice only if the group joined  *)
(* when it was read and not committed: for any topics, limits, callers and *)
(* any number of rebalances, restarts, failing commits, offsets that are   *)
(* out of range and messages that are no documents.                        *)
(***************************************************************************)
EXTENDS KafkaCache, Moves

(* What each stage of a goroutine says of the rest of its state. *)
Stage(w) ==
  /\ work[w].pc = "idle" => work[w].docs = << >>
  /\ work[w].pc # "idle" => work[w].topic \in Topics
  /\ work[w].pc = "lookup" => current[work[w].topic] \in Makers
  /\ work[w].pc = "use" => work[w].chan \in Makers
  /\ work[w].pc = "mark" => w = Feeder
  /\ work[w].pc \in {"create", "lookup"} /\ w # Feeder => work[w].docs = << >>
  /\ work[w].pc # "idle" /\ w = Feeder => Len(work[w].docs) = 1

TypeInv == TypeOK /\ \A w \in Makers : Stage(w)

(* What an offset may pass: documents that were sent, and what is none. *)
Passed(t) == sent[t] \cup garbled[t]

(* Where a session stands: of what lies after from, everything up to the   *)
(* committed and the marked offset is passed so, and everything read is, or*)
(* it is in the feeder's hand, behind nothing that was not sent.           *)
SentUpTo(t, n) == \A i \in Nat : from[t] < i /\ i <= n => i \in Passed(t)

FeederBehind(t) ==
  \A i \in InHand(t) :
    /\ SentUpTo(t, i - 1)
    /\ work[Feeder].pc = "mark" => i \in sent[t]

CommitInv ==
  \A t \in Topics :
    /\ SentUpTo(t, committed[t])
    /\ FeederBehind(t)
    /\ member = "joined" =>
         /\ SentUpTo(t, marked[t])
         /\ \A i \in Nat : from[t] < i /\ i <= position[t] =>
              i \in Passed(t) \cup InHand(t)

(* The channels of each topic, and what the callers have got out of them.  *)
Places == {"chan", "got"} \X Makers

Got(t, w) == IF w # Feeder /\ work[w].topic = t THEN work[w].docs ELSE << >>

Held == [t \in Topics |-> [p \in Places |->
           IF p[1] = "chan" THEN chan[t][p[2]] ELSE Got(t, p[2])]]

(* Of the documents that were not read again, each has one copy, which was *)
(* sent and not handed over yet, and none was handed over twice.           *)
Once(t) ==
  /\ Apart(Held[t], again[t])
  /\ \A p \in Places : \A i \in Range(Held[t][p]) \ again[t] :
       i \in sent[t] /\ (i \in Offsets => handed[t][i] = 0)
  /\ \A i \in Offsets \ again[t] :
       handed[t][i] <= 1 /\ (handed[t][i] > 0 => i \in sent[t])

(* What the feeder has yet to send, or to read, was not sent before, or it *)
(* is read again.                                                          *)
Ahead(t) ==
  /\ work[Feeder].pc # "mark" => InHand(t) \cap sent[t] \subseteq again[t]
  /\ member = "joined" => \A i \in sent[t] \cup InHand(t) :
       i > position[t] => i \in again[t]

TwiceInv == \A t \in Topics : Once(t) /\ Ahead(t)

-----------------------------------------------------------------------------
(* The first process, and every one that is started again, is within its   *)
(* types and bounds.                                                       *)
LEMMA TypeInit == Init => TypeInv
<1> SUFFICES ASSUME Init PROVE TypeInv
  OBVIOUS
<1>1. Types
  BY KafkaCacheAssumption DEF Init, Types, Idle, None, Unreadable, Offsets
<1>2. WithinLimit
  BY KafkaCacheAssumption DEF Init, WithinLimit, Idle, Makers
<1>3. WithinLog
  BY KafkaCacheAssumption, RangeEmpty DEF Init, WithinLog, Idle, None
<1>4. \A w \in Makers : Stage(w)
  BY DEF Init, Stage, Idle
<1> QED BY <1>1, <1>2, <1>3, <1>4 DEF TypeInv, TypeOK

(* Where a join leaves the session: at the committed offsets, but for the  *)
(* topics that have none to read on from.                                  *)
LEMMA Joined ==
  ASSUME Join
  PROVE  \E lost \in SUBSET Topics :
           /\ \A t \in Topics : committed[t] = None => t \in lost
           /\ position' = [t \in Topics |-> IF t \in lost THEN log[t] ELSE committed[t]]
           /\ marked' = [t \in Topics |-> IF t \in lost THEN None ELSE committed[t]]
           /\ from' = [t \in Topics |-> IF t \in lost THEN log[t] ELSE from[t]]
<1>1. PICK lost \in SUBSET Lost :
        /\ \A t \in Topics : committed[t] = None => t \in lost
        /\ position' = [t \in Topics |-> IF t \in lost THEN log[t] ELSE committed[t]]
        /\ marked' = [t \in Topics |-> IF t \in lost THEN None ELSE committed[t]]
        /\ JoinRecorded(lost)
  BY DEF Join
<1>2. lost \in SUBSET Topics
  BY DEF Lost
<1> QED BY <1>1, <1>2 DEF JoinRecorded

(* The broker and the group protocol move offsets within the topics. *)
LEMMA TypeGroup ==
  ASSUME TypeInv,
         \/ \E t \in Topics : Put(t)
         \/ Subscribe \/ Join \/ CommitOffsets \/ Rebalance \/ Close
  PROVE  TypeInv'
<1>0. Types /\ WithinLimit /\ WithinLog /\ \A w \in Makers : Stage(w)
  BY DEF TypeInv, TypeOK
<1>1. UNCHANGED <<current, chan, work, sent, handed>>
  BY DEF Put, Subscribe, Join, JoinRecorded, CommitOffsets, Rebalance, Close,
         chans, history
<1>2. (\A w \in Makers : Stage(w)') /\ WithinLimit'
  BY <1>0, <1>1 DEF Stage, WithinLimit
<1>n. \A t \in Topics : /\ committed[t] \in Int /\ marked[t] \in Int /\ position[t] \in Int
                       /\ from[t] \in Int /\ log[t] \in Int
  BY <1>0 DEF Types, None
<1>3. ASSUME NEW t \in Topics, Put(t) PROVE Types' /\ WithinLog'
  <2>1. /\ log' = [log EXCEPT ![t] = @ + 1]
        /\ UNCHANGED <<garbled, committed, member, position, marked, faults, from, again>>
    BY <1>3 DEF Put, session, history
  <2>2. Types'
    BY <1>0, <1>1, <2>1 DEF Types
  <2>3. \A u \in Topics : log[u] \in Nat /\ log'[u] \in Nat /\ log[u] <= log'[u]
    BY <1>0, <2>1 DEF Types
  <2>4. \A u \in Topics : 1 .. log[u] \subseteq 1 .. log'[u]
    BY <2>3
  <2>5. WithinLog'
    BY <1>0, <1>1, <1>n, <2>1, <2>3, <2>4 DEF WithinLog
  <2> QED BY <2>2, <2>5
<1>4. ASSUME Subscribe PROVE Types' /\ WithinLog'
  <2>1. UNCHANGED <<log, garbled, committed, position, marked, faults, from, again>> /\ member' = "joining"
    BY <1>4 DEF Subscribe, broker, history
  <2>2. Types'
    BY <1>0, <1>1, <2>1 DEF Types
  <2>3. WithinLog'
    BY <1>0, <1>1, <1>n, <2>1 DEF WithinLog
  <2> QED BY <2>2, <2>3
<1>5. ASSUME Join PROVE Types' /\ WithinLog'
  <2>1. /\ UNCHANGED <<log, garbled, committed, faults>> /\ member' = "joined"
        /\ again' = [t \in Topics |-> again[t] \cup {i \in sent[t] \cup InHand(t) : i > committed[t]}]
    BY <1>5 DEF Join, JoinRecorded, broker
  <2>l. PICK lost \in SUBSET Topics :
          /\ \A t \in Topics : committed[t] = None => t \in lost
          /\ position' = [t \in Topics |-> IF t \in lost THEN log[t] ELSE committed[t]]
          /\ marked' = [t \in Topics |-> IF t \in lost THEN None ELSE committed[t]]
          /\ from' = [t \in Topics |-> IF t \in lost THEN log[t] ELSE from[t]]
    BY <1>5, Joined
  <2>2. ASSUME NEW t \in Topics PROVE InHand(t) \subseteq 1 .. log[t]
    BY <1>0 DEF InHand, WithinLog, Makers
  <2>3. ASSUME NEW t \in Topics
        PROVE  /\ log[t] \in Nat /\ committed[t] \in Nat \cup {None} /\ from[t] \in Nat
               /\ again[t] \in SUBSET Nat /\ sent[t] \in SUBSET Nat
    BY <1>0 DEF Types
  <2>4. /\ position' \in [Topics -> Nat] /\ from' \in [Topics -> Nat]
        /\ marked' \in [Topics -> Nat \cup {None}]
    BY <2>l, <2>3
  <2>5. ASSUME NEW t \in Topics PROVE again'[t] \subseteq 1 .. log[t]
    BY <1>0, <2>1, <2>2 DEF WithinLog
  <2>6. again' \in [Topics -> SUBSET Nat]
    <3>1. \A t \in Topics : again'[t] \in SUBSET Nat
      BY <2>3, <2>5
    <3> QED BY <2>1, <3>1
  <2>7. Types'
    BY <1>0, <1>1, <2>1, <2>4, <2>6 DEF Types
  <2>8. ASSUME NEW t \in Topics PROVE /\ position'[t] <= log[t] /\ from'[t] <= log[t]
                                    /\ marked'[t] <= log[t]
    BY <1>0, <2>l, <2>3 DEF WithinLog, None
  <2>9. WithinLog'
    BY <1>0, <1>1, <1>n, <2>1, <2>5, <2>8 DEF WithinLog
  <2> QED BY <2>7, <2>9
<1>6. ASSUME CommitOffsets \/ Rebalance \/ Close PROVE Types' /\ WithinLog'
  <2>1. /\ UNCHANGED <<log, garbled, position, marked, from, again>>
        /\ committed' = committed \/ committed' = Dirty
        /\ member' \in {"joining", "joined", "closed"}
    BY <1>6 DEF CommitOffsets, Rebalance, Close, Released, session, history
  <2>2. faults' = faults \/ (faults' = faults + 1 /\ faults < MaxFaults)
    BY <1>6 DEF CommitOffsets, Rebalance, Close
  <2>3. faults' \in 0 .. MaxFaults
    BY <1>0, <2>2, KafkaCacheAssumption DEF Types
  <2>4. \A t \in Topics : Dirty[t] = committed[t] \/ Dirty[t] = marked[t]
    BY DEF Dirty
  <2>5. Dirty \in [Topics -> Nat \cup {None}]
    BY <1>0 DEF Dirty, Types
  <2>6. Types'
    BY <1>0, <1>1, <2>1, <2>3, <2>5 DEF Types
  <2>7. WithinLog'
    BY <1>0, <1>1, <1>n, <2>1, <2>4 DEF WithinLog
  <2> QED BY <2>6, <2>7
<1> QED BY <1>2, <1>3, <1>4, <1>5, <1>6 DEF TypeInv, TypeOK

WorkStates == [pc: {"idle", "create", "lookup", "use", "mark"},
               topic: Topics \cup {NoChan},
               chan: Makers \cup {NoChan}, docs: Seq(Nat)]

(* What the invariant says of one goroutine. *)
LEMMA WorkerTyped ==
  ASSUME TypeInv, NEW w \in Makers
  PROVE  /\ work \in [Makers -> WorkStates] /\ work[w] \in WorkStates
         /\ work[w].docs \in Seq(Nat)
         /\ Stage(w)
         /\ work[w].topic \in Topics =>
              Range(work[w].docs) \subseteq 1 .. log[work[w].topic]
<1>1. work \in [Makers -> WorkStates] /\ Stage(w) /\ WithinLog
  BY DEF TypeInv, TypeOK, Types, WorkStates
<1>2. work[w] \in WorkStates
  BY <1>1
<1>3. work[w].docs \in Seq(Nat)
  BY <1>2 DEF WorkStates
<1>4. work[w].topic \in Topics => Range(work[w].docs) \subseteq 1 .. log[work[w].topic]
  BY <1>1 DEF WithinLog
<1> QED BY <1>1, <1>2, <1>3, <1>4

(* A step of goroutine w alone, which leaves the offsets where they are or *)
(* moves them within the topics, keeps the invariant if w's next state has *)
(* what the invariant asks of it.                                          *)
LEMMA WorkerStep ==
  ASSUME TypeInv, NEW w \in Makers,
         work' \in [Makers -> WorkStates],
         \A x \in Makers : x # w => work'[x] = work[x],
         Stage(w)',
         work'[w].topic \in Topics =>
           Range(work'[w].docs) \subseteq 1 .. log[work'[w].topic],
         w # Feeder /\ work'[w].pc = "use" =>
           Len(work'[w].docs) <= Limit[work'[w].topic],
         UNCHANGED <<log, garbled, committed, member, faults, from, again>>,
         position' \in [Topics -> Nat], marked' \in [Topics -> Nat \cup {None}],
         \A t \in Topics : position'[t] <= log[t] /\ marked'[t] <= log[t],
         current' \in [Topics -> Makers \cup {NoChan}],
         \A t \in Topics : current[t] \in Makers => current'[t] \in Makers,
         chan' \in [Topics -> [Makers -> Seq(Nat)]],
         \A t \in Topics, x \in Makers :
           Len(chan'[t][x]) <= Limit[t] /\ Range(chan'[t][x]) \subseteq 1 .. log[t],
         sent' \in [Topics -> SUBSET Nat],
         \A t \in Topics : sent'[t] \subseteq 1 .. log[t],
         handed' \in [Topics -> [Offsets -> Nat]]
  PROVE  TypeInv'
<1>1. Types /\ WithinLimit /\ WithinLog /\ \A x \in Makers : Stage(x)
  BY DEF TypeInv, TypeOK
<1>2. Types'
  BY <1>1 DEF Types, WorkStates
<1>3. ASSUME NEW x \in Makers PROVE Stage(x)'
  <2>1. CASE x = w
    BY <2>1
  <2>2. CASE x # w
    <3>1. work'[x] = work[x] /\ Stage(x)
      BY <1>1, <2>2
    <3> QED BY <3>1 DEF Stage
  <2> QED BY <2>1, <2>2
<1>4. WithinLimit'
  <2>1. ASSUME NEW c \in Callers, work'[c].pc = "use"
        PROVE  Len(work'[c].docs) <= Limit[work'[c].topic]
    <3>1. c \in Makers /\ c # Feeder
      BY KafkaCacheAssumption DEF Makers
    <3>2. c # w => work'[c] = work[c]
      BY <3>1
    <3> QED BY <1>1, <2>1, <3>1, <3>2 DEF WithinLimit
  <2> QED BY <2>1 DEF WithinLimit
<1>5. ASSUME NEW t \in Topics, NEW x \in Makers, work'[x].topic = t
      PROVE  Range(work'[x].docs) \subseteq 1 .. log[t]
  <2>1. x # w => work'[x] = work[x]
    OBVIOUS
  <2> QED BY <1>1, <1>5, <2>1 DEF WithinLog
<1>6. \A t \in Topics : again[t] \subseteq 1 .. log[t] /\ committed[t] <= log[t] /\ from[t] <= log[t]
  BY <1>1 DEF WithinLog
<1>7. WithinLog'
  BY <1>5, <1>6 DEF WithinLog
<1> QED BY <1>2, <1>3, <1>4, <1>7 DEF TypeInv, TypeOK

(* What the invariant says of the variables a goroutine's step may leave.  *)
LEMMA Leaves ==
  TypeInv =>
    /\ position \in [Topics -> Nat] /\ marked \in [Topics -> Nat \cup {None}]
    /\ \A t \in Topics : position[t] <= log[t] /\ marked[t] <= log[t]
    /\ current \in [Topics -> Makers \cup {NoChan}]
    /\ chan \in [Topics -> [Makers -> Seq(Nat)]]
    /\ \A t \in Topics, x \in Makers :
         Len(chan[t][x]) <= Limit[t] /\ Range(chan[t][x]) \subseteq 1 .. log[t]
    /\ sent \in [Topics -> SUBSET Nat]
    /\ \A t \in Topics : sent[t] \subseteq 1 .. log[t]
    /\ handed \in [Topics -> [Offsets -> Nat]]
    /\ log \in [Topics -> Nat]
BY DEF TypeInv, TypeOK, Types, WithinLimit, WithinLog

(* The look at the channel that a goroutine starts with. *)
LEMMA CheckTyped ==
  ASSUME TypeInv, NEW w \in Makers, NEW t \in Topics, NEW docs \in Seq(Nat),
         work' = [work EXCEPT ![w] = Check(t, docs)],
         Range(docs) \subseteq 1 .. log[t],
         IF w = Feeder THEN Len(docs) = 1 ELSE docs = << >>,
         UNCHANGED <<current, chan, log, garbled, committed, member, faults, from, again, sent, handed>>,
         marked' = marked, position' \in [Topics -> Nat],
         \A u \in Topics : position'[u] <= log[u]
  PROVE  TypeInv'
<1>1. /\ work'[w].topic = t /\ work'[w].docs = docs /\ work'[w].chan = current[t]
      /\ work'[w].pc = IF current[t] = NoChan THEN "create" ELSE "use"
      /\ \A x \in Makers : x # w => work'[x] = work[x]
      /\ work'[w] = Check(t, docs)
  BY WorkerTyped DEF Check
<1>2. current[t] \in Makers \cup {NoChan}
  BY Leaves
<1>3. Check(t, docs) \in WorkStates
  BY <1>2 DEF Check, WorkStates
<1>4. work' \in [Makers -> WorkStates]
  BY <1>3, WorkerTyped
<1>5. Stage(w)'
  BY <1>1, <1>2 DEF Stage
<1>6. w # Feeder => Len(docs) <= Limit[t]
  BY KafkaCacheAssumption
<1> QED BY <1>1, <1>4, <1>5, <1>6, Leaves, WorkerStep

(* The feeder's next message is in its topic. *)
LEMMA TypeReceive ==
  ASSUME TypeInv, NEW t \in Topics, FeederReceive(t) PROVE TypeInv'
<1>1. /\ position[t] \in Nat /\ log[t] \in Nat /\ position[t] < log[t]
      /\ position' = [position EXCEPT ![t] = @ + 1] /\ position \in [Topics -> Nat]
  BY Leaves DEF FeederReceive
<1>2. position'[t] = position[t] + 1 /\ position' \in [Topics -> Nat]
  BY <1>1
<1>3. \A u \in Topics : position'[u] <= log[u]
  BY <1>1, Leaves
<1>4. <<position'[t]>> \in Seq(Nat) /\ Range(<<position'[t]>>) = {position'[t]}
      /\ Len(<<position'[t]>>) = 1
  BY <1>2 DEF Range
<1>5. Range(<<position'[t]>>) \subseteq 1 .. log[t]
  BY <1>1, <1>2, <1>4
<1>6. /\ UNCHANGED <<current, chan, log, garbled, committed, member, faults, from, again, sent, handed>>
      /\ marked' = marked /\ Feeder \in Makers
      /\ work' = [work EXCEPT ![Feeder] = Check(t, <<position'[t]>>)]
  BY DEF FeederReceive, broker, chans, history, Makers
<1> QED BY <1>2, <1>3, <1>4, <1>5, <1>6, CheckTyped

(* A Get starts with nothing. *)
LEMMA TypeGetCall ==
  ASSUME TypeInv, NEW c \in Callers, NEW t \in Topics, GetCall(c, t) PROVE TypeInv'
<1>1. /\ UNCHANGED <<current, chan, log, garbled, committed, member, faults, from, again, sent, handed>>
      /\ marked' = marked /\ position' = position
      /\ c \in Makers /\ c # Feeder
      /\ work' = [work EXCEPT ![c] = Check(t, << >>)]
  BY KafkaCacheAssumption DEF GetCall, broker, session, chans, history, Makers
<1>2. << >> \in Seq(Nat) /\ Range(<< >>) \subseteq 1 .. log[t]
  BY RangeEmpty
<1> QED BY <1>1, <1>2, CheckTyped, Leaves

(* Making a channel and looking it up leave a channel to be found. *)
LEMMA TypeChannel ==
  ASSUME TypeInv, NEW w \in Makers, Create(w) \/ Lookup(w) PROVE TypeInv'
<1>1. /\ UNCHANGED <<chan, log, garbled, committed, member, faults, from, again, sent, handed>>
      /\ UNCHANGED <<position, marked>>
  BY DEF Create, Lookup, broker, session, chans, history
<1>2. /\ work[w].pc \in {"create", "lookup"} /\ work[w].topic \in Topics
      /\ w # Feeder => work[w].docs = << >>
      /\ w = Feeder => Len(work[w].docs) = 1
      /\ work[w].pc = "lookup" => current[work[w].topic] \in Makers
  BY WorkerTyped DEF Create, Lookup, Stage
<1>3. /\ work'[w].topic = work[w].topic /\ work'[w].docs = work[w].docs
      /\ \A x \in Makers : x # w => work'[x] = work[x]
  BY WorkerTyped DEF Create, Lookup, WorkStates
<1>4. ASSUME Create(w)
      PROVE  /\ work' \in [Makers -> WorkStates] /\ work'[w].pc = "lookup"
             /\ current' \in [Topics -> Makers \cup {NoChan}]
             /\ current'[work[w].topic] \in Makers
             /\ \A t \in Topics : current[t] \in Makers => current'[t] \in Makers
  <2>1. current' = [current EXCEPT ![work[w].topic] = w] /\ work' = [work EXCEPT ![w].pc = "lookup"]
    BY <1>4 DEF Create
  <2>2. work' \in [Makers -> WorkStates] /\ work'[w].pc = "lookup"
    BY <2>1, WorkerTyped DEF WorkStates
  <2> QED BY <1>2, <2>1, <2>2, Leaves
<1>5. ASSUME Lookup(w)
      PROVE  /\ work' \in [Makers -> WorkStates] /\ work'[w].pc = "use"
             /\ work'[w].chan \in Makers
             /\ current' = current
  <2>1. /\ current' = current /\ current[work[w].topic] \in Makers
        /\ work' = [work EXCEPT ![w].pc = "use", ![w].chan = current[work[w].topic]]
    BY <1>2, <1>5 DEF Lookup, chans
  <2> QED BY <2>1, WorkerTyped DEF WorkStates
<1>6. Stage(w)'
  BY <1>2, <1>3, <1>4, <1>5 DEF Stage
<1>7. w # Feeder => Len(work'[w].docs) <= Limit[work'[w].topic]
  BY <1>2, <1>3, KafkaCacheAssumption
<1>8. Range(work'[w].docs) \subseteq 1 .. log[work'[w].topic]
  BY <1>2, <1>3, WorkerTyped
<1>9. /\ work' \in [Makers -> WorkStates]
      /\ current' \in [Topics -> Makers \cup {NoChan}]
      /\ \A t \in Topics : current[t] \in Makers => current'[t] \in Makers
  BY <1>4, <1>5, Leaves
<1> QED BY <1>1, <1>3, <1>6, <1>7, <1>8, <1>9, Leaves, WorkerStep

(* The feeder's one document goes into a channel that has room for it. *)
LEMMA TypeSend == ASSUME TypeInv, Send PROVE TypeInv'
<1> DEFINE f == work[Feeder]
           b == chan[f.topic][f.chan]
<1>1. /\ Feeder \in Makers /\ f.pc = "use" /\ f.topic \in Topics /\ f.chan \in Makers
      /\ f.docs \in Seq(Nat) /\ Len(f.docs) = 1
      /\ Range(f.docs) \subseteq 1 .. log[f.topic] /\ f \in WorkStates
  BY WorkerTyped DEF Send, Stage, Makers
<1>2. /\ b \in Seq(Nat) /\ Len(b) < Limit[f.topic]
      /\ Range(b) \subseteq 1 .. log[f.topic] /\ log[f.topic] \in Nat
      /\ Limit[f.topic] \in Nat
  BY <1>1, Leaves, KafkaCacheAssumption DEF Send, Buffer
<1>3. /\ chan' = [chan EXCEPT ![f.topic][f.chan] = @ \o f.docs]
      /\ work' = [work EXCEPT ![Feeder].pc = "mark"]
      /\ sent' = [sent EXCEPT ![f.topic] = @ \cup Range(f.docs)]
      /\ UNCHANGED <<log, garbled, committed, member, position, marked, current, faults, from, again, handed>>
  BY DEF Send, broker, session
<1>4. /\ b \o f.docs \in Seq(Nat) /\ Len(b \o f.docs) = Len(b) + 1
      /\ Range(b \o f.docs) = Range(b) \cup Range(f.docs)
  <2>1. \A s, d \in Seq(Nat) : Len(d) = 1 =>
          /\ s \o d \in Seq(Nat) /\ Len(s \o d) = Len(s) + 1
          /\ Range(s \o d) = Range(s) \cup Range(d)
    BY OneMore
  <2> QED BY <1>1, <1>2, <2>1
<1>5. /\ chan' \in [Topics -> [Makers -> Seq(Nat)]]
      /\ chan'[f.topic][f.chan] = b \o f.docs
      /\ \A t \in Topics, x \in Makers :
           t # f.topic \/ x # f.chan => chan'[t][x] = chan[t][x]
  <2> HIDE DEF f
  <2>1. chan \in [Topics -> [Makers -> Seq(Nat)]]
    BY Leaves
  <2> QED BY <1>1, <1>3, <1>4, <2>1
<1>6. \A t \in Topics, x \in Makers :
        Len(chan'[t][x]) <= Limit[t] /\ Range(chan'[t][x]) \subseteq 1 .. log[t]
  <2> TAKE t \in Topics, x \in Makers
  <2>1. CASE t = f.topic /\ x = f.chan
    <3>1. Len(b) \in Nat
      BY <1>2
    <3>2. Len(b) + 1 <= Limit[f.topic]
      BY <1>2, <3>1
    <3> QED BY <1>1, <1>2, <1>4, <1>5, <2>1, <3>2
  <2>2. CASE t # f.topic \/ x # f.chan
    BY <1>5, <2>2, Leaves
  <2> QED BY <2>1, <2>2
<1>7. sent' \in [Topics -> SUBSET Nat] /\ \A t \in Topics : sent'[t] \subseteq 1 .. log[t]
  <2>1. Range(f.docs) \subseteq Nat
    BY <1>1, <1>2
  <2> QED BY <1>1, <1>3, <2>1, Leaves
<1>8. /\ work' \in [Makers -> WorkStates] /\ work'[Feeder].pc = "mark"
      /\ work'[Feeder].topic = f.topic /\ work'[Feeder].docs = f.docs
      /\ \A x \in Makers : x # Feeder => work'[x] = work[x]
  BY <1>1, <1>3, WorkerTyped DEF WorkStates
<1>9. Stage(Feeder)'
  BY <1>1, <1>8 DEF Stage
<1>10. UNCHANGED <<log, garbled, committed, member, faults, from, again>>
       /\ UNCHANGED <<position, marked, current, handed>>
  BY <1>3
<1>11. Range(work'[Feeder].docs) \subseteq 1 .. log[work'[Feeder].topic]
  BY <1>1, <1>8
<1> HIDE DEF f, b
<1> QED BY <1>1, <1>5, <1>6, <1>7, <1>8, <1>9, <1>10, <1>11, Leaves, WorkerStep

(* MarkOffset marks a document of the topic and ends the feeder's round. *)
LEMMA TypeMark == ASSUME TypeInv, MarkOffset PROVE TypeInv'
<1> DEFINE f == work[Feeder]
<1>1. /\ Feeder \in Makers /\ f.pc = "mark" /\ f.topic \in Topics
      /\ f.docs \in Seq(Nat) /\ Len(f.docs) = 1
      /\ Range(f.docs) \subseteq 1 .. log[f.topic]
  BY WorkerTyped DEF MarkOffset, Stage, Makers
<1>2. Head(f.docs) \in Range(f.docs)
  BY <1>1 DEF Range
<1>3. Head(f.docs) \in Nat /\ Head(f.docs) <= log[f.topic] /\ log[f.topic] \in Nat
  BY <1>1, <1>2, Leaves
<1>4. /\ marked' \in [Topics -> Nat \cup {None}]
      /\ \A t \in Topics : marked'[t] <= log[t]
  <2>1. marked' = marked \/ marked' = [marked EXCEPT ![f.topic] = Larger(@, Head(f.docs))]
    BY DEF MarkOffset
  <2> DEFINE m == Larger(marked[f.topic], Head(f.docs))
  <2>2. marked \in [Topics -> Nat \cup {None}] /\ \A t \in Topics : marked[t] <= log[t]
    BY Leaves
  <2>3. m \in {marked[f.topic], Head(f.docs)}
    BY DEF Larger
  <2>4. m \in Nat \cup {None} /\ m <= log[f.topic]
    BY <1>1, <1>3, <2>2, <2>3
  <2>5. marked' = marked \/ marked' = [marked EXCEPT ![f.topic] = m]
    BY <2>1
  <2> HIDE DEF f, m
  <2> QED BY <1>1, <2>2, <2>4, <2>5
<1>5. /\ work' = [work EXCEPT ![Feeder] = Idle]
      /\ UNCHANGED <<log, garbled, committed, member, faults, from, again>>
      /\ UNCHANGED <<position, current, chan, sent, handed>>
  BY DEF MarkOffset, broker, chans, history
<1>6. Idle \in WorkStates /\ Idle.pc = "idle" /\ Idle.docs = << >>
  BY DEF Idle, WorkStates
<1>7. work' \in [Makers -> WorkStates] /\ work'[Feeder] = Idle
      /\ \A x \in Makers : x # Feeder => work'[x] = work[x]
  BY <1>1, <1>5, <1>6, WorkerTyped
<1>8. Stage(Feeder)'
  BY <1>6, <1>7 DEF Stage
<1>9. Range(work'[Feeder].docs) = {}
  BY <1>6, <1>7, RangeEmpty
<1> QED BY <1>1, <1>4, <1>5, <1>7, <1>8, <1>9, Leaves, WorkerStep

(* A message that is left out leaves the feeder idle. *)
LEMMA TypeSkip == ASSUME TypeInv, Skip PROVE TypeInv'
<1>1. /\ work' = [work EXCEPT ![Feeder] = Idle] /\ Feeder \in Makers
      /\ UNCHANGED <<log, garbled, committed, member, faults, from, again>>
      /\ UNCHANGED <<position, marked, current, chan, sent, handed>>
  BY DEF Skip, broker, session, chans, history, Makers
<1>2. Idle \in WorkStates /\ Idle.pc = "idle" /\ Idle.docs = << >>
  BY DEF Idle, WorkStates
<1>3. work' \in [Makers -> WorkStates] /\ work'[Feeder] = Idle
      /\ \A x \in Makers : x # Feeder => work'[x] = work[x]
  BY <1>1, <1>2, WorkerTyped
<1>4. Stage(Feeder)'
  BY <1>2, <1>3 DEF Stage
<1>5. Range(work'[Feeder].docs) = {}
  BY <1>2, <1>3, RangeEmpty
<1> QED BY <1>1, <1>3, <1>4, <1>5, Leaves, WorkerStep

(* Get's loop takes a document of the channel, as long as it has fewer than*)
(* the limit.                                                              *)
LEMMA TypeGetReceive ==
  ASSUME TypeInv, NEW c \in Callers, GetReceive(c) PROVE TypeInv'
<1> DEFINE g == work[c]
           b == chan[g.topic][g.chan]
<1>1. /\ c \in Makers /\ c # Feeder /\ g.pc = "use" /\ g.topic \in Topics
      /\ g.chan \in Makers /\ g.docs \in Seq(Nat) /\ g \in WorkStates
      /\ Range(g.docs) \subseteq 1 .. log[g.topic]
      /\ Len(g.docs) < Limit[g.topic]
  BY WorkerTyped, KafkaCacheAssumption DEF GetReceive, Stage, Makers
<1>2. /\ b \in Seq(Nat) /\ b # << >> /\ Len(b) <= Limit[g.topic]
      /\ Range(b) \subseteq 1 .. log[g.topic] /\ Limit[g.topic] \in Nat
  BY <1>1, Leaves, KafkaCacheAssumption DEF GetReceive, Buffer
<1>3. /\ chan' = [chan EXCEPT ![g.topic][g.chan] = Tail(@)]
      /\ work' = [work EXCEPT ![c].docs = Append(@, Head(b))]
      /\ UNCHANGED <<log, garbled, committed, member, faults, from, again>>
      /\ UNCHANGED <<position, marked, current, sent, handed>>
  BY DEF GetReceive, Buffer, broker, session, history
<1>4. /\ Tail(b) \in Seq(Nat) /\ Len(Tail(b)) = Len(b) - 1 /\ Head(b) \in Nat
      /\ Range(b) = {Head(b)} \cup Range(Tail(b))
  BY <1>2, RangeHeadTail
<1>5. /\ Append(g.docs, Head(b)) \in Seq(Nat)
      /\ Len(Append(g.docs, Head(b))) = Len(g.docs) + 1
      /\ Range(Append(g.docs, Head(b))) = Range(g.docs) \cup {Head(b)}
  BY <1>1, <1>4, RangeAppend
<1>6. /\ chan' \in [Topics -> [Makers -> Seq(Nat)]]
      /\ chan'[g.topic][g.chan] = Tail(b)
      /\ \A t \in Topics, x \in Makers :
           t # g.topic \/ x # g.chan => chan'[t][x] = chan[t][x]
  <2> HIDE DEF g
  <2>1. chan \in [Topics -> [Makers -> Seq(Nat)]]
    BY Leaves
  <2> QED BY <1>1, <1>3, <1>4, <2>1
<1>7. \A t \in Topics, x \in Makers :
        Len(chan'[t][x]) <= Limit[t] /\ Range(chan'[t][x]) \subseteq 1 .. log[t]
  <2> TAKE t \in Topics, x \in Makers
  <2>1. CASE t = g.topic /\ x = g.chan
    <3>1. Len(b) \in Nat
      BY <1>2
    <3>2. Len(b) - 1 <= Limit[g.topic]
      BY <1>2, <3>1
    <3> QED BY <1>1, <1>2, <1>4, <1>6, <2>1, <3>2
  <2>2. CASE t # g.topic \/ x # g.chan
    BY <1>6, <2>2, Leaves
  <2> QED BY <2>1, <2>2
<1>8. /\ work' \in [Makers -> WorkStates]
      /\ work'[c].pc = "use" /\ work'[c].topic = g.topic /\ work'[c].chan = g.chan
      /\ work'[c].docs = Append(g.docs, Head(b))
      /\ \A x \in Makers : x # c => work'[x] = work[x]
  <2>1. work \in [Makers -> WorkStates]
    BY <1>1, WorkerTyped
  <2> HIDE DEF b
  <2> QED BY <1>1, <1>3, <1>5, <2>1 DEF WorkStates
<1>9. Stage(c)'
  BY <1>1, <1>8 DEF Stage
<1>10. Len(work'[c].docs) <= Limit[work'[c].topic]
  <2>1. Len(g.docs) \in Nat
    BY <1>1
  <2> QED BY <1>1, <1>2, <1>5, <1>8, <2>1
<1>11. Range(work'[c].docs) \subseteq 1 .. log[work'[c].topic]
  BY <1>1, <1>2, <1>4, <1>5, <1>8
<1> HIDE DEF g, b
<1> QED BY <1>1, <1>3, <1>6, <1>7, <1>8, <1>9, <1>10, <1>11, Leaves, WorkerStep

(* Get's return counts what it returns. *)
LEMMA TypeGetReturn ==
  ASSUME TypeInv, NEW c \in Callers, GetReturn(c) PROVE TypeInv'
<1> DEFINE t == work[c].topic
<1>1. c \in Makers /\ t \in Topics
  BY WorkerTyped DEF GetReturn, Stage, Makers
<1>2. /\ work' = [work EXCEPT ![c] = Idle]
      /\ handed' = [handed EXCEPT ![t] =
           [i \in DOMAIN @ |-> IF i \in Range(work[c].docs) THEN @[i] + 1 ELSE @[i]]]
      /\ UNCHANGED <<log, garbled, committed, member, faults, from, again>>
      /\ UNCHANGED <<position, marked, current, chan, sent>>
  BY DEF GetReturn, broker, session, chans
<1>3. handed' \in [Topics -> [Offsets -> Nat]]
  <2>1. handed \in [Topics -> [Offsets -> Nat]]
    BY Leaves
  <2>2. handed[t] \in [Offsets -> Nat] /\ DOMAIN handed[t] = Offsets
    BY <1>1, <2>1
  <2>3. [i \in Offsets |-> IF i \in Range(work[c].docs) THEN handed[t][i] + 1 ELSE handed[t][i]]
          \in [Offsets -> Nat]
    BY <2>2
  <2> HIDE DEF t
  <2> QED BY <1>1, <1>2, <2>1, <2>2, <2>3
<1>4. Idle \in WorkStates /\ Idle.pc = "idle" /\ Idle.docs = << >>
  BY DEF Idle, WorkStates
<1>5. /\ work' \in [Makers -> WorkStates] /\ work'[c] = Idle
      /\ \A x \in Makers : x # c => work'[x] = work[x]
  BY <1>1, <1>2, <1>4, WorkerTyped
<1>6. Stage(c)'
  BY <1>4, <1>5 DEF Stage
<1>7. Range(work'[c].docs) = {}
  BY <1>4, <1>5, RangeEmpty
<1> QED BY <1>1, <1>2, <1>3, <1>4, <1>5, <1>6, <1>7, Leaves, WorkerStep

(* A new process has nothing but what the broker kept. *)
LEMMA TypeRestart == ASSUME TypeInv, Restart PROVE TypeInv'
<1>1. Types /\ WithinLog
  BY DEF TypeInv, TypeOK
<1>2. /\ UNCHANGED <<log, garbled, committed, position, marked, from, sent, again, handed>>
      /\ member' = "out" /\ faults' = faults + 1 /\ faults < MaxFaults
      /\ current' = [t \in Topics |-> NoChan]
      /\ chan' = [t \in Topics |-> [w \in Makers |-> << >>]]
      /\ work' = [w \in Makers |-> Idle]
  BY DEF Restart, broker, history
<1>3. faults' \in 0 .. MaxFaults
  BY <1>1, <1>2, KafkaCacheAssumption DEF Types
<1>4. Types'
  BY <1>1, <1>2, <1>3 DEF Types, Idle
<1>5. WithinLimit'
  BY <1>2, KafkaCacheAssumption DEF WithinLimit, Idle, Makers
<1>6. \A t \in Topics : /\ committed[t] \in Int /\ marked[t] \in Int /\ position[t] \in Int
                       /\ from[t] \in Int /\ log[t] \in Int
  BY <1>1 DEF Types, None
<1>7. WithinLog'
  BY <1>1, <1>2, <1>6, RangeEmpty DEF WithinLog, Idle
<1>8. \A w \in Makers : Stage(w)'
  BY <1>2 DEF Stage, Idle
<1> QED BY <1>4, <1>5, <1>7, <1>8 DEF TypeInv, TypeOK

(* Every step keeps types, bounds and stages. *)
LEMMA TypeNext == TypeInv /\ [Next]_vars => TypeInv'
<1> SUFFICES ASSUME TypeInv, [Next]_vars PROVE TypeInv'
  OBVIOUS
<1>1. CASE \/ \E t \in Topics : Put(t)
           \/ Subscribe \/ Join \/ CommitOffsets \/ Rebalance \/ Close
  BY <1>1, TypeGroup
<1>2. CASE handleConsumer
  BY <1>2, TypeReceive, TypeChannel, TypeSkip, TypeSend, TypeMark DEF handleConsumer, Makers
<1>3. CASE \E c \in Callers, t \in Topics : GetCall(c, t)
  BY <1>3, TypeGetCall
<1>4. CASE \E c \in Callers : Get(c)
  BY <1>4, TypeChannel, TypeGetReceive, TypeGetReturn DEF Get, Makers
<1>5. CASE Restart
  BY <1>5, TypeRestart
<1>6. CASE UNCHANGED vars
  BY <1>6 DEF vars, broker, session, chans, history, TypeInv, TypeOK, Types,
              WithinLimit, WithinLog, Stage
<1> QED BY <1>1, <1>2, <1>3, <1>4, <1>5, <1>6 DEF Next

(* No channel and no Get ever holds more than the limit, and everything    *)
(* that is read, sent, marked or committed is in its topic.                *)
THEOREM KafkaCacheTypeCorrect == Spec => []TypeOK
<1>1. TypeInv => TypeOK
  BY DEF TypeInv
<1> QED BY TypeInit, TypeNext, <1>1, PTL DEF Spec

-----------------------------------------------------------------------------
(* Nothing lies before the offset that the first process starts from. *)
LEMMA CommitInit == Init => CommitInv
<1> SUFFICES ASSUME Init, NEW t \in Topics
             PROVE  SentUpTo(t, committed[t]) /\ InHand(t) = {} /\ member # "joined"
  BY DEF CommitInv, FeederBehind
<1>1. from[t] = 0 /\ committed[t] \in {0, None} /\ member = "out"
  BY DEF Init
<1>2. SentUpTo(t, committed[t])
  BY <1>1 DEF SentUpTo, None
<1>3. Feeder \in Makers /\ work[Feeder].docs = << >>
  BY DEF Init, Idle, Makers
<1>4. InHand(t) = {}
  BY <1>3, RangeEmpty DEF InHand
<1> QED BY <1>1, <1>2, <1>4

(* The steps that send and read nothing: an offset that they commit was    *)
(* marked.                                                                 *)
LEMMA CommitQuiet ==
  ASSUME CommitInv, UNCHANGED <<garbled, from, sent, position, marked>>,
         \A t \in Topics : InHand(t)' \subseteq InHand(t),
         work'[Feeder].pc = "mark" => work[Feeder].pc = "mark",
         committed' = committed \/ (member = "joined" /\ committed' = Dirty),
         member' = "joined" =>
           member = "joined" /\ \A t \in Topics : InHand(t)' = InHand(t)
  PROVE  CommitInv'
<1> SUFFICES ASSUME NEW t \in Topics
             PROVE  /\ SentUpTo(t, committed[t])'
                    /\ FeederBehind(t)'
                    /\ member' = "joined" =>
                         /\ SentUpTo(t, marked[t])'
                         /\ \A i \in Nat : from[t] < i /\ i <= position[t] =>
                              i \in Passed(t) \cup InHand(t)'
  BY DEF CommitInv, Passed
<1>1. \A n : SentUpTo(t, n)' <=> SentUpTo(t, n)
  BY DEF SentUpTo, Passed
<1>2. SentUpTo(t, committed[t])'
  <2>1. committed'[t] = committed[t] \/ (member = "joined" /\ committed'[t] = marked[t])
    BY DEF Dirty
  <2> QED BY <1>1, <2>1 DEF CommitInv, SentUpTo, Passed
<1>3. FeederBehind(t)
  BY DEF CommitInv
<1>4. FeederBehind(t)'
  BY <1>3 DEF FeederBehind, SentUpTo, Passed
<1>5. ASSUME member' = "joined" PROVE SentUpTo(t, marked[t])'
  BY <1>5 DEF CommitInv, SentUpTo, Passed
<1> QED BY <1>2, <1>4, <1>5 DEF CommitInv

(* A member that joins reads on from a committed offset, behind which      *)
(* everything was sent, or, for want of one, from the end of the topic.    *)
LEMMA CommitJoin == ASSUME TypeInv, CommitInv, Join PROVE CommitInv'
<1> SUFFICES ASSUME NEW t \in Topics
             PROVE  /\ SentUpTo(t, committed[t])'
                    /\ FeederBehind(t)'
                    /\ SentUpTo(t, marked[t])'
                    /\ \A i \in Nat : from'[t] < i /\ i <= position'[t] => i \in Passed(t)
  <2>1. UNCHANGED <<sent, garbled>>
    BY DEF Join, JoinRecorded, broker
  <2> QED BY <2>1 DEF CommitInv, Passed
<1>1. UNCHANGED <<committed, garbled, sent, work>>
  BY DEF Join, JoinRecorded, broker
<1>l. PICK lost \in SUBSET Topics :
        /\ \A u \in Topics : committed[u] = None => u \in lost
        /\ position' = [u \in Topics |-> IF u \in lost THEN log[u] ELSE committed[u]]
        /\ marked' = [u \in Topics |-> IF u \in lost THEN None ELSE committed[u]]
        /\ from' = [u \in Topics |-> IF u \in lost THEN log[u] ELSE from[u]]
  BY Joined
<1>2. SentUpTo(t, committed[t]) /\ FeederBehind(t)
  BY DEF CommitInv
<1>3. /\ log[t] \in Nat /\ from[t] \in Nat /\ committed[t] \in Nat \cup {None}
      /\ committed[t] <= log[t]
  BY DEF TypeInv, TypeOK, Types, WithinLog
<1>4. InHand(t) \subseteq 1 .. log[t] /\ InHand(t)' = InHand(t)
  BY <1>1 DEF TypeInv, TypeOK, WithinLog, InHand, Makers
<1>5. CASE t \in lost
  <2>1. from'[t] = log[t] /\ position'[t] = log[t] /\ marked'[t] = -1 /\ committed'[t] <= log[t]
    BY <1>1, <1>3, <1>5, <1>l DEF None
  <2>2. SentUpTo(t, committed[t])' /\ SentUpTo(t, marked[t])'
    BY <1>1, <1>3, <2>1 DEF SentUpTo, None
  <2>3. \A i \in InHand(t) : SentUpTo(t, i - 1)'
    BY <1>3, <1>4, <2>1 DEF SentUpTo
  <2>4. FeederBehind(t)'
    BY <1>1, <1>2, <1>4, <2>3 DEF FeederBehind
  <2> QED BY <1>3, <2>1, <2>2, <2>4
<1>6. CASE t \notin lost
  <2>1. from'[t] = from[t] /\ position'[t] = committed[t] /\ marked'[t] = committed[t]
    BY <1>6, <1>l
  <2>2. \A n : SentUpTo(t, n)' <=> SentUpTo(t, n)
    BY <1>1, <2>1 DEF SentUpTo, Passed
  <2>3. SentUpTo(t, committed[t])' /\ SentUpTo(t, marked[t])'
    BY <1>1, <1>2, <2>1 DEF SentUpTo, Passed
  <2>4. FeederBehind(t)'
    BY <1>1, <1>2, <1>4, <2>2 DEF FeederBehind
  <2> QED BY <1>2, <2>1, <2>3, <2>4 DEF SentUpTo
<1> QED BY <1>5, <1>6

(* The feeder takes the next document once the ones before it are sent. *)
LEMMA CommitReceive ==
  ASSUME TypeInv, CommitInv, NEW u \in Topics, FeederReceive(u) PROVE CommitInv'
<1> SUFFICES ASSUME NEW t \in Topics
             PROVE  /\ SentUpTo(t, committed[t])'
                    /\ FeederBehind(t)'
                    /\ SentUpTo(t, marked[t])'
                    /\ \A i \in Nat : from'[t] < i /\ i <= position'[t] =>
                         i \in Passed(t)' \cup InHand(t)'
  BY DEF CommitInv
<1> DEFINE k == position[u] + 1
<1>1. /\ UNCHANGED <<garbled, committed, marked, from, sent>> /\ member = "joined"
      /\ position' = [position EXCEPT ![u] = k] /\ position'[u] = k
      /\ work[Feeder] = Idle /\ Feeder \in Makers
      /\ work'[Feeder] = Check(u, <<k>>)
      /\ position[t] \in Nat /\ position[u] \in Nat /\ from[t] \in Nat
  BY WorkerTyped DEF FeederReceive, broker, history, TypeInv, TypeOK, Types, Makers
<1>2. InHand(t) = {}
  BY <1>1, RangeEmpty DEF InHand, Idle
<1>3. /\ work'[Feeder].topic = u /\ work'[Feeder].docs = <<k>>
      /\ work'[Feeder].pc # "mark"
  BY <1>1 DEF Check
<1>4. InHand(t)' = IF t = u THEN {k} ELSE {}
  BY <1>3 DEF InHand, Range
<1>5. \A i \in Nat : from[t] < i /\ i <= position[t] => i \in Passed(t)
  BY <1>1, <1>2 DEF CommitInv
<1>6. SentUpTo(t, committed[t])' /\ SentUpTo(t, marked[t])'
  BY <1>1 DEF CommitInv, SentUpTo, Passed
<1>7. FeederBehind(t)'
  <2>1. ASSUME NEW i \in InHand(t)' PROVE SentUpTo(t, i - 1)'
    <3>1. t = u /\ i - 1 = position[t]
      BY <1>1, <1>4
    <3> QED BY <1>1, <1>5, <3>1 DEF SentUpTo, Passed
  <2> QED BY <1>3, <2>1 DEF FeederBehind
<1>8. ASSUME NEW i \in Nat, from'[t] < i, i <= position'[t]
      PROVE  i \in Passed(t)' \cup InHand(t)'
  <2>1. CASE t = u
    <3>1. i <= position[u] \/ i = k
      BY <1>1, <1>8, <2>1
    <3> QED BY <1>1, <1>4, <1>5, <1>8, <2>1, <3>1 DEF Passed
  <2>2. CASE t # u
    <3>1. position'[t] = position[t]
      BY <1>1, <2>2 DEF TypeInv, TypeOK, Types
    <3> QED BY <1>1, <1>5, <1>8, <3>1 DEF Passed
  <2> QED BY <2>1, <2>2
<1> QED BY <1>6, <1>7, <1>8

(* What the feeder has in its hand becomes sent. *)
LEMMA CommitSend == ASSUME TypeInv, CommitInv, Send PROVE CommitInv'
<1> SUFFICES ASSUME NEW t \in Topics
             PROVE  /\ SentUpTo(t, committed[t])'
                    /\ FeederBehind(t)'
                    /\ member' = "joined" =>
                         /\ SentUpTo(t, marked[t])'
                         /\ \A i \in Nat : from'[t] < i /\ i <= position'[t] =>
                              i \in Passed(t)' \cup InHand(t)'
  BY DEF CommitInv
<1>1. /\ UNCHANGED <<garbled, committed, marked, position, from, member>>
      /\ work[Feeder].topic \in Topics /\ work[Feeder].docs \in Seq(Nat)
      /\ work'[Feeder].topic = work[Feeder].topic
      /\ work'[Feeder].docs = work[Feeder].docs
      /\ sent' = [sent EXCEPT ![work[Feeder].topic] = @ \cup Range(work[Feeder].docs)]
  <2>1. Feeder \in Makers /\ work[Feeder].pc = "use" /\ work' = [work EXCEPT ![Feeder].pc = "mark"]
    BY DEF Send, Makers
  <2> QED BY <2>1, WorkerTyped DEF Send, broker, session, Stage, WorkStates
<1>2. InHand(t)' = InHand(t)
  BY <1>1 DEF InHand
<1>3. sent'[t] = sent[t] \cup InHand(t)
  BY <1>1 DEF InHand, TypeInv, TypeOK, Types
<1>4. \A n : SentUpTo(t, n) => SentUpTo(t, n)'
  BY <1>1, <1>3 DEF SentUpTo, Passed
<1>5. FeederBehind(t)'
  <2>1. \A i \in InHand(t) : SentUpTo(t, i - 1)'
    BY <1>4 DEF CommitInv, FeederBehind
  <2> QED BY <1>2, <1>3, <2>1 DEF FeederBehind
<1>6. SentUpTo(t, committed[t])'
  BY <1>1, <1>3 DEF CommitInv, SentUpTo, Passed
<1>7. member' = "joined" => SentUpTo(t, marked[t])'
  BY <1>1, <1>3 DEF CommitInv, SentUpTo, Passed
<1> QED BY <1>1, <1>2, <1>3, <1>5, <1>6, <1>7 DEF CommitInv, Passed

(* The feeder marks a document that is sent, as are those before it. *)
LEMMA CommitMark == ASSUME TypeInv, CommitInv, MarkOffset PROVE CommitInv'
<1> SUFFICES ASSUME NEW t \in Topics
             PROVE  /\ SentUpTo(t, committed[t])'
                    /\ FeederBehind(t)'
                    /\ member' = "joined" =>
                         /\ SentUpTo(t, marked[t])'
                         /\ \A i \in Nat : from'[t] < i /\ i <= position'[t] =>
                              i \in Passed(t)' \cup InHand(t)'
  BY DEF CommitInv
<1> DEFINE k == Head(work[Feeder].docs)
<1>1. /\ UNCHANGED <<garbled, committed, position, from, sent, member>>
      /\ work[Feeder].pc = "mark" /\ work[Feeder].topic \in Topics /\ Feeder \in Makers
      /\ work[Feeder].docs \in Seq(Nat) /\ Len(work[Feeder].docs) = 1
      /\ work'[Feeder] = Idle
      /\ marked' = IF member = "joined"
                   THEN [marked EXCEPT ![work[Feeder].topic] = Larger(@, k)] ELSE marked
  BY WorkerTyped DEF MarkOffset, broker, history, Stage, Makers
<1>2. Range(work[Feeder].docs) = {k} /\ k \in Nat
  BY <1>1, OneMore
<1>3. InHand(t)' = {}
  BY <1>1, RangeEmpty DEF InHand, Idle
<1>4. InHand(t) = IF work[Feeder].topic = t THEN {k} ELSE {}
  BY <1>2 DEF InHand
<1> HIDE DEF k
<1>5. InHand(t) \subseteq sent[t]
  BY <1>1 DEF CommitInv, FeederBehind
<1>6. SentUpTo(t, committed[t])'
  BY <1>1 DEF CommitInv, SentUpTo, Passed
<1>7. FeederBehind(t)'
  BY <1>3 DEF FeederBehind
<1>8. ASSUME member' = "joined" PROVE SentUpTo(t, marked[t])'
  <2>1. SentUpTo(t, marked[t]) /\ marked \in [Topics -> Nat \cup {None}]
    BY <1>1, <1>8, Leaves DEF CommitInv
  <2>2. CASE work[Feeder].topic = t
    <3>1. SentUpTo(t, k - 1) /\ k \in sent[t]
      BY <1>1, <1>4, <1>5, <2>2 DEF CommitInv, FeederBehind
    <3>2. marked'[t] \in {marked[t], k}
      BY <1>1, <2>1, <2>2 DEF Larger
    <3>3. SentUpTo(t, k)
      BY <1>2, <3>1 DEF SentUpTo, Passed
    <3> QED BY <1>1, <2>1, <3>2, <3>3 DEF SentUpTo, Passed
  <2>3. CASE work[Feeder].topic # t
    <3>1. marked'[t] = marked[t]
      BY <1>1, <2>1, <2>3
    <3> QED BY <1>1, <2>1, <3>1 DEF SentUpTo, Passed
  <2> QED BY <2>2, <2>3
<1> QED BY <1>1, <1>3, <1>5, <1>6, <1>7, <1>8 DEF CommitInv, Passed

(* A message that the feeder leaves out is no document. *)
LEMMA CommitSkip == ASSUME TypeInv, CommitInv, Skip PROVE CommitInv'
<1> SUFFICES ASSUME NEW t \in Topics
             PROVE  /\ SentUpTo(t, committed[t])'
                    /\ FeederBehind(t)'
                    /\ member' = "joined" =>
                         /\ SentUpTo(t, marked[t])'
                         /\ \A i \in Nat : from'[t] < i /\ i <= position'[t] =>
                              i \in Passed(t)' \cup InHand(t)'
  BY DEF CommitInv
<1>1. /\ UNCHANGED <<garbled, committed, position, marked, from, sent, member>>
      /\ work[Feeder].docs \in Seq(Nat) /\ Len(work[Feeder].docs) = 1
      /\ Range(work[Feeder].docs) \cap garbled[work[Feeder].topic] # {}
      /\ work'[Feeder] = Idle
  BY WorkerTyped DEF Skip, broker, session, history, Stage, Makers
<1>2. PICK k \in Nat : Range(work[Feeder].docs) = {k}
  BY <1>1, OneMore
<1>3. InHand(t)' = {}
  BY <1>1, RangeEmpty DEF InHand, Idle
<1>4. InHand(t) \subseteq garbled[t]
  BY <1>1, <1>2 DEF InHand
<1>5. SentUpTo(t, committed[t])' /\ (member' = "joined" => SentUpTo(t, marked[t])')
  BY <1>1 DEF CommitInv, SentUpTo, Passed
<1>6. FeederBehind(t)'
  BY <1>3 DEF FeederBehind
<1> QED BY <1>1, <1>3, <1>4, <1>5, <1>6 DEF CommitInv, Passed

(* The steps of the other goroutines leave the feeder's hand alone. *)
LEMMA FeederAlone ==
  ASSUME TypeInv,
         \/ \E w \in Makers : Create(w) \/ Lookup(w)
         \/ \E c \in Callers, t \in Topics : GetCall(c, t)
         \/ \E c \in Callers : GetReceive(c) \/ GetReturn(c)
  PROVE  /\ UNCHANGED <<log, garbled, committed, member, position, marked, from, sent, again>>
         /\ work'[Feeder].topic = work[Feeder].topic
         /\ work'[Feeder].docs = work[Feeder].docs
         /\ work'[Feeder].pc = "mark" <=> work[Feeder].pc = "mark"
<1>1. UNCHANGED <<log, garbled, committed, member, position, marked, from, sent, again>>
  BY DEF Create, Lookup, GetCall, GetReceive, GetReturn, broker, session, history
<1>2. work \in [Makers -> WorkStates] /\ Feeder \in Makers
      /\ \A c \in Callers : c \in Makers /\ c # Feeder
  BY WorkerTyped, KafkaCacheAssumption DEF Makers
<1>3. ASSUME NEW w \in Makers, Create(w) \/ Lookup(w)
      PROVE  /\ work'[Feeder].topic = work[Feeder].topic
             /\ work'[Feeder].docs = work[Feeder].docs
             /\ work'[Feeder].pc = "mark" <=> work[Feeder].pc = "mark"
  BY <1>2, <1>3 DEF Create, Lookup, WorkStates
<1>4. ASSUME NEW c \in Callers,
             (\E t \in Topics : GetCall(c, t)) \/ GetReceive(c) \/ GetReturn(c)
      PROVE  work'[Feeder] = work[Feeder]
  BY <1>2, <1>4 DEF GetCall, GetReceive, GetReturn
<1> QED BY <1>1, <1>3, <1>4

(* Every step keeps the invariant. *)
LEMMA CommitNext == TypeInv /\ CommitInv /\ [Next]_vars => CommitInv'
<1> SUFFICES ASSUME TypeInv, CommitInv, [Next]_vars PROVE CommitInv'
  OBVIOUS
<1>1. CASE \/ \E t \in Topics : Put(t)
           \/ Subscribe \/ CommitOffsets \/ Rebalance \/ Close \/ UNCHANGED vars
  <2>1. /\ UNCHANGED <<garbled, from, sent, position, marked, work>>
        /\ committed' = committed \/ (member = "joined" /\ committed' = Dirty)
        /\ member' = "joined" => member = "joined"
    BY <1>1 DEF Put, Subscribe, CommitOffsets, Rebalance, Close, Released,
                vars, broker, session, history
  <2>2. \A t \in Topics : InHand(t)' = InHand(t)
    BY <2>1 DEF InHand
  <2> QED BY <2>1, <2>2, CommitQuiet
<1>2. CASE \/ \E w \in Makers : Create(w) \/ Lookup(w)
           \/ \E c \in Callers, t \in Topics : GetCall(c, t)
           \/ \E c \in Callers : GetReceive(c) \/ GetReturn(c)
  <2>1. /\ UNCHANGED <<log, garbled, committed, member, position, marked, from, sent, again>>
        /\ work'[Feeder].topic = work[Feeder].topic
        /\ work'[Feeder].docs = work[Feeder].docs
        /\ work'[Feeder].pc = "mark" <=> work[Feeder].pc = "mark"
    BY <1>2, FeederAlone
  <2>2. \A t \in Topics : InHand(t)' = InHand(t)
    BY <2>1 DEF InHand
  <2> QED BY <2>1, <2>2, CommitQuiet
<1>3. CASE Restart
  <2>1. /\ UNCHANGED <<garbled, from, sent, position, marked, committed>> /\ member' = "out"
        /\ work'[Feeder] = Idle
    BY <1>3 DEF Restart, broker, history, Makers
  <2>2. work'[Feeder].pc = "idle" /\ \A t \in Topics : InHand(t)' = {}
    BY <2>1, RangeEmpty DEF InHand, Idle
  <2> QED BY <2>1, <2>2, CommitQuiet
<1>4. CASE Join \/ Skip \/ Send \/ MarkOffset \/ \E t \in Topics : FeederReceive(t)
  BY <1>4, CommitJoin, CommitSkip, CommitSend, CommitMark, CommitReceive
<1>5. Feeder \in Makers /\ Callers \subseteq Makers
  BY DEF Makers
<1> QED BY <1>1, <1>2, <1>3, <1>4, <1>5 DEF Next, handleConsumer, Get

(* A group's offset passes a document only after the document was put into *)
(* a channel, whatever rebalances, failing commits and deaths of the       *)
(* process come between receive, send, MarkOffset and commit.              *)
THEOREM CommittedOffsetsWereSent == Spec => []CommittedWasSent
<1>1. Init => TypeInv /\ CommitInv
  BY TypeInit, CommitInit
<1>2. TypeInv /\ CommitInv /\ [Next]_vars => (TypeInv /\ CommitInv)'
  BY TypeNext, CommitNext
<1>3. CommitInv => CommittedWasSent
  <2>1. Offsets \subseteq Nat
    BY KafkaCacheAssumption DEF Offsets
  <2> QED BY <2>1 DEF CommitInv, SentUpTo, Passed, CommittedWasSent
<1> QED BY <1>1, <1>2, <1>3, PTL DEF Spec

-----------------------------------------------------------------------------
(* The places of a topic one by one. *)
LEMMA HeldAt ==
  TypeInv => \A t \in Topics :
    /\ DOMAIN Held[t] = Places
    /\ \A w \in Makers :
         /\ Held[t][<<"chan", w>>] = chan[t][w]
         /\ Held[t][<<"got", w>>] = Got(t, w)
    /\ \A p \in Places : Held[t][p] \in Seq(Nat)
<1> SUFFICES ASSUME TypeInv, NEW t \in Topics
             PROVE  /\ DOMAIN Held[t] = Places
                    /\ \A w \in Makers :
                         /\ Held[t][<<"chan", w>>] = chan[t][w]
                         /\ Held[t][<<"got", w>>] = Got(t, w)
                    /\ \A p \in Places : Held[t][p] \in Seq(Nat)
  OBVIOUS
<1>1. DOMAIN Held[t] = Places
  BY DEF Held
<1>2. ASSUME NEW w \in Makers
      PROVE  Held[t][<<"chan", w>>] = chan[t][w] /\ Held[t][<<"got", w>>] = Got(t, w)
  BY DEF Held, Places
<1>3. ASSUME NEW p \in Places PROVE Held[t][p] \in Seq(Nat)
  <2>1. PICK w \in Makers : p = <<"chan", w>> \/ p = <<"got", w>>
    BY DEF Places
  <2>2. chan[t][w] \in Seq(Nat) /\ work[w].docs \in Seq(Nat) /\ << >> \in Seq(Nat)
    BY Leaves, WorkerTyped
  <2> QED BY <1>2, <2>1, <2>2 DEF Got
<1> QED BY <1>1, <1>2, <1>3

(* The same after a step. *)
LEMMA HeldAtNext ==
  (TypeInv => \A t \in Topics :
    /\ DOMAIN Held[t] = Places
    /\ \A w \in Makers :
         /\ Held[t][<<"chan", w>>] = chan[t][w]
         /\ Held[t][<<"got", w>>] = Got(t, w)
    /\ \A p \in Places : Held[t][p] \in Seq(Nat))'
BY HeldAt, PTL

(* A place keeps its documents if its channel, or its goroutine, does. *)
LEMMA HeldKept ==
  ASSUME NEW t \in Topics, NEW p \in Places,
         p[1] = "chan" => chan'[t][p[2]] = chan[t][p[2]],
         p[1] # "chan" => Got(t, p[2])' = Got(t, p[2])
  PROVE  Held'[t][p] = Held[t][p]
BY DEF Held, Got

(* A step that moves no document between places. *)
LEMMA SameHeld ==
  ASSUME chan' = chan,
         \A w \in Makers : w # Feeder =>
           /\ work'[w].docs = work[w].docs
           /\ work[w].docs = << >> \/ work'[w].topic = work[w].topic
  PROVE  Held' = Held
<1>1. ASSUME NEW t \in Topics, NEW p \in Places
      PROVE  (IF p[1] = "chan" THEN chan[t][p[2]] ELSE Got(t, p[2]))'
             = (IF p[1] = "chan" THEN chan[t][p[2]] ELSE Got(t, p[2]))
  <2>1. p[2] \in Makers
    BY DEF Places
  <2> QED BY <2>1 DEF Got
<1> QED BY <1>1 DEF Held

(* Then only the feeder's reading has to be looked at. *)
LEMMA TwiceQuiet ==
  ASSUME TwiceInv, Held' = Held, UNCHANGED <<sent, handed>>,
         \A t \in Topics : again[t] \subseteq again'[t] /\ Ahead(t)'
  PROVE  TwiceInv'
<1> SUFFICES ASSUME NEW t \in Topics PROVE Once(t)'
  BY DEF TwiceInv
<1>1. Once(t)
  BY DEF TwiceInv
<1>2. Apart(Held'[t], again'[t])
  BY <1>1, ApartWeaker DEF Once
<1> QED BY <1>1, <1>2 DEF Once

(* The steps of the group and of the callers leave the feeder where it is. *)
LEMMA AheadKept ==
  ASSUME TwiceInv, NEW t \in Topics, UNCHANGED <<sent, again, position>>,
         InHand(t)' = InHand(t), work'[Feeder].pc # "mark" => work[Feeder].pc # "mark",
         member' = "joined" => member = "joined"
  PROVE  Ahead(t)'
BY DEF TwiceInv, Ahead

(* No document has been read. *)
LEMMA TwiceInit == Init => TwiceInv
<1> SUFFICES ASSUME Init, NEW t \in Topics PROVE Once(t) /\ Ahead(t)
  BY DEF TwiceInv
<1>1. \A p \in Places : Held[t][p] = << >>
  <2> SUFFICES ASSUME NEW p \in Places PROVE Held[t][p] = << >>
    OBVIOUS
  <2>1. p[2] \in Makers
    BY DEF Places
  <2>2. work[p[2]].docs = << >> /\ chan[t][p[2]] = << >>
    BY <2>1 DEF Init, Idle
  <2> QED BY <2>2 DEF Held, Got
<1>2. DOMAIN Held[t] = Places
  BY DEF Held
<1>3. Apart(Held[t], again[t])
  BY <1>1, <1>2 DEF Apart
<1>4. \A i \in Offsets : handed[t][i] = 0
  BY DEF Init
<1>5. Once(t)
  BY <1>1, <1>3, <1>4, RangeEmpty DEF Once
<1>6. work[Feeder].docs = << >> /\ member = "out"
  BY DEF Init, Idle, Makers
<1>7. InHand(t) = {}
  BY <1>6, RangeEmpty DEF InHand
<1> QED BY <1>5, <1>6, <1>7 DEF Ahead

(* A join notes what is read again: all that was read and not committed. *)
LEMMA TwiceJoin == ASSUME TypeInv, TwiceInv, Join PROVE TwiceInv'
<1>1. /\ UNCHANGED <<chan, work, sent, handed>>
  BY DEF Join, JoinRecorded, chans
<1>2. Held' = Held
  BY <1>1, SameHeld
<1>3. ASSUME NEW t \in Topics PROVE again[t] \subseteq again'[t] /\ Ahead(t)'
  <2>1. /\ again'[t] = again[t] \cup {i \in sent[t] \cup InHand(t) : i > committed[t]}
        /\ position'[t] \in {log[t], committed[t]}
    BY Joined DEF Join, JoinRecorded
  <2>2. InHand(t)' = InHand(t)
    BY <1>1 DEF InHand
  <2>3. sent[t] \cup InHand(t) \subseteq 1 .. log[t] /\ log[t] \in Nat
    BY DEF TypeInv, TypeOK, Types, WithinLog, InHand, Makers
  <2>4. ASSUME NEW i \in sent[t] \cup InHand(t), i > position'[t] PROVE i \in again'[t]
    <3>1. i > committed[t]
      BY <2>1, <2>3, <2>4
    <3> QED BY <2>1, <3>1
  <2>5. Ahead(t)
    BY DEF TwiceInv
  <2> QED BY <1>1, <2>1, <2>2, <2>4, <2>5 DEF Ahead
<1> QED BY <1>1, <1>2, <1>3, TwiceQuiet

(* What the feeder reads next was not sent before, or it is read again. *)
LEMMA TwiceReceive ==
  ASSUME TypeInv, TwiceInv, NEW u \in Topics, FeederReceive(u) PROVE TwiceInv'
<1> DEFINE k == position[u] + 1
<1>1. /\ UNCHANGED <<chan, sent, handed, again>> /\ member = "joined"
      /\ position' = [position EXCEPT ![u] = k] /\ position'[u] = k
      /\ work[Feeder] = Idle /\ Feeder \in Makers
      /\ work'[Feeder] = Check(u, <<k>>)
      /\ \A w \in Makers : w # Feeder => work'[w] = work[w]
      /\ position \in [Topics -> Nat] /\ k \in Nat
  BY WorkerTyped DEF FeederReceive, chans, history, TypeInv, TypeOK, Types, Makers
<1>2. Held' = Held
  BY <1>1, SameHeld
<1>3. ASSUME NEW t \in Topics PROVE Ahead(t)'
  <2>1. work'[Feeder].topic = u /\ work'[Feeder].docs = <<k>>
    BY <1>1 DEF Check
  <2>2. InHand(t)' = IF t = u THEN {k} ELSE {}
    BY <2>1 DEF InHand, Range
  <2>3. \A i \in sent[t] : i > position[t] => i \in again[t]
    BY <1>1 DEF TwiceInv, Ahead
  <2>4. t = u => k > position[t]
    BY <1>1
  <2>5. InHand(t)' \cap sent[t] \subseteq again[t]
    BY <2>2, <2>3, <2>4
  <2>6. ASSUME NEW i \in sent[t] \cup InHand(t)', i > position'[t] PROVE i \in again[t]
    <3>1. sent[t] \subseteq Nat
      BY Leaves
    <3>2. CASE t = u
      <4>1. i \in sent[t] /\ i > position[t]
        BY <1>1, <2>2, <2>6, <3>1, <3>2
      <4> QED BY <2>3, <4>1
    <3>3. CASE t # u
      BY <1>1, <2>2, <2>3, <2>6, <3>3
    <3> QED BY <3>2, <3>3
  <2> QED BY <1>1, <2>5, <2>6 DEF Ahead
<1> QED BY <1>1, <1>2, <1>3, TwiceQuiet

(* MarkOffset, and leaving a message out, empty the feeder's hand. *)
LEMMA TwiceMark == ASSUME TypeInv, TwiceInv, MarkOffset \/ Skip PROVE TwiceInv'
<1>1. /\ UNCHANGED <<chan, sent, handed, again, position, member>>
      /\ work'[Feeder] = Idle /\ Feeder \in Makers
      /\ \A w \in Makers : w # Feeder => work'[w] = work[w]
  BY WorkerTyped DEF MarkOffset, Skip, session, chans, history, Makers
<1>2. Held' = Held
  BY <1>1, SameHeld
<1>3. ASSUME NEW t \in Topics PROVE Ahead(t)'
  <2>1. InHand(t)' = {}
    BY <1>1, RangeEmpty DEF InHand, Idle
  <2> QED BY <1>1, <2>1 DEF Ahead, TwiceInv
<1> QED BY <1>1, <1>2, <1>3, TwiceQuiet

(* The invariant for a topic, none of whose documents moved. *)
LEMMA OnceKept ==
  ASSUME TypeInv, TypeInv', TwiceInv, NEW t \in Topics,
         \A p \in Places : Held'[t][p] = Held[t][p],
         again'[t] = again[t], handed'[t] = handed[t], sent[t] \subseteq sent'[t]
  PROVE  Once(t)'
<1>1. Once(t) /\ DOMAIN Held[t] = Places /\ DOMAIN Held'[t] = Places
  BY HeldAt, HeldAtNext DEF TwiceInv
<1>2. Apart(Held'[t], again'[t])
  BY <1>1 DEF Apart, Once
<1> QED BY <1>1, <1>2 DEF Once

(* The feeder sends a document that is in no place yet, or is read again.  *)
LEMMA TwiceSend == ASSUME TypeInv, TypeInv', TwiceInv, Send PROVE TwiceInv'
<1>1. /\ Feeder \in Makers /\ work[Feeder].pc = "use" /\ work[Feeder].topic \in Topics
      /\ work[Feeder].chan \in Makers
      /\ work[Feeder].docs \in Seq(Nat) /\ Len(work[Feeder].docs) = 1
      /\ work \in [Makers -> WorkStates] /\ work[Feeder] \in WorkStates
      /\ chan \in [Topics -> [Makers -> Seq(Nat)]]
  BY WorkerTyped, Leaves DEF Send, Stage, Makers
<1>2. PICK u \in Topics, m \in Makers, d \in Nat :
        /\ work[Feeder].topic = u /\ work[Feeder].chan = m
        /\ Range(work[Feeder].docs) = {d}
        /\ chan[u][m] \o work[Feeder].docs = Append(chan[u][m], d)
  <2>1. \A x, y \in Seq(Nat) : Len(y) = 1 =>
          Head(y) \in Nat /\ Range(y) = {Head(y)} /\ x \o y = Append(x, Head(y))
    BY OneMore
  <2>2. chan[work[Feeder].topic][work[Feeder].chan] \in Seq(Nat)
    BY <1>1
  <2> QED BY <1>1, <2>1, <2>2
<1>3. /\ chan' = [chan EXCEPT ![u][m] = Append(chan[u][m], d)]
      /\ work' = [work EXCEPT ![Feeder].pc = "mark"]
      /\ sent' = [sent EXCEPT ![u] = @ \cup {d}]
      /\ UNCHANGED <<member, position, again, handed>>
  BY <1>2 DEF Send, session
<1>4. /\ chan'[u][m] = Append(chan[u][m], d)
      /\ \A t \in Topics, w \in Makers : t # u \/ w # m => chan'[t][w] = chan[t][w]
  BY <1>1, <1>3
<1>5. /\ work'[Feeder].topic = u /\ work'[Feeder].docs = work[Feeder].docs
      /\ work'[Feeder].pc = "mark"
      /\ \A w \in Makers : w # Feeder => work'[w] = work[w]
  BY <1>1, <1>2, <1>3 DEF WorkStates
<1>6. ASSUME NEW t \in Topics
      PROVE  InHand(t)' = InHand(t) /\ InHand(t) = IF t = u THEN {d} ELSE {}
  BY <1>2, <1>5 DEF InHand
<1>7. \A t \in Topics : sent'[t] = sent[t] \cup InHand(t)
  BY <1>3, <1>6, Leaves
<1> DEFINE p == <<"chan", m>>
<1>8. p \in Places /\ Held[u][p] \in Seq(Nat) /\ Held'[u][p] = Append(Held[u][p], d)
  <2>1. p \in Places
    BY DEF Places
  <2> QED BY <1>4, <2>1, HeldAt, HeldAtNext
<1>9. ASSUME NEW t \in Topics, NEW q \in Places, t # u \/ q # p
      PROVE  Held'[t][q] = Held[t][q]
  <2>1. q[2] \in Makers /\ (q[1] = "chan" => q = <<"chan", q[2]>>)
    BY DEF Places
  <2>2. q[1] = "chan" => chan'[t][q[2]] = chan[t][q[2]]
    BY <1>4, <1>9, <2>1
  <2>3. Got(t, q[2])' = Got(t, q[2])
    BY <1>5, <2>1 DEF Got
  <2> QED BY <2>2, <2>3, HeldKept
<1> HIDE DEF p
<1>10. ASSUME NEW t \in Topics PROVE Ahead(t)'
  BY <1>3, <1>5, <1>6, <1>7 DEF Ahead, TwiceInv
<1>11. ASSUME NEW t \in Topics, t # u PROVE Once(t)'
  BY <1>3, <1>7, <1>9, <1>11, OnceKept
<1>12. Once(u)'
  <2>1. /\ Once(u) /\ Ahead(u) /\ again'[u] = again[u] /\ handed'[u] = handed[u]
        /\ sent'[u] = sent[u] \cup {d} /\ work[Feeder].pc # "mark"
    BY <1>1, <1>3, <1>6, <1>7 DEF TwiceInv
  <2>2. d \in sent[u] => d \in again[u]
    BY <1>6, <2>1 DEF Ahead
  <2>3. d \in again[u] \/ \A q \in Places : d \notin Range(Held[u][q])
    BY <2>1, <2>2 DEF Once
  <2>4. DOMAIN Held[u] = Places /\ DOMAIN Held'[u] = Places
    BY HeldAt, HeldAtNext
  <2>5. Elsewhere(Held[u], Held'[u], p, p)
    BY <1>8, <1>9, <2>4 DEF Elsewhere
  <2>6. Apart(Held'[u], again[u])
    BY <1>8, <2>1, <2>3, <2>4, <2>5, ApartSubmit DEF Once
  <2>7. Range(Held'[u][p]) = Range(Held[u][p]) \cup {d}
    BY <1>8, RangeAppend
  <2>8. d \notin again[u] => (d \in Offsets => handed[u][d] = 0)
    <3>1. d \in Offsets => handed[u][d] \in Nat
      BY Leaves
    <3> QED BY <2>1, <2>2, <3>1 DEF Once
  <2>9. ASSUME NEW q \in Places, NEW i \in Range(Held'[u][q]) \ again[u]
        PROVE  i \in sent'[u] /\ (i \in Offsets => handed[u][i] = 0)
    <3>1. i = d \/ i \in Range(Held[u][q])
      BY <1>9, <2>7, <2>9
    <3> QED BY <2>1, <2>8, <2>9, <3>1 DEF Once
  <2> QED BY <2>1, <2>6, <2>9 DEF Once
<1> QED BY <1>10, <1>11, <1>12 DEF TwiceInv

(* Get's loop moves a document from the channel into what it will return. *)
LEMMA TwiceGetReceive ==
  ASSUME TypeInv, TypeInv', TwiceInv, NEW c \in Callers, GetReceive(c)
  PROVE  TwiceInv'
<1>1. /\ c \in Makers /\ c # Feeder /\ work[c].topic \in Topics /\ work[c].chan \in Makers
      /\ work \in [Makers -> WorkStates] /\ work[c] \in WorkStates
      /\ chan \in [Topics -> [Makers -> Seq(Nat)]]
  BY WorkerTyped, Leaves, KafkaCacheAssumption DEF GetReceive, Stage, Makers
<1>2. PICK u \in Topics, m \in Makers : work[c].topic = u /\ work[c].chan = m
  BY <1>1
<1>3. /\ chan' = [chan EXCEPT ![u][m] = Tail(@)] /\ chan[u][m] # << >>
      /\ work' = [work EXCEPT ![c].docs = Append(@, Head(chan[u][m]))]
      /\ UNCHANGED <<member, position, again, handed, sent>>
  BY <1>2 DEF GetReceive, Buffer, session, history
<1>4. /\ work'[c].topic = u /\ work'[c].docs = Append(work[c].docs, Head(chan[u][m]))
      /\ \A w \in Makers : w # c => work'[w] = work[w]
  BY <1>1, <1>2, <1>3 DEF WorkStates
<1>5. /\ chan'[u][m] = Tail(chan[u][m])
      /\ \A t \in Topics, w \in Makers : t # u \/ w # m => chan'[t][w] = chan[t][w]
  BY <1>1, <1>3
<1> DEFINE p == <<"chan", m>>
           q == <<"got", c>>
<1>6. /\ p \in Places /\ q \in Places /\ p # q
      /\ Held[u][p] \in Seq(Nat) /\ Held[u][q] \in Seq(Nat) /\ Held[u][p] # << >>
      /\ Held'[u][p] = Tail(Held[u][p])
      /\ Held'[u][q] = Append(Held[u][q], Head(Held[u][p]))
  <2>1. p \in Places /\ q \in Places /\ p # q
    BY <1>1 DEF Places
  <2>2. Got(u, c) = work[c].docs /\ Got(u, c)' = work'[c].docs
    BY <1>1, <1>2, <1>4 DEF Got
  <2>3. Held[u][p] = chan[u][m] /\ Held[u][q] = Got(u, c)
    BY <1>1, HeldAt
  <2>4. Held'[u][p] = chan'[u][m] /\ Held'[u][q] = Got(u, c)'
    BY <1>1, HeldAtNext
  <2>5. Held[u][p] \in Seq(Nat) /\ Held[u][q] \in Seq(Nat)
    BY <2>1, HeldAt
  <2> QED BY <1>3, <1>4, <1>5, <2>1, <2>2, <2>3, <2>4, <2>5
<1>7. ASSUME NEW t \in Topics, NEW r \in Places, t # u \/ (r # p /\ r # q)
      PROVE  Held'[t][r] = Held[t][r]
  <2>1. /\ r[2] \in Makers /\ (r[1] = "chan" => r = <<"chan", r[2]>>)
        /\ (r[1] # "chan" => r = <<"got", r[2]>>)
    BY DEF Places
  <2>2. r[1] = "chan" => chan'[t][r[2]] = chan[t][r[2]]
    BY <1>5, <1>7, <2>1
  <2>3. ASSUME r[1] # "chan" PROVE Got(t, r[2])' = Got(t, r[2])
    <3>1. CASE r[2] = c
      <4>1. t # u
        BY <1>7, <2>1, <2>3, <3>1
      <4> QED BY <1>2, <1>4, <3>1, <4>1 DEF Got
    <3>2. CASE r[2] # c
      BY <1>4, <2>1, <3>2 DEF Got
    <3> QED BY <3>1, <3>2
  <2> QED BY <2>2, <2>3, HeldKept
<1>8. work'[Feeder] = work[Feeder] /\ \A t \in Topics : InHand(t)' = InHand(t)
  BY <1>1, <1>4 DEF InHand, Makers
<1> HIDE DEF p, q
<1>9. ASSUME NEW t \in Topics PROVE Ahead(t)'
  BY <1>3, <1>8, AheadKept
<1>10. ASSUME NEW t \in Topics, t # u PROVE Once(t)'
  BY <1>3, <1>7, <1>10, OnceKept
<1>11. Once(u)'
  <2>1. Once(u) /\ DOMAIN Held[u] = Places /\ DOMAIN Held'[u] = Places
    BY HeldAt, HeldAtNext DEF TwiceInv
  <2>2. Elsewhere(Held[u], Held'[u], p, q)
    BY <1>6, <1>7, <2>1 DEF Elsewhere
  <2>3. Apart(Held'[u], again[u])
    BY <1>6, <2>1, <2>2, ApartForward DEF Once
  <2>4. /\ Range(Held[u][p]) = {Head(Held[u][p])} \cup Range(Held'[u][p])
        /\ Range(Held'[u][q]) = Range(Held[u][q]) \cup {Head(Held[u][p])}
    <3>1. Head(Held[u][p]) \in Nat
      BY <1>6
    <3> QED BY <1>6, <3>1, RangeHeadTail, RangeAppend
  <2>5. ASSUME NEW r \in Places, NEW i \in Range(Held'[u][r])
        PROVE  \E s \in Places : i \in Range(Held[u][s])
    BY <1>6, <1>7, <2>4
  <2>6. \A r \in Places : \A i \in Range(Held'[u][r]) \ again[u] :
          i \in sent[u] /\ (i \in Offsets => handed[u][i] = 0)
    BY <2>1, <2>5 DEF Once
  <2> QED BY <1>3, <2>1, <2>3, <2>6 DEF Once
<1> QED BY <1>9, <1>10, <1>11 DEF TwiceInv

(* Get returns its documents and keeps none. *)
LEMMA TwiceGetReturn ==
  ASSUME TypeInv, TypeInv', TwiceInv, NEW c \in Callers, GetReturn(c)
  PROVE  TwiceInv'
<1>1. /\ c \in Makers /\ c # Feeder /\ work[c].topic \in Topics
      /\ work \in [Makers -> WorkStates]
      /\ handed \in [Topics -> [Offsets -> Nat]]
  BY WorkerTyped, Leaves, KafkaCacheAssumption DEF GetReturn, Stage, Makers
<1>2. PICK u \in Topics : work[c].topic = u
  BY <1>1
<1>3. /\ handed' = [handed EXCEPT ![u] =
           [i \in DOMAIN @ |-> IF i \in Range(work[c].docs) THEN @[i] + 1 ELSE @[i]]]
      /\ work' = [work EXCEPT ![c] = Idle]
      /\ UNCHANGED <<chan, member, position, again, sent>>
  BY <1>2 DEF GetReturn, session, chans
<1>4. work'[c].docs = << >> /\ \A w \in Makers : w # c => work'[w] = work[w]
  BY <1>1, <1>3 DEF Idle
<1> DEFINE q == <<"got", c>>
<1>5. q \in Places /\ Held[u][q] = work[c].docs /\ Held'[u][q] = << >>
  <2>1. q \in Places
    BY <1>1 DEF Places
  <2>2. Got(u, c) = work[c].docs /\ Got(u, c)' = << >>
    BY <1>1, <1>2, <1>4 DEF Got
  <2> QED BY <1>1, <2>1, <2>2, HeldAt, HeldAtNext
<1>6. ASSUME NEW t \in Topics, NEW r \in Places, t # u \/ r # q
      PROVE  Held'[t][r] = Held[t][r]
  <2>1. r[2] \in Makers /\ (r[1] # "chan" => r = <<"got", r[2]>>)
    BY DEF Places
  <2>2. ASSUME r[1] # "chan" PROVE Got(t, r[2])' = Got(t, r[2])
    <3>1. CASE r[2] = c
      <4>1. t # u
        BY <1>6, <2>1, <2>2, <3>1
      <4> QED BY <1>2, <1>4, <3>1, <4>1 DEF Got
    <3>2. CASE r[2] # c
      BY <1>4, <2>1, <3>2 DEF Got
    <3> QED BY <3>1, <3>2
  <2> QED BY <1>3, <2>2, HeldKept
<1>7. work'[Feeder] = work[Feeder] /\ \A t \in Topics : InHand(t)' = InHand(t)
  BY <1>1, <1>4 DEF InHand, Makers
<1>8. /\ \A t \in Topics : t # u => handed'[t] = handed[t]
      /\ \A i \in Offsets : handed'[u][i] = IF i \in Range(Held[u][q])
                                            THEN handed[u][i] + 1 ELSE handed[u][i]
  BY <1>1, <1>3, <1>5
<1> HIDE DEF q
<1>9. ASSUME NEW t \in Topics PROVE Ahead(t)'
  BY <1>3, <1>7, AheadKept
<1>10. ASSUME NEW t \in Topics, t # u PROVE Once(t)'
  BY <1>3, <1>6, <1>8, <1>10, OnceKept
<1>11. Once(u)'
  <2>1. Once(u) /\ DOMAIN Held[u] = Places /\ DOMAIN Held'[u] = Places
    BY HeldAt, HeldAtNext DEF TwiceInv
  <2>2. Elsewhere(Held[u], Held'[u], q, q)
    BY <1>5, <1>6, <2>1 DEF Elsewhere
  <2>3. Apart(Held'[u], again[u])
    BY <1>5, <2>1, <2>2, SingleEmpty, RangeEmpty, ApartReplace DEF Once
  <2>4. ASSUME NEW r \in Places, NEW i \in Range(Held'[u][r]) \ again[u]
        PROVE  i \in sent[u] /\ (i \in Offsets => handed'[u][i] = 0)
    <3>1. r # q
      BY <1>5, <2>4, RangeEmpty
    <3>2. Held'[u][r] = Held[u][r]
      BY <1>6, <3>1
    <3>3. Range(Held[u][r]) \cap Range(Held[u][q]) \subseteq again[u]
      BY <1>5, <2>1, <3>1, ApartParts DEF Once
    <3>4. i \notin Range(Held[u][q])
      BY <2>4, <3>2, <3>3
    <3> QED BY <1>8, <2>1, <2>4, <3>2, <3>4 DEF Once
  <2>5. ASSUME NEW i \in Offsets \ again[u]
        PROVE  handed'[u][i] <= 1 /\ (handed'[u][i] > 0 => i \in sent[u])
    <3>1. CASE i \in Range(Held[u][q])
      BY <1>5, <1>8, <2>1, <3>1 DEF Once
    <3>2. CASE i \notin Range(Held[u][q])
      BY <1>8, <2>1, <3>2 DEF Once
    <3> QED BY <3>1, <3>2
  <2> QED BY <1>3, <2>3, <2>4, <2>5 DEF Once
<1> QED BY <1>9, <1>10, <1>11 DEF TwiceInv

(* A new process holds nothing. *)
LEMMA TwiceRestart == ASSUME TypeInv, TwiceInv, Restart PROVE TwiceInv'
<1> SUFFICES ASSUME NEW t \in Topics PROVE Once(t)' /\ Ahead(t)'
  BY DEF TwiceInv
<1>1. /\ UNCHANGED <<sent, again, handed>> /\ member' = "out"
      /\ chan' = [x \in Topics |-> [w \in Makers |-> << >>]]
      /\ work' = [w \in Makers |-> Idle]
  BY DEF Restart, history
<1>2. ASSUME NEW p \in Places PROVE Held'[t][p] = << >>
  <2>1. p[2] \in Makers
    BY DEF Places
  <2>2. chan'[t][p[2]] = << >> /\ work'[p[2]].docs = << >>
    BY <1>1, <2>1 DEF Idle
  <2> QED BY <2>2 DEF Held, Got
<1>3. DOMAIN Held'[t] = Places
  BY DEF Held
<1>4. Apart(Held'[t], again'[t])
  BY <1>2, <1>3 DEF Apart
<1>5. Once(t)
  BY DEF TwiceInv
<1>6. Once(t)'
  BY <1>1, <1>2, <1>4, <1>5, RangeEmpty DEF Once
<1>7. work'[Feeder].docs = << >>
  BY <1>1 DEF Idle, Makers
<1>8. InHand(t)' = {}
  BY <1>7, RangeEmpty DEF InHand
<1> QED BY <1>1, <1>6, <1>8 DEF Ahead

(* Every step keeps the invariant. *)
LEMMA TwiceNext == TypeInv /\ TypeInv' /\ TwiceInv /\ [Next]_vars => TwiceInv'
<1> SUFFICES ASSUME TypeInv, TypeInv', TwiceInv, [Next]_vars PROVE TwiceInv'
  OBVIOUS
<1>1. CASE \/ \E t \in Topics : Put(t)
           \/ Subscribe \/ CommitOffsets \/ Rebalance \/ Close \/ UNCHANGED vars
  <2>1. /\ UNCHANGED <<sent, again, handed, position, chan, work>>
        /\ member' = "joined" => member = "joined"
    BY <1>1 DEF Put, Subscribe, CommitOffsets, Rebalance, Close,
                vars, session, chans, history
  <2>2. Held' = Held
    BY <2>1, SameHeld
  <2>3. \A t \in Topics : InHand(t)' = InHand(t)
    BY <2>1 DEF InHand
  <2> QED BY <2>1, <2>2, <2>3, AheadKept, TwiceQuiet
<1>2. CASE \/ \E w \in Makers : Create(w) \/ Lookup(w)
           \/ \E c \in Callers, t \in Topics : GetCall(c, t)
  <2>1. /\ UNCHANGED <<log, garbled, committed, member, position, marked, from, sent, again>>
        /\ work'[Feeder].topic = work[Feeder].topic
        /\ work'[Feeder].docs = work[Feeder].docs
        /\ work'[Feeder].pc = "mark" <=> work[Feeder].pc = "mark"
    BY <1>2, FeederAlone
  <2>2. chan' = chan /\ handed' = handed
    BY <1>2 DEF Create, Lookup, GetCall, chans, history
  <2>3. ASSUME NEW w \in Makers
        PROVE  /\ work'[w].docs = work[w].docs
               /\ work[w].docs = << >> \/ work'[w].topic = work[w].topic
    <3>1. work \in [Makers -> WorkStates] /\ Callers \subseteq Makers
      BY WorkerTyped DEF Makers
    <3>2. ASSUME NEW v \in Makers, Create(v) \/ Lookup(v)
          PROVE  work'[w].docs = work[w].docs /\ work'[w].topic = work[w].topic
      <4>1. CASE w = v
        BY <3>1, <3>2, <4>1 DEF Create, Lookup, WorkStates
      <4>2. CASE w # v
        BY <3>1, <3>2, <4>2 DEF Create, Lookup
      <4> QED BY <4>1, <4>2
    <3>3. ASSUME NEW c \in Callers, NEW t \in Topics, GetCall(c, t)
          PROVE  /\ work'[w].docs = work[w].docs
                 /\ work[w].docs = << >> \/ work'[w].topic = work[w].topic
      BY <3>1, <3>3 DEF GetCall, Check, Idle
    <3> QED BY <1>2, <3>2, <3>3
  <2>4. Held' = Held
    BY <2>2, <2>3, SameHeld
  <2>5. \A t \in Topics : InHand(t)' = InHand(t)
    BY <2>1 DEF InHand
  <2> QED BY <2>1, <2>2, <2>4, <2>5, AheadKept, TwiceQuiet
<1>3. CASE \E c \in Callers : GetReceive(c) \/ GetReturn(c)
  BY <1>3, TwiceGetReceive, TwiceGetReturn
<1>4. CASE \/ Join \/ Skip \/ Send \/ MarkOffset \/ Restart
           \/ \E t \in Topics : FeederReceive(t)
  BY <1>4, TwiceJoin, TwiceSend, TwiceMark, TwiceRestart, TwiceReceive
<1>5. Feeder \in Makers /\ Callers \subseteq Makers
  BY DEF Makers
<1> QED BY <1>1, <1>2, <1>3, <1>4, <1>5 DEF Next, handleConsumer, Get

(* Get returns a document a second time only if the group joined when the  *)
(* document had been read and its offset not committed; channels that      *)
(* replace each other and concurrent callers duplicate nothing.            *)
THEOREM TwiceOnlyAfterJoin == Spec => []TwiceOnlyIfUncommitted
<1>1. Init => TypeInv /\ TwiceInv
  BY TypeInit, TwiceInit
<1>2. TypeInv /\ TwiceInv /\ [Next]_vars => (TypeInv /\ TwiceInv)'
  BY TypeNext, TwiceNext
<1>3. TypeInv /\ TwiceInv => TwiceOnlyIfUncommitted
  <2> SUFFICES ASSUME TypeInv, TwiceInv, NEW t \in Topics, NEW i \in Offsets,
                      handed[t][i] > 1
               PROVE  i \in again[t]
    BY DEF TwiceOnlyIfUncommitted
  <2>1. handed[t][i] \in Nat
    BY Leaves
  <2> QED BY <2>1 DEF TwiceInv, Once
<1> QED BY <1>1, <1>2, <1>3, PTL DEF Spec
=============================================================================
