-------------------------- MODULE BalanceProofs --------------------------
(***************************************************************************)
(* The balancer's load is even, and an undisturbed execute misses no peer, *)
(* for any number of peers and of concurrent executes.                     *)
(***************************************************************************)
EXTENDS Balance, FiniteSetTheorems, TLAPS

N == Cardinality(Peers)

Stages == {"idle", "loop", "connected", "failed"}

(* The ring holds every peer once. *)
RingOK ==
  /\ ring \in [1 .. N -> Peers]
  /\ \A i, j \in 1 .. N : ring[i] = ring[j] => i = j
  /\ \A p \in Peers : \E i \in 1 .. N : ring[i] = p

(* From the ring's position on, the peers are sorted by how often they were*)
(* chosen, and the counts differ by one at most.                           *)
Spread ==
  /\ chosen \in [Peers -> Nat]
  /\ \A i, j \in 1 .. N : i <= j =>
       /\ chosen[ring[i]] <= chosen[ring[j]]
       /\ chosen[ring[j]] <= chosen[ring[1]] + 1

(* An undisturbed loop with k failed dials has the last k peers of the ring*)
(* behind it, and none of them is up.                                      *)
LoopOK(c) ==
  exec[c].pc = "loop" =>
    /\ exec[c].tries \in Nat
    /\ exec[c].tries < N
    /\ c \in alone => \A i \in 1 .. N : i > N - exec[c].tries => ring[i] \notin up

ExecOK ==
  /\ up \subseteq Peers
  /\ exec \in [Callers -> [pc : Stages, tries : Nat]]
  /\ \A c \in Callers : LoopOK(c)
  /\ ConnectsIfAlone

BalanceInv == RingOK /\ Spread /\ ExecOK

(* There is a peer. *)
LEMMA PeersCount == N \in Nat /\ N >= 1
<1>1. N \in Nat
  BY BalanceAssumption, FS_CardinalityType DEF N
<1>2. N # 0
  BY BalanceAssumption, FS_EmptySet DEF N
<1> QED BY <1>1, <1>2

(* newRoundRobin puts every peer into the ring once. *)
LEMMA RingMade == newRoundRobin \in [1 .. N -> Peers]
              /\ (\A i, j \in 1 .. N : newRoundRobin[i] = newRoundRobin[j] => i = j)
              /\ (\A p \in Peers : \E i \in 1 .. N : newRoundRobin[i] = p)
<1>1. PICK g \in [1 .. N -> Peers] :
        /\ \A i, j \in 1 .. N : g[i] = g[j] => i = j
        /\ \A p \in Peers : \E i \in 1 .. N : g[i] = p
  <2>1. ExistsBijection(1 .. N, Peers)
    BY BalanceAssumption, FS_CardinalityType DEF N
  <2> QED BY <2>1 DEF ExistsBijection, Bijection, Injection, IsInjective, Surjection
<1>2. IsInjective(g)
  BY <1>1 DEF IsInjective
<1> DEFINE r == newRoundRobin
<1>3. r \in [1 .. N -> Peers] /\ IsInjective(r)
  BY <1>1, <1>2 DEF newRoundRobin, SetToSeq, N
<1> HIDE DEF r
<1>4. \A i, j \in 1 .. N : r[i] = r[j] => i = j
  BY <1>3 DEF IsInjective
<1>5. IsFiniteSet(1 .. N) /\ Cardinality(1 .. N) = N
  BY PeersCount, FS_Interval
<1>6. r \in Injection(1 .. N, Peers)
  BY <1>3, <1>4 DEF Injection
<1>7. r \in Surjection(1 .. N, Peers)
  BY <1>5, <1>6, FS_Injection, BalanceAssumption DEF N
<1>8. \A p \in Peers : \E i \in 1 .. N : r[i] = p
  BY <1>7 DEF Surjection
<1> QED BY <1>3, <1>4, <1>8 DEF r

(* The ring moves on by one: every peer comes one place nearer, and the    *)
(* first one becomes the last.                                             *)
LEMMA RingMoves ==
  ASSUME NEW r \in [1 .. N -> Peers]
  PROVE  /\ r \in Seq(Peers) /\ Len(r) = N /\ Head(r) = r[1]
         /\ RingNext(r) \in [1 .. N -> Peers]
         /\ \A i \in 1 .. N : RingNext(r)[i] = IF i < N THEN r[i + 1] ELSE r[1]
<1>1. r \in Seq(Peers) /\ Len(r) = N
  BY PeersCount
<1>2. Head(r) = r[1]
  BY <1>1, PeersCount
<1>3. Tail(r) \in Seq(Peers) /\ Len(Tail(r)) = N - 1
      /\ \A i \in 1 .. (N - 1) : Tail(r)[i] = r[i + 1]
  BY <1>1, PeersCount
<1>4. r[1] \in Peers
  BY PeersCount
<1>5. RingNext(r) \in Seq(Peers) /\ Len(RingNext(r)) = N
      /\ \A i \in 1 .. N : RingNext(r)[i] = IF i < N THEN r[i + 1] ELSE r[1]
  BY <1>2, <1>3, <1>4, PeersCount DEF RingNext
<1>6. RingNext(r) \in [1 .. N -> Peers]
  BY <1>5, PeersCount
<1> QED BY <1>1, <1>2, <1>5, <1>6

(* The service starts with nothing chosen and nobody in execute. *)
LEMMA BalanceInit == Init => BalanceInv
<1> SUFFICES ASSUME Init PROVE BalanceInv
  OBVIOUS
<1>1. RingOK
  BY RingMade DEF Init, RingOK
<1>2. Spread
  <2>1. chosen = [p \in Peers |-> 0] /\ chosen \in [Peers -> Nat]
    BY DEF Init
  <2>2. \A i \in 1 .. N : ring[i] \in Peers
    BY <1>1 DEF RingOK
  <2>3. 1 \in 1 .. N
    BY PeersCount
  <2>4. \A i \in 1 .. N : chosen[ring[i]] = 0
    BY <2>1, <2>2
  <2> QED BY <2>1, <2>3, <2>4 DEF Spread
<1>3. ExecOK
  BY DEF Init, ExecOK, LoopOK, ConnectsIfAlone, Ended, Stages
<1> QED BY <1>1, <1>2, <1>3 DEF BalanceInv

(* A call of execute enters the loop with no peer behind it. *)
LEMMA CallKeeps ==
  ASSUME BalanceInv, NEW c \in Callers, Call(c) PROVE BalanceInv'
<1>1. RingOK' /\ Spread'
  BY DEF BalanceInv, Call, RingOK, Spread
<1>2. /\ exec' = [exec EXCEPT ![c] = [pc |-> "loop", tries |-> 0]]
      /\ alone' = alone \cup {c}
      /\ UNCHANGED <<up, ring>>
  BY DEF Call, Looping
<1>3. /\ up' \subseteq Peers
      /\ exec' \in [Callers -> [pc : Stages, tries : Nat]]
  BY <1>2 DEF BalanceInv, ExecOK, Stages
<1>4. ASSUME NEW x \in Callers PROVE LoopOK(x)'
  <2>1. CASE x = c
    <3>1. exec'[x] = [pc |-> "loop", tries |-> 0]
      BY <1>2, <2>1 DEF BalanceInv, ExecOK
    <3> QED BY <3>1, PeersCount DEF LoopOK
  <2>2. CASE x # c
    <3>1. exec'[x] = exec[x] /\ (x \in alone' <=> x \in alone)
      BY <1>2, <2>2 DEF BalanceInv, ExecOK
    <3> QED BY <1>2, <3>1 DEF LoopOK, BalanceInv, ExecOK
  <2> QED BY <2>1, <2>2
<1>5. ConnectsIfAlone'
  BY <1>2 DEF ConnectsIfAlone, BalanceInv, ExecOK
<1> QED BY <1>1, <1>3, <1>4, <1>5 DEF BalanceInv, ExecOK

(* Choose keeps the ring's members and the order of the counts. *)
LEMMA ChooseSpreads ==
  ASSUME RingOK, Spread, ring' = RingNext(ring),
         chosen' = [chosen EXCEPT ![Head(ring)] = @ + 1]
  PROVE  RingOK' /\ Spread'
<1>1. /\ Head(ring) = ring[1]
      /\ ring' \in [1 .. N -> Peers]
      /\ \A i \in 1 .. N : ring'[i] = IF i < N THEN ring[i + 1] ELSE ring[1]
  BY RingMoves DEF RingOK
<1>2. RingOK'
  <2>1. ASSUME NEW i \in 1 .. N, NEW j \in 1 .. N, ring'[i] = ring'[j]
        PROVE  i = j
    BY <1>1, <2>1, PeersCount DEF RingOK
  <2>2. ASSUME NEW p \in Peers PROVE \E i \in 1 .. N : ring'[i] = p
    <3>1. PICK k \in 1 .. N : ring[k] = p
      BY DEF RingOK
    <3>2. CASE k = 1
      BY <1>1, <3>1, <3>2, PeersCount
    <3>3. CASE k # 1
      <4>1. k - 1 \in 1 .. N /\ k - 1 < N /\ (k - 1) + 1 = k
        BY <3>3, PeersCount
      <4> QED BY <1>1, <3>1, <4>1
    <3> QED BY <3>2, <3>3
  <2> QED BY <1>1, <2>1, <2>2 DEF RingOK, N
<1>3. 1 \in 1 .. N /\ ring[1] \in Peers
  BY PeersCount DEF RingOK
<1>4. chosen' \in [Peers -> Nat]
  BY <1>1, <1>3 DEF Spread
<1>5. chosen'[ring'[N]] = chosen[ring[1]] + 1
  BY <1>1, <1>3, PeersCount DEF Spread
<1>6. ASSUME NEW i \in 1 .. N, i < N
      PROVE  i + 1 \in 1 .. N /\ chosen'[ring'[i]] = chosen[ring[i + 1]]
  <2>1. i + 1 \in 1 .. N /\ i + 1 # 1
    BY <1>6, PeersCount
  <2>2. ring[i + 1] # ring[1] /\ ring[i + 1] \in Peers
    BY <2>1, <1>3 DEF RingOK
  <2> QED BY <1>1, <1>6, <2>1, <2>2 DEF Spread
<1>7. \A i \in 1 .. N : chosen[ring[i]] \in Nat
  BY DEF RingOK, Spread
<1>8. ASSUME NEW i \in 1 .. N, NEW j \in 1 .. N, i <= j
      PROVE  /\ chosen'[ring'[i]] <= chosen'[ring'[j]]
             /\ chosen'[ring'[j]] <= chosen'[ring'[1]] + 1
  <2>1. chosen[ring[1]] <= chosen'[ring'[1]]
    <3>1. CASE N = 1
      BY <1>3, <1>5, <1>7, <3>1
    <3>2. CASE N # 1
      <4>1. 1 < N
        BY <3>2, PeersCount
      <4>2. 2 \in 1 .. N /\ chosen'[ring'[1]] = chosen[ring[2]]
        BY <1>3, <1>6, <4>1
      <4> QED BY <1>3, <4>2 DEF Spread
    <3> QED BY <3>1, <3>2
  <2>2. chosen'[ring'[j]] <= chosen[ring[1]] + 1
    <3>1. CASE j < N
      <4>1. j + 1 \in 1 .. N /\ chosen'[ring'[j]] = chosen[ring[j + 1]]
        BY <1>6, <3>1
      <4> QED BY <4>1, <1>3 DEF Spread
    <3>2. CASE ~(j < N)
      <4>1. j = N
        BY <3>2, PeersCount
      <4> QED BY <4>1, <1>5, <1>3, <1>7
    <3> QED BY <3>1, <3>2
  <2>3. /\ ring'[1] \in Peers /\ ring'[i] \in Peers /\ ring'[j] \in Peers
        /\ chosen'[ring'[1]] \in Nat /\ chosen'[ring'[i]] \in Nat
        /\ chosen'[ring'[j]] \in Nat
    BY <1>1, <1>3, <1>4
  <2>4. chosen'[ring'[j]] <= chosen'[ring'[1]] + 1
    BY <2>1, <2>2, <2>3, <1>3, <1>7
  <2>5. chosen'[ring'[i]] <= chosen'[ring'[j]]
    <3>1. CASE j < N
      <4>1. i < N /\ i + 1 <= j + 1
        BY <1>8, <3>1, PeersCount
      <4>2. /\ i + 1 \in 1 .. N /\ chosen'[ring'[i]] = chosen[ring[i + 1]]
            /\ j + 1 \in 1 .. N /\ chosen'[ring'[j]] = chosen[ring[j + 1]]
        BY <1>6, <3>1, <4>1
      <4> QED BY <4>1, <4>2 DEF Spread
    <3>2. CASE ~(j < N)
      <4>1. j = N
        BY <3>2, PeersCount
      <4>2. CASE i = N
        BY <4>1, <4>2, <2>3
      <4>3. CASE i # N
        <5>1. i < N
          BY <4>3, PeersCount
        <5>2. i + 1 \in 1 .. N /\ chosen'[ring'[i]] = chosen[ring[i + 1]]
          BY <1>6, <5>1
        <5>3. 1 <= i + 1
          BY <5>2
        <5> QED BY <5>2, <5>3, <4>1, <1>5, <1>3 DEF Spread
      <4> QED BY <4>2, <4>3
    <3> QED BY <3>1, <3>2
  <2> QED BY <2>4, <2>5
<1>9. Spread'
  BY <1>4, <1>8 DEF Spread, N
<1> QED BY <1>2, <1>9

(* A round of the loop leaves one more peer behind it, and takes the other *)
(* running loops out of the promise.                                       *)
LEMMA TryPeerKeeps ==
  ASSUME BalanceInv, NEW c \in Callers, TryPeer(c) PROVE BalanceInv'
<1>1. RingOK' /\ Spread'
  BY ChooseSpreads DEF BalanceInv, TryPeer
<1>2. /\ ring \in [1 .. N -> Peers] /\ Len(ring) = N /\ Head(ring) = ring[1]
      /\ \A i \in 1 .. N : ring'[i] = IF i < N THEN ring[i + 1] ELSE ring[1]
  BY RingMoves DEF BalanceInv, RingOK, TryPeer
<1> DEFINE k == exec[c].tries
<1>3. /\ exec[c].pc = "loop" /\ k \in Nat /\ k < N
      /\ c \in alone => \A i \in 1 .. N : i > N - k => ring[i] \notin up
  BY DEF BalanceInv, ExecOK, LoopOK, TryPeer
<1>4. /\ up' = up /\ up \subseteq Peers
      /\ alone' \subseteq alone
      /\ \A x \in Callers : x # c /\ exec[x].pc = "loop" => x \notin alone'
      /\ c \in alone' => c \in alone
  BY DEF TryPeer, Disturb, BalanceInv, ExecOK
<1>5. /\ exec' \in [Callers -> [pc : Stages, tries : Nat]]
      /\ \A x \in Callers : x # c => exec'[x] = exec[x]
      /\ exec'[c] = IF ring[1] \in up THEN Ended("connected")
                    ELSE IF k + 1 < N THEN Looping(k + 1) ELSE Ended("failed")
  BY <1>2, <1>3 DEF TryPeer, BalanceInv, ExecOK, Ended, Looping, Stages
<1>6. ASSUME NEW x \in Callers PROVE LoopOK(x)'
  <2>1. CASE x # c
    <3>1. exec'[x] = exec[x] /\ (exec[x].pc = "loop" => x \notin alone')
      BY <1>4, <1>5, <2>1
    <3>2. LoopOK(x)
      BY DEF BalanceInv, ExecOK
    <3> QED BY <3>1, <3>2 DEF LoopOK, N
  <2>2. CASE x = c
    <3> SUFFICES ASSUME exec'[c].pc = "loop"
                 PROVE  /\ exec'[c].tries \in Nat /\ exec'[c].tries < N
                        /\ c \in alone' => \A i \in 1 .. N :
                             i > N - exec'[c].tries => ring'[i] \notin up'
      BY <2>2 DEF LoopOK, N
    <3>1. ring[1] \notin up /\ k + 1 < N /\ exec'[c].tries = k + 1
      BY <1>5 DEF Ended, Looping
    <3>2. ASSUME c \in alone', NEW i \in 1 .. N, i > N - (k + 1)
          PROVE  ring'[i] \notin up
      <4>1. CASE i < N
        <5>1. i + 1 \in 1 .. N /\ i + 1 > N - k
          BY <3>2, <4>1, <1>3, PeersCount
        <5> QED BY <5>1, <4>1, <3>2, <1>2, <1>3, <1>4
      <4>2. CASE ~(i < N)
        BY <4>2, <3>1, <1>2
      <4> QED BY <4>1, <4>2
    <3> QED BY <3>1, <3>2, <1>3, <1>4
  <2> QED BY <2>1, <2>2
<1>7. ASSUME NEW x \in Callers, exec'[x].pc = "failed", x \in alone'
      PROVE  up' = {}
  <2>1. CASE x # c
    BY <2>1, <1>4, <1>5, <1>7 DEF BalanceInv, ExecOK, ConnectsIfAlone
  <2>2. CASE x = c
    <3>1. ring[1] \notin up /\ ~(k + 1 < N)
      BY <2>2, <1>5, <1>7 DEF Ended, Looping
    <3>2. N - k = 1
      BY <3>1, <1>3, PeersCount
    <3>3. ASSUME NEW i \in 1 .. N PROVE ring[i] \notin up
      <4>1. i = 1 \/ i > N - k
        BY <3>2
      <4> QED BY <4>1, <3>1, <1>3, <1>4, <1>7, <2>2
    <3>4. \A p \in Peers : \E i \in 1 .. N : ring[i] = p
      BY DEF BalanceInv, RingOK
    <3> QED BY <3>3, <3>4, <1>4
  <2> QED BY <2>1, <2>2
<1> QED BY <1>1, <1>4, <1>5, <1>6, <1>7 DEF BalanceInv, ExecOK, ConnectsIfAlone

(* Every step of every execute keeps the invariant. *)
LEMMA BalanceNext == BalanceInv /\ [Next]_vars => BalanceInv'
<1> SUFFICES ASSUME BalanceInv, [Next]_vars PROVE BalanceInv'
  OBVIOUS
<1>1. ASSUME NEW c \in Callers, Call(c) PROVE BalanceInv'
  BY <1>1, CallKeeps
<1>2. ASSUME NEW c \in Callers, TryPeer(c) PROVE BalanceInv'
  BY <1>2, TryPeerKeeps
<1>3. CASE UNCHANGED vars
  BY <1>3 DEF vars, BalanceInv, RingOK, Spread, ExecOK, LoopOK, ConnectsIfAlone
<1> QED BY <1>1, <1>2, <1>3 DEF Next

(* No peer is chosen more than once more often than another, however the   *)
(* loops of concurrent executes interleave.                                *)
THEOREM LoadIsBalanced == Spec => []Balanced
<1>1. BalanceInv => Balanced
  <2> SUFFICES ASSUME BalanceInv, NEW p \in Peers, NEW q \in Peers
               PROVE  chosen[p] <= chosen[q] + 1
    BY DEF Balanced
  <2>1. PICK i \in 1 .. N : ring[i] = p
    BY DEF BalanceInv, RingOK
  <2>2. PICK j \in 1 .. N : ring[j] = q
    BY DEF BalanceInv, RingOK
  <2>3. 1 \in 1 .. N /\ ring[1] \in Peers /\ 1 <= j
    BY PeersCount DEF BalanceInv, RingOK
  <2>4. chosen[p] <= chosen[ring[1]] + 1 /\ chosen[ring[1]] <= chosen[q]
    BY <2>1, <2>2, <2>3 DEF BalanceInv, Spread
  <2>5. chosen[p] \in Nat /\ chosen[q] \in Nat /\ chosen[ring[1]] \in Nat
    BY <2>3 DEF BalanceInv, Spread
  <2> QED BY <2>4, <2>5
<1> QED BY BalanceInit, BalanceNext, <1>1, PTL DEF Spec

(* An execute that nobody disturbs gives up only when no peer is up, from  *)
(* whatever position the ring was left at.                                 *)
THEOREM AloneConnects == Spec => []ConnectsIfAlone
<1>1. BalanceInv => ConnectsIfAlone
  BY DEF BalanceInv, ExecOK
<1> QED BY BalanceInit, BalanceNext, <1>1, PTL DEF Spec
=============================================================================
