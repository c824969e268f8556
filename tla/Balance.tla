------------------------------ MODULE Balance ------------------------------
(***************************************************************************)
(* The round-robin balancer and the loop of execute that uses it to find a *)
(* peer.  The ring and its position are shared: each period goroutine and  *)
(* each API request that verifies a block runs an execute of its own, and  *)
(* only a single Choose is under the lock.                                 *)
(*                                                                         *)
(* Add and Remove have no caller, so the ring's members never change.      *)
(***************************************************************************)
EXTENDS Naturals, Sequences, FiniteSets, SequencesExt

CONSTANTS
  Peers,     \* the addresses of blockchain.peers
  Callers,   \* goroutines that call execute
  MaxChoose  \* bound: calls of Choose

ASSUME BalanceAssumption ==
  IsFiniteSet(Peers) /\ Peers # {} /\ MaxChoose \in Nat

VARIABLES
  up,      \* external: the peers that can be dialled
  ring,    \* the ring from its current position
  exec,    \* exec[c]: in the loop with tries failed dials, or how it ended
  chosen,  \* history: chosen[p], how often Choose returned p
  alone    \* history: callers in whose last execute nobody else called Choose

vars == <<up, ring, exec, chosen, alone>>

Looping(i) == [pc |-> "loop", tries |-> i]
Ended(how) == [pc |-> how, tries |-> 0]

Chooses == FoldFunction(+, 0, chosen)

(* newRoundRobin: the ring in the configured order. *)
newRoundRobin == SetToSeq(Peers)

(* A plausible slip: the position does not move. *)
NextStays(r) == r

(* r.Next() *)
RingNext(r) == Append(Tail(r), Head(r))

Init ==
  /\ up \in SUBSET Peers
  /\ ring = newRoundRobin
  /\ exec = [c \in Callers |-> Ended("idle")]
  /\ chosen = [p \in Peers |-> 0]
  /\ alone = {}

Call(c) ==
  /\ exec[c].pc # "loop"
  /\ exec' = [exec EXCEPT ![c] = Looping(0)]
  /\ alone' = alone \cup {c}
  /\ UNCHANGED <<up, ring, chosen>>

(* Another caller's Choose comes into the loops that are running.          *)
Disturb(c) == alone' = alone \ {x \in Callers \ {c} : exec[x].pc = "loop"}

(* A plausible slip: the loop ends one peer early. *)
TryPeerShort(c) ==
  /\ exec[c].pc = "loop"
  /\ exec[c].tries < Len(ring)
  /\ Chooses < MaxChoose
  /\ chosen' = [chosen EXCEPT ![Head(ring)] = @ + 1]
  /\ ring' = RingNext(ring)
  /\ exec' = [exec EXCEPT ![c] = IF Head(ring) \in up THEN Ended("connected")
                                 ELSE IF @.tries + 2 < Len(ring)
                                 THEN Looping(@.tries + 1)
                                 ELSE Ended("failed")]
  /\ Disturb(c)
  /\ UNCHANGED up

(* One round of the loop: Choose, and getGrpcConn on what it returned.     *)
(* Dialling touches nothing shared, so it belongs to the same step.  The   *)
(* loop ends with a connection or after as many rounds as the ring is long.*)
TryPeer(c) ==
  /\ exec[c].pc = "loop"
  /\ exec[c].tries < Len(ring)
  /\ Chooses < MaxChoose
  /\ chosen' = [chosen EXCEPT ![Head(ring)] = @ + 1]
  /\ ring' = RingNext(ring)
  /\ exec' = [exec EXCEPT ![c] = IF Head(ring) \in up THEN Ended("connected")
                                 ELSE IF @.tries + 1 < Len(ring)
                                 THEN Looping(@.tries + 1)
                                 ELSE Ended("failed")]
  /\ Disturb(c)
  /\ UNCHANGED up

Next == \E c \in Callers : Call(c) \/ TryPeer(c)

Spec == Init /\ [][Next]_vars

-----------------------------------------------------------------------------
(* The load is spread evenly: however the loops of concurrent executes     *)
(* interleave, and however many dials fail, no peer is chosen more than    *)
(* once more often than another.                                           *)
Balanced == \A p, q \in Peers : chosen[p] <= chosen[q] + 1

(* execute gives up only when no peer is up, from whatever position the    *)
(* earlier executes left the ring at, provided that no other execute calls *)
(* Choose during its loop.  Without that proviso it does not hold: two     *)
(* loops can hand each other the peer that is up.                          *)
ConnectsIfAlone ==
  \A c \in Callers : exec[c].pc = "failed" /\ c \in alone => up = {}
=============================================================================
