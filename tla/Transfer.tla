------------------------------ MODULE Transfer ------------------------------
(***************************************************************************)
(* What the persister promises: documents that are waiting are moved, some *)
(* at a time, into the table or are given up.  No document appears from    *)
(* nowhere, none vanishes and none leaves the table; and only one that the *)
(* cache brought back is stored a second time.                             *)
(***************************************************************************)
CONSTANT Docs

VARIABLES waiting, stored, givenUp,
          again  \* documents that were brought back

vars == <<waiting, stored, givenUp, again>>

Init == waiting = {} /\ stored = {} /\ givenUp = {} /\ again = {}

(* A document is submitted once. *)
Arrive(d) ==
  /\ d \notin waiting \cup stored \cup givenUp
  /\ waiting' = waiting \cup {d}
  /\ UNCHANGED <<stored, givenUp, again>>

(* The documents S have been moved.  One that was brought back may wait    *)
(* once more.                                                              *)
Moved(S) == \E still \in SUBSET (S \cap again) : waiting' = waiting \ (S \ still)

Store(S) ==
  /\ Moved(S)
  /\ stored' = stored \cup S
  /\ UNCHANGED <<givenUp, again>>

GiveUp(S) ==
  /\ Moved(S)
  /\ givenUp' = givenUp \cup S
  /\ UNCHANGED <<stored, again>>

(* A restart drops documents that were waiting, and the cache brings back  *)
(* documents that were not, or that are waiting elsewhere.                 *)
Break(dropped, back) ==
  /\ waiting' = (waiting \ dropped) \cup back
  /\ givenUp' = givenUp \cup dropped
  /\ again' = again \cup back
  /\ UNCHANGED stored

Next == \/ \E d \in Docs : Arrive(d)
        \/ \E S \in (SUBSET waiting) \ {{}} : Store(S) \/ GiveUp(S)
        \/ \E dropped \in SUBSET waiting,
             back \in SUBSET (waiting \cup stored \cup givenUp) : Break(dropped, back)

Spec == Init /\ [][Next]_vars
=============================================================================
