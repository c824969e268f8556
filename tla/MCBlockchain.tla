---------------------------- MODULE MCBlockchain ----------------------------
(* Instances of Blockchain for TLC. *)
EXTENDS Blockchain, TLC

CONSTANTS a, b, c

MCLimit == [t \in Topics |-> 2]

(* One period that takes its documents singly, one that takes two. *)
MCLimitMixed == [t \in Topics |-> IF t = "1m" THEN 1 ELSE 2]

DocSymmetry == Permutations(Docs)
=============================================================================
