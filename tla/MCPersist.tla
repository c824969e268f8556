----------------------------- MODULE MCPersist -----------------------------
(* Instances of Persist for TLC. *)
EXTENDS Persist, TLC

CONSTANTS a, b, c

MCLimit == [t \in Topics |-> 2]

DocSymmetry == Permutations(Docs)
=============================================================================
