----------------------------- MODULE MCBalance -----------------------------
(* Instances of Balance for TLC. *)
EXTENDS Balance, TLC

CONSTANTS p1, p2, p3
=============================================================================
