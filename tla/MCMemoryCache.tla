--------------------------- MODULE MCMemoryCache ---------------------------
(* Instances of MemoryCache for TLC. *)
EXTENDS MemoryCache, TLC

CONSTANTS a, b, c
=============================================================================
