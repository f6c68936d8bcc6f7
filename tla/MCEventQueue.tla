--------------------------- MODULE MCEventQueue ---------------------------
(* A ring of 4 cells and 3 events for TLC. *)
EXTENDS EventQueue, Bitwise

(* For every ring size vertices_config.h:29 names, `&' with the size minus *)
(* one is the remainder, for the indexes and the differences that occur.   *)
ASSUME MaskIsRemainder ==
  \A c \in {2, 4, 8, 16, 32, 64} : \A i \in 0 .. 2 * c : (i & (c - 1)) = i % c
=============================================================================
