---------------------------- MODULE MCControlApi ----------------------------
(* ControlApi with the values TLC needs. *)
EXTENDS ControlApi, TLC

CONSTANTS c1, c2

Symmetry == Permutations(Clients) \cup Permutations(Rooms)
=============================================================================
