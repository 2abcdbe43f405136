------------------------ MODULE MCDestinationAdapter ------------------------
(* DestinationAdapter with the values TLC needs. *)
EXTENDS DestinationAdapter, TLC
=============================================================================
