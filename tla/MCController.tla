---------------------------- MODULE MCController ----------------------------
(* Controller with the values TLC needs. *)
EXTENDS Controller, TLC

\* Callers do the same things, and so do URLs.
Symmetry == Permutations(Callers) \cup Permutations(Urls)
=============================================================================
