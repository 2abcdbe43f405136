------------------------- MODULE MCOutputSupervisor -------------------------
(* Small instances of OutputSupervisor for TLC. *)
EXTENDS OutputSupervisor, TLC

\* Callers are interchangeable; used only where no temporal property is checked.
CallerSymmetry == Permutations(Callers)
=============================================================================
