------------------------- MODULE MCConcurrencySlots -------------------------
(* Small instances of ConcurrencySlots for TLC. *)
EXTENDS ConcurrencySlots, TLC

\* Processes are interchangeable.
Symmetry == Permutations(Processes)
=============================================================================
