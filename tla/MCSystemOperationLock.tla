----------------------- MODULE MCSystemOperationLock -----------------------
(* Small instances of SystemOperationLock for TLC. *)
EXTENDS SystemOperationLock, TLC

\* Workers and operation identifiers are interchangeable.
Symmetry == Permutations(Workers) \cup Permutations(Fingerprints)
=============================================================================
