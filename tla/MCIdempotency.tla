--------------------------- MODULE MCIdempotency ---------------------------
(* Small instances of Idempotency for TLC. *)
EXTENDS Idempotency, TLC

\* Workers and fingerprints are interchangeable.
Symmetry == Permutations(Workers) \cup Permutations(Fingerprints)
=============================================================================
