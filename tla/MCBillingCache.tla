-------------------------- MODULE MCBillingCache ---------------------------
(* Small instances of BillingCache for TLC. *)
EXTENDS BillingCache, TLC

\* Requests and workers are interchangeable.
Symmetry == Permutations(Requests) \cup Permutations(Workers)
=============================================================================
