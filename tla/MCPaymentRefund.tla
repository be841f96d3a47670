--------------------------- MODULE MCPaymentRefund --------------------------
(* Small instances of PaymentRefund for TLC. *)
EXTENDS PaymentRefund, TLC

\* No administrator is named by an action or a safety property.
AdminSymmetry == Permutations(Admins)
=============================================================================
