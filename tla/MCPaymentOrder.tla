--------------------------- MODULE MCPaymentOrder ---------------------------
(* Small instances of PaymentOrder for TLC. *)
EXTENDS PaymentOrder, TLC

\* Workers are interchangeable: no action or safety property names one.
WorkerSymmetry == Permutations(Workers)
=============================================================================
