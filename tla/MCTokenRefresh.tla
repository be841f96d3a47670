--------------------------- MODULE MCTokenRefresh ---------------------------
(***************************************************************************)
(* The instance of TokenRefresh TLC checks: the instances are alike.       *)
(***************************************************************************)
EXTENDS TokenRefresh, TLC

Symmetry == Permutations(Instances)
=============================================================================
