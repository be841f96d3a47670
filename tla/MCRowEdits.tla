----------------------------- MODULE MCRowEdits -----------------------------
(* The instance of MCUsageBilling with edits of the user and of the key.     *)
EXTENDS MCUsageBilling, RowEdits
=============================================================================
