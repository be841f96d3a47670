----------------------------- MODULE RowEdits ------------------------------
(***************************************************************************)
(* The handlers that edit a user or an API key beside the billing: they    *)
(* load the row, change a field, and write every column of it back, the    *)
(* balance of a user and the use of a key included.                        *)
(*   (service/user_service.go, service/api_key_service.go,                 *)
(*    repository/user_repo.go, repository/api_key_repo.go)                 *)
(***************************************************************************)
EXTENDS UsageBilling

CONSTANTS Edited,   \* rows of users and of api_keys
          NoRow     \* no edit in flight

VARIABLE loaded     \* the row as an edit in flight has loaded it

EditInit == Init /\ loaded = [r \in Edited |-> NoRow]

\* UpdateProfile, ChangePassword, ... ; APIKeyService.Update: GetByID.
Load(r) ==
    /\ loaded[r] = NoRow /\ rows[r].live
    /\ loaded' = [loaded EXCEPT ![r] = rows[r]]
    /\ UNCHANGED vars

\* userRepo.Update, apiKeyRepo.Update: one statement, of a row nobody holds.
Update(r) ==
    /\ loaded[r] # NoRow /\ Unlocked(r)
    /\ rows' = IF rows[r].live THEN [rows EXCEPT ![r] = loaded[r]] ELSE rows
    /\ loaded' = [loaded EXCEPT ![r] = NoRow]
    /\ UNCHANGED <<dedup, archive, outbox, tx, wrote, answer, charged, clock, faults>>

EditNext ==
    \/ Next /\ UNCHANGED loaded
    \/ \E r \in Edited : Load(r) \/ Update(r)

EditSpec == EditInit /\ [][EditNext]_<<vars, loaded>>

\* What was charged to a row stays charged: no edit of another field gives it back
\* ("Production uses applyUsageBilling -> repo.Apply for atomic billing").
ChargesAreKept ==
    \A r \in Rows : rows[r].spent >= MapThenSumSet(LAMBDA t : ChargeTo(t, r), charged)
=============================================================================
