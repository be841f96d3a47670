------------------------ MODULE SystemOperationLock ------------------------
(***************************************************************************)
(* The lock of system operations (update, rollback, restart): one row of   *)
(* the idempotency table that is claimed for a lease, renewed while the    *)
(* operation runs and marked when it ends. A worker is the request of an   *)
(* administrator on any instance, with the renewal loop of its lock.       *)
(*   (service/system_operation_lock_service.go, admin/system_handler.go)   *)
(***************************************************************************)
EXTENDS IdempotencyRecords

CONSTANTS
    LockKey,        \* global-system-operation-lock
    Workers,        \* requests in flight
    RenewInterval,  \* a third of the lease
    MaxFaults       \* bound: failed statements and crashes in one behaviour

ASSUME LockAssumption ==
    /\ Keys = {LockKey}
    /\ RenewInterval \in 1..Lease
    /\ MaxFaults \in Nat

VARIABLES
    op,         \* the operation of each worker
    faults,     \* failures so far
    overran     \* a claim or a release took a whole renewal interval, or a
                \* renewal was late

vars == <<table, lastId, clock, op, faults, overran>>

OpPcs == {"idle", "create", "get", "reclaim", "run", "succeeded", "failed"}
\* fresh: the worker inserted the row; due: the next tick of its renewal loop.
Operations == [pc : OpPcs, id : Nat, fp : Fingerprints \cup {NoFingerprint}, now : Nat,
               from : RowStatuses, fresh : BOOLEAN, renewing : BOOLEAN, due : Nat]
NoOperation == [pc |-> "idle", id |-> 0, fp |-> NoFingerprint, now |-> 0,
                from |-> "none", fresh |-> FALSE, renewing |-> FALSE, due |-> 0]

Init ==
    /\ TableInit
    /\ op = [w \in Workers |-> NoOperation]
    /\ faults = 0
    /\ overran = FALSE

row == table[LockKey]
At(w, pc) == op[w].pc = pc
Return(w) == op' = [op EXCEPT ![w] = NoOperation]
Fails == faults < MaxFaults /\ faults' = faults + 1
NoFault == UNCHANGED faults

----------------------------------------------------------------------------
\* Acquire: the time and both limits are taken before the first statement.
Begin(w, fp) ==
    /\ At(w, "idle")
    /\ op' = [op EXCEPT ![w] = [NoOperation EXCEPT !.pc = "create", !.fp = fp, !.now = clock]]
    /\ UNCHANGED <<table, lastId, clock, faults, overran>>

\* The lock is ours: the operation runs and its renewal loop starts to tick.
Acquired(w, id, fresh) ==
    op' = [op EXCEPT ![w] = [NoOperation EXCEPT
             !.pc = "run", !.id = id, !.fp = op[w].fp, !.fresh = fresh,
             !.renewing = TRUE, !.due = clock + RenewInterval]]

CreateProcessing(w) ==
    /\ At(w, "create")
    /\ \/ /\ NoFault
          /\ Insert(LockKey, op[w].fp, op[w].now)
          /\ IF Exists(LockKey) THEN op' = [op EXCEPT ![w].pc = "get"]
             ELSE Acquired(w, lastId + 1, TRUE)
       \/ /\ Fails /\ Return(w)
          /\ Insert(LockKey, op[w].fp, op[w].now) \/ UNCHANGED tableVars
    /\ UNCHANGED <<clock, overran>>

\* Busy while a lease is current; a row of any other kind may be reclaimed.
Busy(r, now) == r.status = "processing" /\ r.locked > now
GetExisting(w) ==
    /\ At(w, "get")
    /\ \/ /\ NoFault
          /\ IF ~Exists(LockKey) \/ Busy(row, op[w].now) THEN Return(w)
             ELSE op' = [op EXCEPT ![w].pc = "reclaim", ![w].id = row.id,
                                   ![w].from = row.status]
       \/ Fails /\ Return(w)
    /\ UNCHANGED <<table, lastId, clock, overran>>

Reclaim(w) ==
    LET taken == row.id = op[w].id /\ Reclaimable(row, op[w].from, op[w].now)
        take == IF taken THEN TryReclaim(op[w].id, op[w].now) ELSE UNCHANGED table
    IN  /\ At(w, "reclaim")
        /\ \/ /\ NoFault /\ take
              /\ IF taken THEN Acquired(w, op[w].id, FALSE) ELSE Return(w)
           \/ Fails /\ Return(w) /\ (take \/ UNCHANGED table)
        /\ UNCHANGED <<lastId, clock, overran>>

\* One tick of renewLoop: an error is retried at the next tick, a row that does
\* not match ends the loop, and the operation is not told.
MutKeepsRenewing(w, failed) == ~failed /\ Extendable(row, op[w].id, op[w].fp) \* mutant
KeepsRenewing(w, failed) == failed \/ Extendable(row, op[w].id, op[w].fp)
Renew(w) ==
    /\ op[w].renewing /\ clock >= op[w].due
    /\ \E failed \in BOOLEAN :
         /\ \/ ~failed /\ NoFault /\ ExtendProcessingLock(op[w].id, op[w].fp, clock)
            \/ failed /\ Fails /\ UNCHANGED table
         /\ op' = [op EXCEPT ![w].renewing = KeepsRenewing(w, failed),
                             ![w].due = clock + RenewInterval]
    /\ UNCHANGED <<lastId, clock, overran>>

\* The operation returns, and Release stops the loop.
MutEnds == {"succeeded"} \* mutant: a failed operation is not released
Ends == {"succeeded", "failed"}
EndOperation(w) ==
    /\ At(w, "run")
    /\ \E end \in {"succeeded", "failed"} :
         op' = [op EXCEPT ![w].pc = IF end \in Ends THEN end ELSE "idle",
                          ![w].renewing = FALSE, ![w].now = clock]
    /\ UNCHANGED <<table, lastId, clock, faults, overran>>

\* MarkSucceeded or MarkFailedRetryable; the handler ignores an error.
Release(w) ==
    LET mark == IF At(w, "succeeded")
                THEN MarkSucceeded(op[w].id, op[w].fp, clock + TTL)
                ELSE MarkFailedRetryable(op[w].id, clock, clock + TTL)
    IN  /\ op[w].pc \in {"succeeded", "failed"}
        /\ \/ NoFault /\ mark
           \/ Fails /\ (mark \/ UNCHANGED table)
        /\ Return(w)
        /\ UNCHANGED <<lastId, clock, overran>>

----------------------------------------------------------------------------
Crash(w) ==
    /\ ~At(w, "idle")
    /\ Fails
    /\ Return(w)
    /\ UNCHANGED <<table, lastId, clock, overran>>

Cleanup == DeleteExpired(LockKey) /\ UNCHANGED <<op, faults, overran>>

Late(w, time) ==
    \/ /\ op[w].pc \in {"create", "get", "reclaim", "succeeded", "failed"}
       /\ op[w].now + RenewInterval <= time
    \/ op[w].renewing /\ op[w].due < time

Tick ==
    /\ clock < MaxClock
    /\ clock' = clock + 1
    /\ overran' = (overran \/ \E w \in Workers : Late(w, clock + 1))
    /\ UNCHANGED <<table, lastId, op, faults>>

Next ==
    \/ \E w \in Workers, fp \in Fingerprints : Begin(w, fp)
    \/ \E w \in Workers :
         \/ CreateProcessing(w) \/ GetExisting(w) \/ Reclaim(w) \/ Renew(w)
         \/ EndOperation(w) \/ Release(w) \/ Crash(w)
    \/ Cleanup
    \/ Tick

Spec == Init /\ [][Next]_vars

----------------------------------------------------------------------------
(* Properties *)

TypeOK ==
    /\ TableOK
    /\ op \in [Workers -> Operations]
    /\ faults \in 0..MaxFaults
    /\ overran \in BOOLEAN

Running(w) == At(w, "run")

\* The operation that inserted the row keeps it to itself, even when one of its
\* renewals fails.
FreshLockExclusive ==
    \A v, w \in Workers :
      Running(v) /\ op[v].fresh /\ Running(w) /\ op[w].id = op[v].id /\ ~overran => v = w

\* With no operation left, only a failure can have left the row processing, and
\* then for no longer than the lease.
ReleasedOrLeased ==
    (\A w \in Workers : At(w, "idle")) /\ row.status = "processing" =>
      faults > 0 /\ row.locked <= clock + Lease
=============================================================================
