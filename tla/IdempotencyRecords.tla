------------------------- MODULE IdempotencyRecords -------------------------
(***************************************************************************)
(* The table idempotency_records and the statements of its repository.     *)
(* Two services keep their state in it: the coordinator of idempotent      *)
(* requests (Idempotency) and the lock of system operations                *)
(* (SystemOperationLock).        (repository/idempotency_repo.go)          *)
(***************************************************************************)
EXTENDS Naturals

CONSTANTS
    Keys,           \* pairs of a scope and a key hash
    Fingerprints,   \* request_fingerprint values
    NoFingerprint,  \* the fingerprint of no request
    TTL,            \* DefaultTTL, SystemOperationTTL
    Lease,          \* ProcessingTimeout
    MaxClock        \* bound: the clock stops here

ASSUME TimesAssumption ==
    /\ TTL \in Nat \ {0} /\ Lease \in Nat \ {0} /\ MaxClock \in Nat \ {0}
    /\ NoFingerprint \notin Fingerprints

VARIABLES
    table,      \* the row of each key; id 0 is no row
    lastId,     \* the sequence of the id column
    clock       \* the time of the database and of every instance

tableVars == <<table, lastId>>

MutFailedStatus == "failed" \* mutant: a status no reader knows
FailedStatus == "failed_retryable"
RowStatuses == {"none", "processing", "succeeded", "failed_retryable"}
\* locked_until is 0 when NULL; body is the request whose response is stored.
Row == [id : Nat, fp : Fingerprints \cup {NoFingerprint}, status : RowStatuses,
        locked : Nat, expires : Nat, body : Fingerprints \cup {NoFingerprint}]
NoRow == [id |-> 0, fp |-> NoFingerprint, status |-> "none",
          locked |-> 0, expires |-> 0, body |-> NoFingerprint]

TableInit ==
    /\ table = [k \in Keys |-> NoRow]
    /\ lastId = 0
    /\ clock = 1

TableOK ==
    /\ table \in [Keys -> Row]
    /\ lastId \in Nat
    /\ clock \in 1..MaxClock

Exists(k) == table[k].id # 0

\* INSERT ... ON CONFLICT DO NOTHING; the caller owns the row if it inserts it.
Insert(k, fp, now) ==
    IF Exists(k) THEN UNCHANGED tableVars
    ELSE /\ lastId' = lastId + 1
         /\ table' = [table EXCEPT ![k] =
              [id |-> lastId + 1, fp |-> fp, status |-> "processing",
               locked |-> now + Lease, expires |-> now + TTL, body |-> NoFingerprint]]

\* The condition of TryReclaim: status as it was read, and no lock after now.
MutReclaimable(r, from, now) == r.locked <= now \* mutant: the status is not compared
Reclaimable(r, from, now) == r.status = from /\ r.locked <= now

\* TryReclaim leaves the fingerprint as it is.
TryReclaim(id, now) ==
    table' = [k \in Keys |->
      IF table[k].id = id
      THEN [table[k] EXCEPT !.status = "processing", !.locked = now + Lease,
                            !.expires = now + TTL]
      ELSE table[k]]

\* ExtendProcessingLock matches the fingerprint and the status.
Extendable(r, id, fp) == r.id = id /\ r.status = "processing" /\ r.fp = fp
ExtendProcessingLock(id, fp, now) ==
    table' = [k \in Keys |->
      IF Extendable(table[k], id, fp)
      THEN [table[k] EXCEPT !.locked = now + Lease, !.expires = now + TTL]
      ELSE table[k]]

\* MarkSucceeded and MarkFailedRetryable are by id, whatever the status is.
MutMarked(r, id) == r.id # 0 \* mutant: by scope and key
Marked(r, id) == r.id = id
MarkSucceeded(id, body, expires) ==
    table' = [k \in Keys |->
      IF Marked(table[k], id)
      THEN [table[k] EXCEPT !.status = "succeeded", !.locked = 0,
                            !.expires = expires, !.body = body]
      ELSE table[k]]

MarkFailedRetryable(id, until, expires) ==
    table' = [k \in Keys |->
      IF Marked(table[k], id)
      THEN [table[k] EXCEPT !.status = FailedStatus, !.locked = until,
                            !.expires = expires]
      ELSE table[k]]

\* DeleteExpired, called by the cleanup service; a batch may not reach every row.
DeleteExpired(k) ==
    /\ Exists(k)
    /\ table[k].expires <= clock
    /\ table' = [table EXCEPT ![k] = NoRow]
    /\ UNCHANGED <<lastId, clock>>
=============================================================================
