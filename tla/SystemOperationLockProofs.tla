---------------------- MODULE SystemOperationLockProofs ----------------------
(***************************************************************************)
(* Proofs about SystemOperationLock for every set of requests, every TTL,  *)
(* lease and renewal interval, and any number of failures; the exclusion   *)
(* of fresh locks takes that the lease outlasts the renewals that fail.    *)
(***************************************************************************)
EXTENDS SystemOperationLock, Integers, TLAPS

\* The assumptions, in the form the proofs use.
LEMMA Bounds ==
  /\ TTL \in Nat /\ Lease \in Nat /\ Lease >= 1 /\ RenewInterval \in Nat /\ RenewInterval >= 1
  /\ MaxClock \in Nat /\ MaxClock >= 1 /\ MaxFaults \in Nat /\ LockKey \in Keys
BY TimesAssumption, LockAssumption

\* The clock is a number.
LEMMA ClockType == ASSUME TableOK PROVE clock \in Nat
<1>1. clock \in 1..MaxClock
  BY DEF TableOK
<1> QED
  BY <1>1, Bounds

----------------------------------------------------------------------------
(* The row of the lock *)

\* Inserted by a request that began at now, and what the other statements make
\* of the row.
Inserted(fp, now) ==
    [id |-> lastId + 1, fp |-> fp, status |-> "processing",
     locked |-> now + Lease, expires |-> now + TTL, body |-> NoFingerprint]
Leased(now) == [row EXCEPT !.status = "processing", !.locked = now + Lease, !.expires = now + TTL]
Renewed(now) == [row EXCEPT !.locked = now + Lease, !.expires = now + TTL]
Succeeded(body, expires) ==
    [row EXCEPT !.status = "succeeded", !.locked = 0, !.expires = expires, !.body = body]
Failed(until, expires) ==
    [row EXCEPT !.status = "failed_retryable", !.locked = until, !.expires = expires]

\* The table has one row, so a statement is what it does to that row.
LEMMA RowStatements ==
  ASSUME TableOK, NEW id \in Nat, NEW fp \in Fingerprints \cup {NoFingerprint},
         NEW now \in Nat, NEW until \in Nat
  PROVE  /\ row \in Row /\ NoRow \in Row
         /\ Insert(LockKey, fp, now) =>
              /\ table' \in [Keys -> Row] /\ lastId' \in Nat
              /\ IF row.id = 0 THEN row' = Inserted(fp, now) /\ lastId' = lastId + 1
                               ELSE row' = row /\ lastId' = lastId
         /\ TryReclaim(id, now) =>
              /\ table' \in [Keys -> Row]
              /\ row' = IF row.id = id THEN Leased(now) ELSE row
         /\ ExtendProcessingLock(id, fp, now) =>
              /\ table' \in [Keys -> Row]
              /\ row' = IF Extendable(row, id, fp) THEN Renewed(now) ELSE row
         /\ MarkSucceeded(id, fp, until) =>
              /\ table' \in [Keys -> Row]
              /\ row' = IF row.id = id THEN Succeeded(fp, until) ELSE row
         /\ MarkFailedRetryable(id, now, until) =>
              /\ table' \in [Keys -> Row]
              /\ row' = IF row.id = id THEN Failed(now, until) ELSE row
<1>1. /\ table \in [Keys -> Row] /\ LockKey \in Keys /\ lastId \in Nat /\ row \in Row
      /\ now + Lease \in Nat /\ now + TTL \in Nat /\ lastId + 1 \in Nat
  BY Bounds DEF TableOK, row
<1>2. NoRow \in Row
  BY DEF NoRow, Row, RowStatuses
<1>3. ASSUME Insert(LockKey, fp, now)
      PROVE  /\ table' \in [Keys -> Row] /\ lastId' \in Nat
             /\ IF row.id = 0 THEN row' = Inserted(fp, now) /\ lastId' = lastId + 1
                              ELSE row' = row /\ lastId' = lastId
  <2>1. Inserted(fp, now) \in Row
    BY <1>1 DEF Inserted, Row, RowStatuses
  <2>2. IF row.id = 0 THEN table' = [table EXCEPT ![LockKey] = Inserted(fp, now)] /\ lastId' = lastId + 1
                      ELSE UNCHANGED <<table, lastId>>
    BY <1>3 DEF Insert, Exists, Inserted, tableVars, row
  <2> QED
    BY <1>1, <2>1, <2>2 DEF row
<1>4. ASSUME TryReclaim(id, now)
      PROVE  table' \in [Keys -> Row] /\ row' = IF row.id = id THEN Leased(now) ELSE row
  BY <1>1, <1>4 DEF TryReclaim, Leased, Row, RowStatuses, row
<1>5. ASSUME ExtendProcessingLock(id, fp, now)
      PROVE  table' \in [Keys -> Row] /\ row' = IF Extendable(row, id, fp) THEN Renewed(now) ELSE row
  BY <1>1, <1>5 DEF ExtendProcessingLock, Renewed, Row, row
<1>6. ASSUME MarkSucceeded(id, fp, until)
      PROVE  table' \in [Keys -> Row] /\ row' = IF row.id = id THEN Succeeded(fp, until) ELSE row
  BY <1>1, <1>6 DEF MarkSucceeded, Marked, Succeeded, Row, RowStatuses, row
<1>7. ASSUME MarkFailedRetryable(id, now, until)
      PROVE  table' \in [Keys -> Row] /\ row' = IF row.id = id THEN Failed(now, until) ELSE row
  BY <1>1, <1>7 DEF MarkFailedRetryable, Marked, FailedStatus, Failed, Row, RowStatuses, row
<1> QED
  BY <1>1, <1>2, <1>3, <1>4, <1>5, <1>6, <1>7

----------------------------------------------------------------------------
(* What each action does, to its operation and to the row *)

\* The other operations stay; the fields of the operation that moves.
Others(w) == \A v \in Workers : v # w => op'[v] = op[v]
Becomes(w, q) == q \in Operations /\ op' = [op EXCEPT ![w] = q]
Ran(w, id, fresh) ==
    [NoOperation EXCEPT !.pc = "run", !.id = id, !.fp = op[w].fp, !.fresh = fresh,
                        !.renewing = TRUE, !.due = clock + RenewInterval]

\* A worker that moves on leaves the others alone.
LEMMA OpMoves ==
  ASSUME op \in [Workers -> Operations], NEW w \in Workers, NEW q, Becomes(w, q)
  PROVE  op' \in [Workers -> Operations] /\ op'[w] = q /\ Others(w)
BY DEF Becomes, Others

\* Each step of an operation ends it, or moves it on.
LEMMA OpTypes ==
  ASSUME TypeOK, NEW w \in Workers
  PROVE  /\ op[w] \in Operations
         /\ NoOperation \in Operations
         /\ Return(w) => Becomes(w, NoOperation)
         /\ \A id \in Nat, fresh \in BOOLEAN :
              Acquired(w, id, fresh) => Becomes(w, Ran(w, id, fresh))
         /\ \A fp \in Fingerprints :
              Begin(w, fp) => Becomes(w, [NoOperation EXCEPT !.pc = "create", !.fp = fp, !.now = clock])
<1>1. op \in [Workers -> Operations] /\ op[w] \in Operations
  BY DEF TypeOK
<1>2. clock \in Nat /\ clock + RenewInterval \in Nat
  BY ClockType, Bounds DEF TypeOK
<1>3. NoOperation \in Operations
  BY DEF NoOperation, Operations, OpPcs, RowStatuses
<1>4. ASSUME NEW id \in Nat, NEW fresh \in BOOLEAN PROVE Ran(w, id, fresh) \in Operations
  BY <1>1, <1>2, <1>3 DEF Ran, NoOperation, Operations, OpPcs
<1>5. ASSUME NEW fp \in Fingerprints
      PROVE  [NoOperation EXCEPT !.pc = "create", !.fp = fp, !.now = clock] \in Operations
  BY <1>2, <1>3 DEF NoOperation, Operations, OpPcs
<1> QED
  BY <1>1, <1>3, <1>4, <1>5 DEF Return, Acquired, Becomes, Ran, Begin

\* The actions of a request, read as changes of the row and of its operation.
Creates(w) ==
    /\ At(w, "create")
    /\ \/ /\ row.id = 0 /\ row' = Inserted(op[w].fp, op[w].now) /\ lastId' = lastId + 1
          /\ \/ faults' = faults /\ Becomes(w, Ran(w, lastId + 1, TRUE))
             \/ Fails /\ Becomes(w, NoOperation)
       \/ /\ row' = row /\ lastId' = lastId
          /\ \/ faults' = faults /\ Becomes(w, [op[w] EXCEPT !.pc = "get"])
             \/ Fails /\ Becomes(w, NoOperation)
Gets(w) ==
    /\ At(w, "get") /\ row' = row /\ lastId' = lastId
    /\ \/ faults' = faults \/ Fails
    /\ \/ Becomes(w, NoOperation)
       \/ row.id # 0 /\ Becomes(w, [op[w] EXCEPT !.pc = "reclaim", !.id = row.id, !.from = row.status])
Reclaims(w) ==
    /\ At(w, "reclaim") /\ lastId' = lastId
    /\ \/ /\ row.id = op[w].id /\ row.locked <= op[w].now /\ row' = Leased(op[w].now)
          /\ \/ faults' = faults /\ Becomes(w, Ran(w, op[w].id, FALSE))
             \/ Fails /\ Becomes(w, NoOperation)
       \/ row' = row /\ Becomes(w, NoOperation) /\ (faults' = faults \/ Fails)
Renews(w) ==
    /\ op[w].renewing /\ clock >= op[w].due /\ lastId' = lastId
    /\ \/ /\ faults' = faults
          /\ row' = IF Extendable(row, op[w].id, op[w].fp) THEN Renewed(clock) ELSE row
          /\ Becomes(w, [op[w] EXCEPT !.renewing = Extendable(row, op[w].id, op[w].fp),
                                      !.due = clock + RenewInterval])
       \/ /\ Fails /\ row' = row
          /\ Becomes(w, [op[w] EXCEPT !.renewing = TRUE, !.due = clock + RenewInterval])
Finishes(w) ==
    /\ At(w, "run") /\ row' = row /\ lastId' = lastId /\ faults' = faults
    /\ \E end \in {"succeeded", "failed"} :
         Becomes(w, [op[w] EXCEPT !.pc = end, !.renewing = FALSE, !.now = clock])
Releases(w) ==
    /\ op[w].pc \in {"succeeded", "failed"} /\ lastId' = lastId
    /\ Becomes(w, NoOperation)
    /\ \/ /\ faults' = faults \/ Fails
          /\ row.id = op[w].id
          /\ row' = Succeeded(op[w].fp, clock + TTL) \/ row' = Failed(clock, clock + TTL)
       \/ faults' = faults /\ row.id # op[w].id /\ row' = row
       \/ Fails /\ row' = row
Dies(w) ==
    ~At(w, "idle") /\ row' = row /\ lastId' = lastId /\ Fails /\ Becomes(w, NoOperation)

Acts(w) ==
    \/ Creates(w) \/ Gets(w) \/ Reclaims(w) \/ Renews(w) \/ Finishes(w) \/ Releases(w) \/ Dies(w)

\* Every action of a worker is one of the seven kinds of steps above.
LEMMA Actions ==
  ASSUME TypeOK, NEW w \in Workers,
         \/ CreateProcessing(w) \/ GetExisting(w) \/ Reclaim(w) \/ Renew(w)
         \/ EndOperation(w) \/ Release(w) \/ Crash(w)
  PROVE  /\ Acts(w) /\ UNCHANGED <<clock, overran>>
         /\ table' \in [Keys -> Row] /\ lastId' \in Nat
<1>1. /\ TableOK /\ op[w] \in Operations /\ row \in Row /\ table \in [Keys -> Row] /\ lastId \in Nat
      /\ clock \in Nat /\ clock + RenewInterval \in Nat /\ clock + TTL \in Nat /\ lastId + 1 \in Nat
      /\ op[w].id \in Nat /\ op[w].fp \in Fingerprints \cup {NoFingerprint} /\ op[w].now \in Nat
      /\ row.id \in Nat /\ row.status \in RowStatuses
  <2>1. TableOK /\ op[w] \in Operations /\ clock \in Nat
    BY ClockType, OpTypes DEF TypeOK
  <2>2. row \in Row /\ table \in [Keys -> Row] /\ lastId \in Nat
    BY <2>1, Bounds DEF TableOK, row
  <2> QED
    BY <2>1, <2>2, Bounds DEF Operations, Row
<1>2. /\ NoOperation \in Operations
      /\ Return(w) => Becomes(w, NoOperation)
      /\ \A id \in Nat, fresh \in BOOLEAN :
           Acquired(w, id, fresh) => Becomes(w, Ran(w, id, fresh))
  BY OpTypes
<1>3. UNCHANGED table => row' = row
  BY DEF row
<1>4. CASE CreateProcessing(w)
  <2>1. Insert(LockKey, op[w].fp, op[w].now) =>
          /\ table' \in [Keys -> Row] /\ lastId' \in Nat
          /\ IF row.id = 0 THEN row' = Inserted(op[w].fp, op[w].now) /\ lastId' = lastId + 1
                           ELSE row' = row /\ lastId' = lastId
    BY <1>1, RowStatements
  <2>2. UNCHANGED tableVars => table' \in [Keys -> Row] /\ lastId' \in Nat /\ row' = row /\ lastId' = lastId
    BY <1>1, <1>3 DEF tableVars
  <2>3. At(w, "create") /\ UNCHANGED <<clock, overran>>
    BY <1>4 DEF CreateProcessing
  <2>4. ASSUME NoFault, Insert(LockKey, op[w].fp, op[w].now), ~Exists(LockKey), Acquired(w, lastId + 1, TRUE)
        PROVE  Creates(w) /\ table' \in [Keys -> Row] /\ lastId' \in Nat
    BY <1>1, <1>2, <2>1, <2>3, <2>4 DEF Exists, row, NoFault, Creates
  <2>5. ASSUME NoFault, Insert(LockKey, op[w].fp, op[w].now), Exists(LockKey), op' = [op EXCEPT ![w].pc = "get"]
        PROVE  Creates(w) /\ table' \in [Keys -> Row] /\ lastId' \in Nat
    <3>1. [op[w] EXCEPT !.pc = "get"] \in Operations
      BY <1>1 DEF Operations, OpPcs
    <3>2. Becomes(w, [op[w] EXCEPT !.pc = "get"])
      BY <2>5, <3>1 DEF Becomes
    <3> QED
      BY <2>1, <2>3, <2>5, <3>2 DEF Exists, row, NoFault, Creates
  <2>6. ASSUME Fails, Return(w), Insert(LockKey, op[w].fp, op[w].now) \/ UNCHANGED tableVars
        PROVE  Creates(w) /\ table' \in [Keys -> Row] /\ lastId' \in Nat
    BY <1>2, <2>1, <2>2, <2>3, <2>6 DEF Creates
  <2> QED
    BY <1>4, <2>3, <2>4, <2>5, <2>6 DEF CreateProcessing, Acts
<1>5. CASE GetExisting(w)
  <2>1. [op[w] EXCEPT !.pc = "reclaim", !.id = row.id, !.from = row.status] \in Operations
    BY <1>1 DEF Operations, OpPcs
  <2>2. op' = [op EXCEPT ![w].pc = "reclaim", ![w].id = row.id, ![w].from = row.status] =>
          Becomes(w, [op[w] EXCEPT !.pc = "reclaim", !.id = row.id, !.from = row.status])
    BY <2>1 DEF Becomes
  <2> QED
    BY <1>1, <1>2, <1>3, <1>5, <2>2 DEF GetExisting, Exists, row, NoFault, Gets, Acts
<1>6. CASE Reclaim(w)
  <2>1. TryReclaim(op[w].id, op[w].now) =>
          table' \in [Keys -> Row] /\ row' = IF row.id = op[w].id THEN Leased(op[w].now) ELSE row
    BY <1>1, RowStatements
  <2>2. UNCHANGED table => table' \in [Keys -> Row] /\ row' = row
    BY <1>1, <1>3
  <2>3. At(w, "reclaim") /\ UNCHANGED <<clock, overran>> /\ lastId' = lastId
    BY <1>6 DEF Reclaim
  <2>4. CASE row.id = op[w].id /\ Reclaimable(row, op[w].from, op[w].now)
    <3>1. row.locked <= op[w].now /\ row.id = op[w].id
      BY <2>4 DEF Reclaimable
    <3>2. \/ NoFault /\ TryReclaim(op[w].id, op[w].now) /\ Acquired(w, op[w].id, FALSE)
          \/ Fails /\ Return(w) /\ (TryReclaim(op[w].id, op[w].now) \/ UNCHANGED table)
      BY <1>6, <2>4 DEF Reclaim
    <3>3. CASE NoFault /\ TryReclaim(op[w].id, op[w].now) /\ Acquired(w, op[w].id, FALSE)
      BY <1>1, <1>2, <2>1, <2>3, <3>1, <3>3 DEF NoFault, Reclaims, Acts
    <3>4. CASE Fails /\ Return(w) /\ (TryReclaim(op[w].id, op[w].now) \/ UNCHANGED table)
      BY <1>1, <1>2, <2>1, <2>2, <2>3, <3>1, <3>4 DEF Reclaims, Acts
    <3> QED
      BY <3>2, <3>3, <3>4
  <2>5. CASE ~(row.id = op[w].id /\ Reclaimable(row, op[w].from, op[w].now))
    <3>1. UNCHANGED table /\ Return(w) /\ (NoFault \/ Fails)
      BY <1>6, <2>5 DEF Reclaim
    <3> QED
      BY <1>1, <1>2, <2>2, <2>3, <3>1 DEF NoFault, Reclaims, Acts
  <2> QED
    BY <2>4, <2>5
<1>7. CASE Renew(w)
  <2>1. ExtendProcessingLock(op[w].id, op[w].fp, clock) =>
          /\ table' \in [Keys -> Row]
          /\ row' = IF Extendable(row, op[w].id, op[w].fp) THEN Renewed(clock) ELSE row
    BY <1>1, RowStatements
  <2>2. \A b \in BOOLEAN : [op[w] EXCEPT !.renewing = b, !.due = clock + RenewInterval] \in Operations
    BY <1>1 DEF Operations
  <2>3. ASSUME NEW b \in BOOLEAN, op' = [op EXCEPT ![w].renewing = b, ![w].due = clock + RenewInterval]
        PROVE  Becomes(w, [op[w] EXCEPT !.renewing = b, !.due = clock + RenewInterval])
    BY <2>2, <2>3 DEF Becomes
  <2>4. op[w].renewing /\ clock >= op[w].due /\ lastId' = lastId /\ UNCHANGED <<clock, overran>>
    BY <1>7 DEF Renew
  <2>5. Extendable(row, op[w].id, op[w].fp) \in BOOLEAN
    BY DEF Extendable
  <2>6. \/ /\ NoFault /\ ExtendProcessingLock(op[w].id, op[w].fp, clock)
           /\ op' = [op EXCEPT ![w].renewing = Extendable(row, op[w].id, op[w].fp),
                               ![w].due = clock + RenewInterval]
        \/ /\ Fails /\ UNCHANGED table
           /\ op' = [op EXCEPT ![w].renewing = TRUE, ![w].due = clock + RenewInterval]
    <3>1. PICK failed \in BOOLEAN :
            /\ \/ ~failed /\ NoFault /\ ExtendProcessingLock(op[w].id, op[w].fp, clock)
               \/ failed /\ Fails /\ UNCHANGED table
            /\ op' = [op EXCEPT ![w].renewing = KeepsRenewing(w, failed),
                                ![w].due = clock + RenewInterval]
      BY <1>7 DEF Renew
    <3>2. CASE failed = TRUE
      <4>1. KeepsRenewing(w, failed) = TRUE
        BY <3>2 DEF KeepsRenewing
      <4> QED
        BY <3>1, <3>2, <4>1
    <3>3. CASE failed = FALSE
      <4>1. KeepsRenewing(w, failed) = Extendable(row, op[w].id, op[w].fp)
        BY <2>5, <3>3 DEF KeepsRenewing
      <4> QED
        BY <3>1, <3>3, <4>1
    <3> QED
      BY <3>2, <3>3
  <2>7. CASE /\ NoFault /\ ExtendProcessingLock(op[w].id, op[w].fp, clock)
             /\ op' = [op EXCEPT ![w].renewing = Extendable(row, op[w].id, op[w].fp),
                                 ![w].due = clock + RenewInterval]
    BY <1>1, <2>1, <2>3, <2>4, <2>5, <2>7 DEF NoFault, Renews, Acts
  <2>8. CASE /\ Fails /\ UNCHANGED table
             /\ op' = [op EXCEPT ![w].renewing = TRUE, ![w].due = clock + RenewInterval]
    BY <1>1, <1>3, <2>3, <2>4, <2>8 DEF Renews, Acts
  <2> QED
    BY <2>6, <2>7, <2>8
<1>8. CASE EndOperation(w)
  <2>1. PICK end \in {"succeeded", "failed"} :
           op' = [op EXCEPT ![w].pc = end, ![w].renewing = FALSE, ![w].now = clock]
    BY <1>8 DEF EndOperation, Ends
  <2>2. [op[w] EXCEPT !.pc = end, !.renewing = FALSE, !.now = clock] \in Operations
    BY <1>1 DEF Operations, OpPcs
  <2>3. Becomes(w, [op[w] EXCEPT !.pc = end, !.renewing = FALSE, !.now = clock])
    BY <2>1, <2>2 DEF Becomes
  <2> QED
    BY <1>1, <1>3, <1>8, <2>3 DEF EndOperation, Finishes, Acts
<1>9. CASE Release(w)
  <2>1. /\ MarkSucceeded(op[w].id, op[w].fp, clock + TTL) =>
             table' \in [Keys -> Row] /\ row' = IF row.id = op[w].id THEN Succeeded(op[w].fp, clock + TTL) ELSE row
        /\ MarkFailedRetryable(op[w].id, clock, clock + TTL) =>
             table' \in [Keys -> Row] /\ row' = IF row.id = op[w].id THEN Failed(clock, clock + TTL) ELSE row
    BY <1>1, RowStatements
  <2>2. op[w].pc \in {"succeeded", "failed"} /\ lastId' = lastId /\ UNCHANGED <<clock, overran>> /\ Becomes(w, NoOperation)
    BY <1>2, <1>9 DEF Release
  <2>3. \/ /\ NoFault \/ Fails
           /\ \/ MarkSucceeded(op[w].id, op[w].fp, clock + TTL)
              \/ MarkFailedRetryable(op[w].id, clock, clock + TTL)
        \/ Fails /\ UNCHANGED table
    BY <1>9 DEF Release
  <2> QED
    BY <1>1, <1>3, <2>1, <2>2, <2>3 DEF NoFault, Releases, Acts
<1>10. CASE Crash(w)
  BY <1>1, <1>2, <1>3, <1>10 DEF Crash, Dies, Acts
<1> QED
  BY <1>4, <1>5, <1>6, <1>7, <1>8, <1>9, <1>10

----------------------------------------------------------------------------
(* Types *)

\* An action moves its own operation only, and at most one failure is counted.
LEMMA ActsMove ==
  ASSUME TypeOK, NEW w \in Workers, Acts(w)
  PROVE  /\ op' \in [Workers -> Operations] /\ Others(w) /\ op'[w] \in Operations
         /\ faults' = faults \/ (faults < MaxFaults /\ faults' = faults + 1)
         /\ faults \in Nat /\ faults' \in 0..MaxFaults
<1>1. op \in [Workers -> Operations] /\ faults \in 0..MaxFaults
  BY DEF TypeOK
<1>2. \A q : Becomes(w, q) => op' \in [Workers -> Operations] /\ Others(w) /\ op'[w] \in Operations
  BY <1>1, OpMoves
<1>3. faults' = faults \/ (faults < MaxFaults /\ faults' = faults + 1)
  BY DEF Acts, Creates, Gets, Reclaims, Renews, Finishes, Releases, Dies, Fails
<1>4. op' \in [Workers -> Operations] /\ Others(w) /\ op'[w] \in Operations
  BY <1>2 DEF Acts, Creates, Gets, Reclaims, Renews, Finishes, Releases, Dies
<1> QED
  BY <1>1, <1>3, <1>4, Bounds

\* Every step keeps the types.
LEMMA TypeSteps == ASSUME TypeOK, [Next]_vars PROVE TypeOK'
<1>1. /\ TableOK /\ table \in [Keys -> Row] /\ lastId \in Nat /\ clock \in 1..MaxClock
      /\ op \in [Workers -> Operations] /\ faults \in 0..MaxFaults /\ overran \in BOOLEAN
  BY DEF TypeOK, TableOK
<1>2. ASSUME NEW w \in Workers,
             \/ CreateProcessing(w) \/ GetExisting(w) \/ Reclaim(w) \/ Renew(w)
             \/ EndOperation(w) \/ Release(w) \/ Crash(w)
      PROVE  TypeOK'
  BY <1>1, <1>2, Actions, ActsMove DEF TypeOK, TableOK
<1>3. ASSUME NEW w \in Workers, NEW fp \in Fingerprints, Begin(w, fp) PROVE TypeOK'
  <2>1. op' \in [Workers -> Operations]
    BY <1>1, <1>3, OpTypes, OpMoves
  <2> QED
    BY <1>1, <1>3, <2>1 DEF Begin, TypeOK, TableOK
<1>4. CASE Cleanup
  <2>1. table' \in [Keys -> Row]
    BY <1>1, <1>4, RowStatements DEF Cleanup, DeleteExpired, NoRow, Row, RowStatuses
  <2> QED
    BY <1>1, <1>4, <2>1 DEF Cleanup, DeleteExpired, TypeOK, TableOK
<1>5. CASE Tick
  <2>1. clock' \in 1..MaxClock
    BY <1>1, <1>5, Bounds DEF Tick
  <2>2. overran' \in BOOLEAN
    BY <1>1, <1>5 DEF Tick
  <2> QED
    BY <1>1, <1>5, <2>1, <2>2 DEF Tick, TypeOK, TableOK
<1>6. CASE UNCHANGED vars
  BY <1>1, <1>6 DEF vars, TypeOK, TableOK
<1> QED
  BY <1>2, <1>3, <1>4, <1>5, <1>6 DEF Next

\* Every variable has the shape the code gives it.
THEOREM TypeCorrect == Spec => []TypeOK
<1>1. Init => TypeOK
  <2> SUFFICES ASSUME Init PROVE TypeOK
    OBVIOUS
  <2>1. NoRow \in Row /\ NoOperation \in Operations
    BY DEF NoRow, Row, RowStatuses, NoOperation, Operations, OpPcs
  <2>2. 1 \in 1..MaxClock /\ 0 \in 0..MaxFaults
    BY Bounds
  <2> QED
    BY <2>1, <2>2 DEF Init, TableInit, TypeOK, TableOK
<1>2. TypeOK /\ [Next]_vars => TypeOK'
  BY TypeSteps
<1> QED
  BY <1>1, <1>2, PTL DEF Spec

----------------------------------------------------------------------------
(* Ids, leases and times *)

Known ==
    /\ row.id <= lastId /\ (row.id = 0 => row = NoRow)
    /\ row.locked <= clock + Lease
    /\ \A w \in Workers :
         /\ op[w].id <= lastId /\ op[w].now <= clock
         /\ op[w].renewing => At(w, "run")
         /\ op[w].pc \in {"reclaim", "run", "succeeded", "failed"} => op[w].id # 0

\* An action writes a lease from a time that has come, and gives out the next id.
LEMMA KnownActs ==
  ASSUME TypeOK, Known, NEW w \in Workers, Acts(w), UNCHANGED clock
  PROVE  /\ Known'
         /\ row'.id \in {row.id, lastId + 1} /\ lastId' >= lastId
<1> DEFINE RowKnown == /\ row'.id <= lastId' /\ (row'.id = 0 => row' = NoRow)
                       /\ row'.locked <= clock + Lease
                       /\ row'.id \in {row.id, lastId + 1} /\ lastId' >= lastId
           OpKnown == /\ op'[w].id <= lastId' /\ op'[w].now <= clock
                      /\ op'[w].renewing => op'[w].pc = "run"
                      /\ op'[w].pc \in {"reclaim", "run", "succeeded", "failed"} => op'[w].id # 0
<1>1. /\ clock \in Nat /\ op[w] \in Operations /\ Others(w)
      /\ row \in Row /\ lastId \in Nat /\ lastId' \in Nat /\ lastId' >= lastId
  <2>1. clock \in Nat /\ op[w] \in Operations /\ Others(w)
    BY ClockType, ActsMove, OpTypes DEF TypeOK
  <2>2. row \in Row /\ lastId \in Nat
    BY Bounds DEF TypeOK, TableOK, row
  <2>3. lastId' \in {lastId, lastId + 1}
    BY DEF Acts, Creates, Gets, Reclaims, Renews, Finishes, Releases, Dies
  <2> QED
    BY <2>1, <2>2, <2>3
<1>2. /\ row.id <= lastId /\ (row.id = 0 => row = NoRow) /\ row.locked <= clock + Lease
      /\ op[w].id <= lastId /\ op[w].now <= clock /\ (op[w].renewing => At(w, "run"))
      /\ op[w].pc \in {"reclaim", "run", "succeeded", "failed"} => op[w].id # 0
  BY DEF Known
<1>3. \A q : Becomes(w, q) => op'[w] = q
  BY OpMoves DEF TypeOK
<1>4. /\ op[w].id \in Nat /\ op[w].now \in Nat /\ row.id \in Nat /\ row.locked \in Nat
      /\ TTL \in Nat /\ Lease \in Nat
  BY <1>1, Bounds DEF Operations, Row
<1>5. row' = row /\ lastId' = lastId => RowKnown
  BY <1>1, <1>2, <1>4
<1>6. op'[w] = NoOperation /\ lastId' >= lastId => OpKnown
  <2>1. NoOperation.id = 0 /\ NoOperation.now = 0 /\ NoOperation.renewing = FALSE /\ NoOperation.pc = "idle"
    BY DEF NoOperation
  <2> QED
    BY <1>1, <2>1
<1>7. RowKnown /\ OpKnown
  <2>1. CASE Creates(w)
    <3>1. CASE row' = Inserted(op[w].fp, op[w].now) /\ lastId' = lastId + 1
      <4>1. RowKnown
        BY <1>1, <1>2, <1>4, <3>1 DEF Inserted
      <4>2. op'[w] = Ran(w, lastId + 1, TRUE) \/ op'[w] = [op[w] EXCEPT !.pc = "get"] \/ op'[w] = NoOperation
        BY <1>3, <2>1 DEF Creates
      <4>3. op'[w] = Ran(w, lastId + 1, TRUE) => OpKnown
        BY <1>1, <3>1 DEF Ran, NoOperation
      <4>4. op'[w] = [op[w] EXCEPT !.pc = "get"] => OpKnown
        BY <1>1, <1>2, <1>4, <2>1, <3>1 DEF Creates, At, Operations
      <4> QED
        BY <1>1, <1>6, <3>1, <4>1, <4>2, <4>3, <4>4
    <3>2. CASE row' = row /\ lastId' = lastId /\ Becomes(w, [op[w] EXCEPT !.pc = "get"])
      <4>1. op'[w] = [op[w] EXCEPT !.pc = "get"]
        BY <1>3, <3>2
      <4>2. OpKnown
        BY <1>1, <1>2, <1>4, <2>1, <3>2, <4>1 DEF Creates, At, Operations
      <4> QED
        BY <1>5, <3>2, <4>2
    <3>3. CASE row' = row /\ lastId' = lastId /\ Becomes(w, NoOperation)
      BY <1>1, <1>3, <1>5, <1>6, <3>3
    <3> QED
      BY <2>1, <3>1, <3>2, <3>3 DEF Creates
  <2>2. CASE Gets(w)
    <3>1. \/ op'[w] = NoOperation
          \/ row.id # 0 /\ op'[w] = [op[w] EXCEPT !.pc = "reclaim", !.id = row.id, !.from = row.status]
      BY <1>3, <2>2 DEF Gets
    <3>2. row' = row /\ lastId' = lastId /\ ~op[w].renewing
      BY <1>2, <2>2 DEF Gets, At
    <3>3. CASE row.id # 0 /\ op'[w] = [op[w] EXCEPT !.pc = "reclaim", !.id = row.id, !.from = row.status]
      <4>1. op'[w].id = row.id /\ op'[w].now = op[w].now /\ op'[w].renewing = op[w].renewing
        BY <1>1, <3>3 DEF Operations
      <4> QED
        BY <1>1, <1>2, <1>5, <3>2, <3>3, <4>1
    <3> QED
      BY <1>1, <1>5, <1>6, <3>1, <3>2, <3>3
  <2>3. CASE Reclaims(w)
    <3>1. CASE row.id = op[w].id /\ row' = Leased(op[w].now)
      <4>1. RowKnown
        <5>1. row'.id = row.id /\ row'.locked = op[w].now + Lease /\ row.id # 0 /\ lastId' = lastId
          BY <1>1, <1>2, <2>3, <3>1 DEF Leased, Row, Reclaims, At
        <5> QED
          BY <1>1, <1>2, <1>4, <5>1
      <4>2. op'[w] = Ran(w, op[w].id, FALSE) \/ op'[w] = NoOperation
        BY <1>3, <2>3 DEF Reclaims
      <4>3. op'[w] = Ran(w, op[w].id, FALSE) => OpKnown
        BY <1>1, <1>2, <1>4, <2>3 DEF Ran, NoOperation, Reclaims, At
      <4> QED
        BY <1>1, <1>6, <2>3, <4>1, <4>2, <4>3 DEF Reclaims
    <3>2. CASE row' = row /\ Becomes(w, NoOperation)
      BY <1>1, <1>3, <1>5, <1>6, <2>3, <3>2 DEF Reclaims
    <3> QED
      BY <2>3, <3>1, <3>2 DEF Reclaims
  <2>4. CASE Renews(w)
    <3>1. op'[w].id = op[w].id /\ op'[w].now = op[w].now /\ op'[w].pc = op[w].pc /\ lastId' = lastId
      BY <1>1, <1>3, <2>4 DEF Renews, Operations
    <3>2. OpKnown
      BY <1>2, <2>4, <3>1 DEF Renews, At
    <3>3. row' = row \/ (row' = Renewed(clock) /\ Extendable(row, op[w].id, op[w].fp))
      BY <2>4 DEF Renews
    <3>4. row' = Renewed(clock) => row'.id = row.id /\ row'.locked = clock + Lease
      BY <1>1 DEF Renewed, Row
    <3>5. Extendable(row, op[w].id, op[w].fp) => row.id # 0
      BY <1>2, <2>4 DEF Extendable, Renews, At
    <3>6. RowKnown
      BY <1>1, <1>2, <1>4, <3>1, <3>3, <3>4, <3>5
    <3> QED
      BY <3>2, <3>6
  <2>5. CASE Finishes(w)
    <3>1. /\ op'[w].id = op[w].id /\ op'[w].now = clock /\ op'[w].renewing = FALSE
          /\ row' = row /\ lastId' = lastId /\ op[w].id # 0
      BY <1>1, <1>2, <1>3, <2>5 DEF Finishes, Operations, At
    <3> QED
      BY <1>1, <1>2, <1>5, <3>1
  <2>6. CASE Releases(w)
    <3>1. op'[w] = NoOperation /\ lastId' = lastId /\ op[w].id # 0
      BY <1>2, <1>3, <2>6 DEF Releases
    <3>2. CASE row.id = op[w].id /\ (row' = Succeeded(op[w].fp, clock + TTL) \/ row' = Failed(clock, clock + TTL))
      <4>1. row'.id = row.id /\ row'.locked \in {0, clock}
        BY <1>1, <3>2 DEF Succeeded, Failed, Row
      <4> QED
        BY <1>1, <1>2, <1>4, <1>6, <3>1, <3>2, <4>1
    <3>3. CASE row' = row
      BY <1>1, <1>5, <1>6, <3>1, <3>3
    <3> QED
      BY <2>6, <3>2, <3>3 DEF Releases
  <2>7. CASE Dies(w)
    BY <1>1, <1>3, <1>5, <1>6, <2>7 DEF Dies
  <2> QED
    BY <2>1, <2>2, <2>3, <2>4, <2>5, <2>6, <2>7 DEF Acts
<1>8. ASSUME NEW v \in Workers, v # w
      PROVE  /\ op'[v].id <= lastId' /\ op'[v].now <= clock
             /\ op'[v].renewing => op'[v].pc = "run"
             /\ op'[v].pc \in {"reclaim", "run", "succeeded", "failed"} => op'[v].id # 0
  <2>1. op'[v] = op[v] /\ op[v].id \in Nat
    BY <1>1, <1>8 DEF Others, TypeOK, Operations
  <2> QED
    BY <1>1, <2>1 DEF Known, At
<1> QED
  BY <1>7, <1>8 DEF Known, At

\* The steps that are no action of a request, one request or one row at a time.
LEMMA OtherSteps ==
  ASSUME TypeOK, Known
  PROVE  /\ \A w \in Workers, fp \in Fingerprints :
              Begin(w, fp) =>
                /\ At(w, "idle") /\ Others(w) /\ row' = row
                /\ op'[w] = [NoOperation EXCEPT !.pc = "create", !.fp = fp, !.now = clock]
         /\ Cleanup => row' = NoRow
<1>1. ASSUME NEW w \in Workers, NEW fp \in Fingerprints, Begin(w, fp)
      PROVE  /\ At(w, "idle") /\ Others(w) /\ row' = row
             /\ op'[w] = [NoOperation EXCEPT !.pc = "create", !.fp = fp, !.now = clock]
  <2>1. Others(w) /\ op'[w] = [NoOperation EXCEPT !.pc = "create", !.fp = fp, !.now = clock]
    BY <1>1, OpTypes, OpMoves DEF TypeOK
  <2> QED
    BY <1>1, <2>1 DEF Begin, row
<1>2. ASSUME Cleanup PROVE row' = NoRow
  BY <1>2, Bounds DEF Cleanup, DeleteExpired, TypeOK, TableOK, row
<1> QED
  BY <1>1, <1>2

\* Every step keeps the bounds on ids, leases and times.
LEMMA KnownSteps == ASSUME TypeOK, Known, [Next]_vars PROVE Known'
<1>1. /\ clock \in Nat /\ lastId \in Nat /\ row \in Row /\ op \in [Workers -> Operations]
      /\ Lease \in Nat
  BY ClockType, Bounds DEF TypeOK, TableOK, row
<1>2. ASSUME NEW w \in Workers,
             \/ CreateProcessing(w) \/ GetExisting(w) \/ Reclaim(w) \/ Renew(w)
             \/ EndOperation(w) \/ Release(w) \/ Crash(w)
      PROVE  Known'
  BY <1>2, Actions, KnownActs
<1>3. ASSUME NEW w \in Workers, NEW fp \in Fingerprints, Begin(w, fp) PROVE Known'
  <2>1. /\ Others(w) /\ row' = row /\ UNCHANGED <<lastId, clock>>
        /\ op'[w] = [NoOperation EXCEPT !.pc = "create", !.fp = fp, !.now = clock]
    BY <1>3, OtherSteps DEF Begin
  <2>2. op'[w].pc = "create" /\ op'[w].id = 0 /\ op'[w].now = clock /\ op'[w].renewing = FALSE
    BY <2>1 DEF NoOperation
  <2>3. ASSUME NEW v \in Workers
        PROVE  /\ op'[v].id <= lastId' /\ op'[v].now <= clock'
               /\ op'[v].renewing => op'[v].pc = "run"
               /\ op'[v].pc \in {"reclaim", "run", "succeeded", "failed"} => op'[v].id # 0
    <3>1. CASE v = w
      <4>1. op'[v].id = 0 /\ op'[v].now = clock /\ op'[v].pc = "create" /\ op'[v].renewing = FALSE
        BY <2>2, <3>1
      <4>2. op'[v].id <= lastId' /\ op'[v].now <= clock'
        BY <1>1, <2>1, <4>1
      <4> QED
        BY <4>1, <4>2
    <3>2. CASE v # w
      BY <2>1, <3>2 DEF Known, Others, At
    <3> QED
      BY <3>1, <3>2
  <2>4. row'.id <= lastId' /\ (row'.id = 0 => row' = NoRow) /\ row'.locked <= clock' + Lease
    BY <2>1 DEF Known
  <2> QED
    BY <2>3, <2>4 DEF Known, At
<1>4. CASE Cleanup
  <2>1. row' = NoRow /\ UNCHANGED <<lastId, clock, op>>
    BY <1>4, OtherSteps DEF Cleanup, DeleteExpired
  <2>2. NoRow.id = 0 /\ NoRow.locked = 0
    BY DEF NoRow
  <2> QED
    BY <1>1, <2>1, <2>2 DEF Known, At
<1>5. CASE Tick
  <2>1. clock' = clock + 1 /\ row' = row /\ UNCHANGED <<lastId, op>>
    BY <1>5 DEF Tick, row
  <2>2. row.locked \in Nat /\ \A w \in Workers : op[w].now \in Nat
    BY <1>1 DEF Row, Operations
  <2> QED
    BY <1>1, <2>1, <2>2 DEF Known, At
<1>6. CASE UNCHANGED vars
  BY <1>6 DEF vars, Known, At, row
<1> QED
  BY <1>2, <1>3, <1>4, <1>5, <1>6 DEF Next

----------------------------------------------------------------------------
(* The lock is released *)

\* With no failure, a processing row belongs to a request that will release it.
Owner(w) == op[w].pc \in {"run", "succeeded", "failed"}
Worked ==
    row.status = "processing" /\ faults = 0 => \E w \in Workers : Owner(w) /\ op[w].id = row.id

\* As long as nothing fails, a row in use keeps an operation that will release it.
LEMMA WorkedSteps == ASSUME TypeOK, Known, Worked, [Next]_vars PROVE Worked'
<1>1. op \in [Workers -> Operations] /\ row \in Row /\ faults \in Nat
  BY Bounds DEF TypeOK, TableOK, row
<1>2. ASSUME NEW w \in Workers, Acts(w), row'.status = "processing", faults' = 0
      PROVE  \E v \in Workers : Owner(v)' /\ op'[v].id = row'.id
  <2>1. faults' = faults /\ faults = 0 /\ Others(w)
    BY <1>1, <1>2, ActsMove
  <2>2. \A q : Becomes(w, q) => op'[w] = q
    BY <1>1, OpMoves
  <2>3. ~Fails
    BY <1>1, <2>1 DEF Fails
  <2>4. ASSUME row'.id = row.id, row'.status = row.status,
               Owner(w) /\ op[w].id = row.id => Owner(w)' /\ op'[w].id = row.id
        PROVE  \E v \in Workers : Owner(v)' /\ op'[v].id = row'.id
    <3>1. PICK v \in Workers : Owner(v) /\ op[v].id = row.id
      BY <1>2, <2>1, <2>4 DEF Worked
    <3> QED
      BY <2>1, <2>4, <3>1 DEF Others, Owner
  <2>5. CASE Creates(w)
    <3>1. CASE row' = Inserted(op[w].fp, op[w].now) /\ Becomes(w, Ran(w, lastId + 1, TRUE))
      BY <2>2, <3>1 DEF Inserted, Ran, NoOperation, Owner
    <3>2. CASE row' = row
      BY <2>4, <2>5, <3>2 DEF Creates, At, Owner
    <3> QED
      BY <2>3, <2>5, <3>1, <3>2 DEF Creates
  <2>6. CASE Gets(w)
    <3>1. ~Owner(w) /\ row' = row
      BY <2>6 DEF Gets, At, Owner
    <3> QED
      BY <2>4, <3>1
  <2>7. CASE Reclaims(w)
    <3>1. CASE row.id = op[w].id /\ row' = Leased(op[w].now) /\ Becomes(w, Ran(w, op[w].id, FALSE))
      <4>1. op'[w].pc = "run" /\ op'[w].id = op[w].id /\ row'.id = row.id
        <5>1. op'[w] = Ran(w, op[w].id, FALSE)
          BY <2>2, <3>1
        <5>2. op'[w].pc = "run" /\ op'[w].id = op[w].id
          BY <5>1 DEF Ran, NoOperation
        <5>3. row \in Row
          BY <1>1
        <5>4. row'.id = row.id
          BY <3>1, <5>3 DEF Leased, Row
        <5> QED
          BY <5>2, <5>4
      <4> QED
        BY <3>1, <4>1 DEF Owner
    <3>2. CASE row' = row
      BY <2>4, <2>7, <3>2 DEF Reclaims, At, Owner
    <3> QED
      BY <2>3, <2>7, <3>1, <3>2 DEF Reclaims
  <2>8. CASE Renews(w)
    <3>1. op'[w].id = op[w].id /\ op'[w].pc = op[w].pc
      <4>1. op[w] \in Operations
        BY <1>1
      <4>2. PICK b, d : op'[w] = [op[w] EXCEPT !.renewing = b, !.due = d]
        BY <2>2, <2>8 DEF Renews
      <4> QED
        BY <4>1, <4>2 DEF Operations
    <3>2. row'.id = row.id /\ row'.status = row.status
      BY <1>1, <2>8 DEF Renews, Renewed, Row
    <3> QED
      BY <2>4, <3>1, <3>2 DEF Owner
  <2>9. CASE Finishes(w)
    <3>1. op'[w].id = op[w].id /\ op'[w].pc \in {"succeeded", "failed"} /\ row' = row
      BY <1>1, <2>2, <2>9 DEF Finishes, Operations
    <3> QED
      BY <2>4, <3>1 DEF Owner
  <2>10. CASE Releases(w)
    <3>1. CASE row' = Succeeded(op[w].fp, clock + TTL) \/ row' = Failed(clock, clock + TTL)
      BY <1>1, <1>2, <3>1 DEF Succeeded, Failed, Row
    <3>2. CASE row.id # op[w].id /\ row' = row
      BY <2>4, <3>2
    <3> QED
      BY <2>3, <2>10, <3>1, <3>2 DEF Releases
  <2> QED
    BY <1>2, <2>3, <2>5, <2>6, <2>7, <2>8, <2>9, <2>10 DEF Acts, Dies
<1>3. ASSUME NEW w \in Workers,
             \/ CreateProcessing(w) \/ GetExisting(w) \/ Reclaim(w) \/ Renew(w)
             \/ EndOperation(w) \/ Release(w) \/ Crash(w)
      PROVE  Worked'
  BY <1>2, <1>3, Actions DEF Worked
<1>4. ASSUME NEW w \in Workers, NEW fp \in Fingerprints, Begin(w, fp) PROVE Worked'
  <2>1. /\ At(w, "idle") /\ Others(w) /\ row' = row /\ faults' = faults
    BY <1>4, OtherSteps DEF Begin
  <2> QED
    BY <2>1 DEF Worked, Others, Owner, At
<1>5. CASE Cleanup
  <2>1. row' = NoRow
    BY <1>5, OtherSteps
  <2>2. NoRow.status = "none"
    BY DEF NoRow
  <2> QED
    BY <2>1, <2>2 DEF Worked
<1>6. CASE UNCHANGED <<table, op, faults>>
  BY <1>6 DEF Worked, Owner, row
<1> QED
  BY <1>3, <1>4, <1>5, <1>6 DEF Next, Tick, vars

\* The types and what is known of ids, leases and owners hold together.
LEMMA AlwaysKnown == Spec => [](TypeOK /\ Known /\ Worked)
<1>1. Init => Known /\ Worked
  <2> SUFFICES ASSUME Init PROVE Known /\ Worked
    OBVIOUS
  <2>1. row = NoRow /\ lastId = 0 /\ clock = 1 /\ \A w \in Workers : op[w] = NoOperation
    BY Bounds DEF Init, TableInit, row
  <2>2. /\ NoRow.id = 0 /\ NoRow.locked = 0 /\ NoRow.status = "none"
        /\ NoOperation.id = 0 /\ NoOperation.now = 0 /\ NoOperation.pc = "idle"
        /\ NoOperation.renewing = FALSE
    BY DEF NoRow, NoOperation
  <2>3. 1 + Lease \in Nat
    BY Bounds
  <2> QED
    BY <2>1, <2>2, <2>3 DEF Known, Worked, At
<1>2. TypeOK /\ Known /\ Worked /\ [Next]_vars => Known' /\ Worked'
  BY KnownSteps, WorkedSteps
<1> QED
  BY <1>1, <1>2, TypeCorrect, PTL DEF Spec

\* A lock that no operation is left to release was left by a failure, and for
\* no longer than the lease.
THEOREM LockReleased == Spec => []ReleasedOrLeased
<1>1. TypeOK /\ Known /\ Worked => ReleasedOrLeased
  <2> SUFFICES ASSUME TypeOK, Known, Worked, \A w \in Workers : At(w, "idle"), row.status = "processing"
               PROVE  faults > 0 /\ row.locked <= clock + Lease
    BY DEF ReleasedOrLeased
  <2>1. faults # 0
    BY DEF Worked, Owner, At
  <2>2. faults \in Nat
    BY Bounds DEF TypeOK
  <2> QED
    BY <2>1, <2>2 DEF Known
<1> QED
  BY <1>1, AlwaysKnown, PTL

----------------------------------------------------------------------------
(* The lock is exclusive while it is fresh *)

\* Until a claim, a release or a renewal is late.
Punctual ==
    ~overran => \A w \in Workers :
      /\ At(w, "create") => clock < op[w].now + RenewInterval
      /\ op[w].renewing => clock <= op[w].due

\* The time that is left for the failures that may still happen.
Slack == (MaxFaults - faults) * RenewInterval

\* The row that v has inserted is its own, and its lease outlasts the next
\* renewal, even if that one fails as often as anything still can.
HeldBy(v) ==
    /\ \A w \in Workers : w # v /\ Owner(w) => op[w].id # op[v].id
    /\ row.id = op[v].id =>
         /\ row.status = "processing" /\ row.fp = op[v].fp
         /\ op[v].renewing
         /\ row.locked > op[v].due + Slack
Held == ~overran => \A v \in Workers : Running(v) /\ op[v].fresh => HeldBy(v)

\* Every step keeps claims and renewals on time, until one overran.
LEMMA PunctualSteps == ASSUME TypeOK, Known, Punctual, [Next]_vars PROVE Punctual'
<1>1. /\ clock \in Nat /\ RenewInterval \in Nat /\ RenewInterval >= 1 /\ op \in [Workers -> Operations]
  BY ClockType, Bounds DEF TypeOK
<1>2. ASSUME NEW w \in Workers, Acts(w), UNCHANGED <<clock, overran>> PROVE Punctual'
  <2>1. Others(w)
    BY <1>2, ActsMove
  <2>2. \A q : Becomes(w, q) => op'[w] = q
    BY <1>1, OpMoves
  <2>3. op'[w].pc # "create" /\ (op'[w].renewing => op'[w].due = clock + RenewInterval)
    <3>1. NoOperation.pc # "create" /\ NoOperation.renewing = FALSE
      BY DEF NoOperation
    <3>2. \A id, fresh : Ran(w, id, fresh).pc = "run" /\ Ran(w, id, fresh).due = clock + RenewInterval
      BY DEF Ran, NoOperation
    <3>3. op[w] \in Operations /\ (op[w].renewing => At(w, "run"))
      BY <1>1 DEF Known
    <3>4. CASE Creates(w)
      <4>1. \/ op'[w] = Ran(w, lastId + 1, TRUE) \/ op'[w] = NoOperation
            \/ op'[w] = [op[w] EXCEPT !.pc = "get"]
        BY <2>2, <3>4 DEF Creates
      <4>2. op'[w] = [op[w] EXCEPT !.pc = "get"] =>
              op'[w].pc = "get" /\ op'[w].renewing = op[w].renewing
        BY <3>3 DEF Operations
      <4>3. ~op[w].renewing
        BY <3>3, <3>4 DEF Creates, At
      <4>4. CASE op'[w] = Ran(w, lastId + 1, TRUE)
        BY <3>2, <4>4
      <4>5. CASE op'[w] = NoOperation
        BY <3>1, <4>5
      <4>6. CASE op'[w] = [op[w] EXCEPT !.pc = "get"]
        BY <4>2, <4>3, <4>6
      <4> QED
        BY <4>1, <4>4, <4>5, <4>6
    <3>5. CASE Gets(w)
      BY <2>2, <3>1, <3>3, <3>5 DEF Gets, Operations, At
    <3>6. CASE Reclaims(w)
      BY <2>2, <3>1, <3>2, <3>6 DEF Reclaims
    <3>7. CASE Renews(w)
      BY <2>2, <3>3, <3>7 DEF Renews, Operations, At
    <3>8. CASE Finishes(w)
      BY <2>2, <3>3, <3>8 DEF Finishes, Operations
    <3>9. CASE Releases(w) \/ Dies(w)
      BY <2>2, <3>1, <3>9 DEF Releases, Dies
    <3> QED
      BY <1>2, <3>4, <3>5, <3>6, <3>7, <3>8, <3>9 DEF Acts
  <2>4. clock <= clock + RenewInterval
    BY <1>1
  <2> QED
    BY <1>2, <2>1, <2>3, <2>4 DEF Punctual, Others, At
<1>3. ASSUME NEW w \in Workers,
             \/ CreateProcessing(w) \/ GetExisting(w) \/ Reclaim(w) \/ Renew(w)
             \/ EndOperation(w) \/ Release(w) \/ Crash(w)
      PROVE  Punctual'
  BY <1>2, <1>3, Actions
<1>4. ASSUME NEW w \in Workers, NEW fp \in Fingerprints, Begin(w, fp) PROVE Punctual'
  <2>1. /\ Others(w) /\ UNCHANGED <<clock, overran>>
        /\ op'[w] = [NoOperation EXCEPT !.pc = "create", !.fp = fp, !.now = clock]
    BY <1>4, OtherSteps DEF Begin
  <2>2. op'[w].now = clock /\ op'[w].renewing = FALSE
    BY <2>1 DEF NoOperation
  <2>3. clock < clock + RenewInterval
    BY <1>1
  <2> QED
    BY <2>1, <2>2, <2>3 DEF Punctual, Others, At
<1>5. CASE Tick
  <2> SUFFICES ASSUME ~overran', NEW w \in Workers
               PROVE  /\ At(w, "create") => clock' < op[w].now + RenewInterval
                      /\ op[w].renewing => clock' <= op[w].due
    BY <1>5 DEF Punctual, Tick, At
  <2>1. clock' = clock + 1 /\ ~Late(w, clock + 1)
    BY <1>5 DEF Tick
  <2>2. op[w].now \in Nat /\ op[w].due \in Nat
    BY <1>1 DEF Operations
  <2> QED
    BY <1>1, <2>1, <2>2 DEF Late, At
<1>6. CASE UNCHANGED <<op, clock, overran>>
  BY <1>6 DEF Punctual, At
<1> QED
  BY <1>3, <1>4, <1>5, <1>6 DEF Next, Cleanup, DeleteExpired, vars

\* What is left for failures shrinks by a renewal interval with each of them.
LEMMA SlackFacts ==
  ASSUME TypeOK, (MaxFaults + 2) * RenewInterval <= Lease
  PROVE  /\ Slack \in Nat /\ Slack + 2 * RenewInterval <= Lease
         /\ faults' = faults => Slack' = Slack
         /\ faults < MaxFaults /\ faults' = faults + 1 =>
              Slack' \in Nat /\ Slack = Slack' + RenewInterval
<1>1. /\ faults \in Nat /\ MaxFaults \in Nat /\ faults <= MaxFaults
      /\ RenewInterval \in Nat /\ Lease \in Nat
  BY Bounds DEF TypeOK
<1>2. \A n, r \in Nat : n * r \in Nat
  OBVIOUS
<1>3. PICK left \in Nat : left = MaxFaults - faults
  BY <1>1
<1>4. Slack = left * RenewInterval /\ Slack \in Nat
  BY <1>1, <1>2, <1>3 DEF Slack
<1>5. Slack + 2 * RenewInterval <= Lease
  <2>1. (MaxFaults + 2) * RenewInterval = left * RenewInterval + faults * RenewInterval + 2 * RenewInterval
    BY <1>1, <1>3
  <2>2. faults * RenewInterval \in Nat
    BY <1>1, <1>2
  <2> QED
    BY <1>1, <1>4, <2>1, <2>2
<1>6. ASSUME faults < MaxFaults, faults' = faults + 1
      PROVE  Slack' \in Nat /\ Slack = Slack' + RenewInterval
  <2>1. PICK rest \in Nat : rest = MaxFaults - (faults + 1)
    BY <1>1, <1>6
  <2>2. Slack' = rest * RenewInterval /\ Slack' \in Nat
    BY <1>1, <1>2, <1>6, <2>1 DEF Slack
  <2>3. left * RenewInterval = rest * RenewInterval + RenewInterval
    BY <1>1, <1>3, <2>1
  <2> QED
    BY <1>4, <2>2, <2>3
<1> QED
  BY <1>4, <1>5, <1>6 DEF Slack

\* A step of a worker leaves the lock with the operation that runs under it.
LEMMA HeldActs ==
  ASSUME TypeOK, Known, Punctual, Held, (MaxFaults + 2) * RenewInterval <= Lease,
         NEW w \in Workers, Acts(w), UNCHANGED <<clock, overran>>
  PROVE  Held'
<1> SUFFICES ASSUME ~overran, NEW v \in Workers, Running(v)', op'[v].fresh
             PROVE  HeldBy(v)'
  BY DEF Held
<1>1. /\ clock \in Nat /\ lastId \in Nat /\ row \in Row /\ op \in [Workers -> Operations]
      /\ RenewInterval \in Nat /\ RenewInterval >= 1 /\ Lease \in Nat /\ Slack \in Nat
      /\ Slack + 2 * RenewInterval <= Lease /\ faults \in Nat
      /\ op[w] \in Operations /\ op[v] \in Operations
  <2>1. clock \in Nat /\ lastId \in Nat /\ row \in Row /\ op \in [Workers -> Operations] /\ faults \in Nat
    BY ClockType, Bounds DEF TypeOK, TableOK, row
  <2> QED
    BY <2>1, Bounds, SlackFacts
<1>2. /\ Others(w)
      /\ \/ faults' = faults /\ Slack' = Slack
         \/ faults' = faults + 1 /\ Slack' \in Nat /\ Slack = Slack' + RenewInterval
      /\ Slack' \in Nat /\ Slack' <= Slack
  <2>1. Others(w) /\ (faults' = faults \/ (faults < MaxFaults /\ faults' = faults + 1))
    BY ActsMove
  <2>2. /\ faults' = faults => Slack' = Slack
        /\ faults < MaxFaults /\ faults' = faults + 1 =>
             Slack' \in Nat /\ Slack = Slack' + RenewInterval
    BY SlackFacts
  <2> QED
    BY <1>1, <2>1, <2>2
<1>3. \A q : Becomes(w, q) => op'[w] = q
  BY <1>1, OpMoves
<1>4. /\ row'.id \in {row.id, lastId + 1} /\ row.id \in Nat /\ row.locked \in Nat
      /\ \A u \in Workers : /\ op[u].id \in Nat /\ op[u].id <= lastId /\ op[u].now \in Nat
                            /\ op[u].now <= clock /\ op[u].due \in Nat
                            /\ op[u].renewing => At(u, "run") /\ clock <= op[u].due
                            /\ At(u, "create") => clock < op[u].now + RenewInterval
  BY <1>1, KnownActs DEF Known, Punctual, Operations, Row
<1>5. CASE v # w
  <2>1. op'[v] = op[v] /\ Running(v) /\ op[v].fresh /\ HeldBy(v)
    BY <1>2, <1>5 DEF Others, Running, At, Held
  <2>2. Owner(w) => op[w].id # op[v].id
    BY <1>5, <2>1 DEF HeldBy
  <2>3. row.id = op[v].id => row.locked > clock
    <3>1. row.id = op[v].id => row.locked > op[v].due + Slack /\ clock <= op[v].due
      BY <1>4, <2>1 DEF HeldBy
    <3> QED
      BY <1>1, <1>4, <3>1
  <2>4. Reclaims(w) /\ op'[w].pc # "idle" => op[w].id # op[v].id
    <3>1. NoOperation.pc = "idle"
      BY DEF NoOperation
    <3>2. Reclaims(w) /\ op'[w].pc # "idle" => row.id = op[w].id /\ row.locked <= op[w].now
      BY <1>3, <3>1 DEF Reclaims
    <3> QED
      BY <1>1, <1>4, <2>3, <3>2
  <2>5. Owner(w)' => op'[w].id # op[v].id
    <3>1. NoOperation.pc = "idle"
      BY DEF NoOperation
    <3>2. \A id, fresh : Ran(w, id, fresh).id = id
      BY DEF Ran, NoOperation
    <3>3. CASE Creates(w)
      <4>1. \/ op'[w] = Ran(w, lastId + 1, TRUE) \/ op'[w] = NoOperation
            \/ op'[w] = [op[w] EXCEPT !.pc = "get"]
        BY <1>3, <3>3 DEF Creates
      <4>2. op'[w] = [op[w] EXCEPT !.pc = "get"] => op'[w].pc = "get"
        BY <1>1 DEF Operations
      <4>3. lastId + 1 # op[v].id
        BY <1>1, <1>4
      <4>4. CASE op'[w] = Ran(w, lastId + 1, TRUE)
        <5>1. op'[w].id = lastId + 1
          BY <3>2, <4>4
        <5> QED
          BY <4>3, <5>1
      <4>5. CASE op'[w] = NoOperation
        BY <3>1, <4>5 DEF Owner
      <4>6. CASE op'[w] = [op[w] EXCEPT !.pc = "get"]
        BY <4>2, <4>6 DEF Owner
      <4> QED
        BY <4>1, <4>4, <4>5, <4>6
    <3>4. CASE Gets(w)
      <4>1. op[w] \in Operations
        BY <1>1
      <4>2. \/ op'[w] = NoOperation
            \/ \E id, from : op'[w] = [op[w] EXCEPT !.pc = "reclaim", !.id = id, !.from = from]
        BY <1>3, <3>4 DEF Gets
      <4>3. op'[w].pc \in {"idle", "reclaim"}
        BY <3>1, <4>1, <4>2 DEF Operations
      <4> QED
        BY <4>3 DEF Owner
    <3>5. CASE Reclaims(w)
      <4>1. op'[w] = Ran(w, op[w].id, FALSE) \/ op'[w] = NoOperation
        BY <1>3, <3>5 DEF Reclaims
      <4>2. CASE op'[w] = NoOperation
        BY <3>1, <4>2 DEF Owner
      <4>3. CASE op'[w].pc # "idle" /\ op'[w] = Ran(w, op[w].id, FALSE)
        <5>1. op'[w].id = op[w].id
          BY <3>2, <4>3
        <5> QED
          BY <2>4, <3>5, <4>3, <5>1
      <4>4. CASE op'[w].pc = "idle"
        BY <4>4 DEF Owner
      <4> QED
        BY <4>1, <4>2, <4>3, <4>4
    <3>6. CASE Renews(w)
      <4>1. op'[w].id = op[w].id /\ At(w, "run")
        <5>1. op[w] \in Operations
          BY <1>1
        <5>2. PICK b, d : op'[w] = [op[w] EXCEPT !.renewing = b, !.due = d]
          BY <1>3, <3>6 DEF Renews
        <5>3. op'[w].id = op[w].id
          BY <5>1, <5>2 DEF Operations
        <5>4. At(w, "run")
          BY <1>1, <1>4, <3>6 DEF Renews
        <5> QED
          BY <5>3, <5>4
      <4> QED
        BY <2>2, <4>1 DEF Owner, At
    <3>7. CASE Finishes(w)
      <4>1. op'[w].id = op[w].id /\ At(w, "run")
        BY <1>1, <1>3, <3>7 DEF Finishes, Operations
      <4> QED
        BY <2>2, <4>1 DEF Owner, At
    <3>8. CASE Releases(w) \/ Dies(w)
      BY <1>3, <3>1, <3>8 DEF Releases, Dies, Owner
    <3> QED
      BY <3>3, <3>4, <3>5, <3>6, <3>7, <3>8 DEF Acts
  <2>6. row'.id = op[v].id => row' = row
    <3>1. lastId + 1 # op[v].id
      BY <1>1, <1>4
    <3>2. CASE Creates(w)
      <4>1. Inserted(op[w].fp, op[w].now).id = lastId + 1
        BY DEF Inserted
      <4> QED
        BY <3>1, <3>2, <4>1 DEF Creates
    <3>3. CASE Gets(w) \/ Finishes(w) \/ Dies(w)
      BY <3>3 DEF Gets, Finishes, Dies
    <3>4. CASE Reclaims(w)
      <4>1. \/ row' = row
            \/ row.id = op[w].id /\ row.locked <= op[w].now /\ row' = Leased(op[w].now)
        BY <3>4 DEF Reclaims
      <4>2. row' = Leased(op[w].now) => row'.id = row.id
        BY <1>1 DEF Leased, Row
      <4>3. row.id = op[v].id => ~(row.locked <= op[w].now)
        BY <1>1, <1>4, <2>3
      <4> QED
        BY <4>1, <4>2, <4>3
    <3>5. CASE Renews(w)
      <4>1. row' = row \/ (row' = Renewed(clock) /\ row.id = op[w].id)
        BY <3>5 DEF Renews, Extendable
      <4>2. row' = Renewed(clock) => row'.id = row.id
        BY <1>1 DEF Renewed, Row
      <4>3. Owner(w)
        BY <1>4, <3>5 DEF Renews, Owner, At
      <4> QED
        BY <2>2, <4>1, <4>2, <4>3
    <3>6. CASE Releases(w)
      <4>1. \/ row' = row
            \/ /\ row.id = op[w].id
               /\ row' = Succeeded(op[w].fp, clock + TTL) \/ row' = Failed(clock, clock + TTL)
        BY <3>6 DEF Releases
      <4>2. row' = Succeeded(op[w].fp, clock + TTL) \/ row' = Failed(clock, clock + TTL) => row'.id = row.id
        BY <1>1 DEF Succeeded, Failed, Row
      <4>3. Owner(w)
        BY <3>6 DEF Releases, Owner
      <4> QED
        BY <2>2, <4>1, <4>2, <4>3
    <3> QED
      BY <3>2, <3>3, <3>4, <3>5, <3>6 DEF Acts
  <2>7. ASSUME NEW u \in Workers, u # v, Owner(u)' PROVE op'[u].id # op'[v].id
    BY <1>2, <2>1, <2>5, <2>7 DEF Others, HeldBy, Owner
  <2>8. ASSUME row'.id = op'[v].id
        PROVE  /\ row'.status = "processing" /\ row'.fp = op'[v].fp /\ op'[v].renewing
               /\ row'.locked > op'[v].due + Slack'
    <3>1. row' = row /\ row.id = op[v].id
      BY <2>1, <2>6, <2>8
    <3>2. row.status = "processing" /\ row.fp = op[v].fp /\ op[v].renewing /\ row.locked > op[v].due + Slack
      BY <2>1, <3>1 DEF HeldBy
    <3>3. row.locked > op[v].due + Slack'
      BY <1>1, <1>2, <1>4, <3>2
    <3> QED
      BY <2>1, <3>1, <3>2, <3>3
  <2> QED
    BY <2>7, <2>8 DEF HeldBy
<1>6. CASE v = w
  <2>1. op'[w].pc = "run" /\ op'[w].fresh
    BY <1>6 DEF Running, At
  <2>2. NoOperation.pc = "idle"
    BY DEF NoOperation
  <2>3. CASE Creates(w)
    <3>1. [op[w] EXCEPT !.pc = "get"].pc = "get"
      BY <1>1 DEF Operations
    <3>2. row' = Inserted(op[w].fp, op[w].now) /\ op'[w] = Ran(w, lastId + 1, TRUE) /\ faults' = faults
      BY <1>3, <2>1, <2>2, <2>3, <3>1 DEF Creates
    <3>3. op'[w].id = lastId + 1 /\ op'[w].fp = op[w].fp /\ op'[w].renewing = TRUE /\ op'[w].due = clock + RenewInterval
      BY <3>2 DEF Ran, NoOperation
    <3>4. row'.status = "processing" /\ row'.fp = op[w].fp /\ row'.locked = op[w].now + Lease
      BY <3>2 DEF Inserted
    <3>5. row'.locked > op'[w].due + Slack'
      <4>1. clock < op[w].now + RenewInterval /\ op[w].now \in Nat
        BY <1>4, <2>3 DEF Creates
      <4> QED
        BY <1>1, <1>2, <3>3, <3>4, <4>1
    <3>6. ASSUME NEW u \in Workers, u # w PROVE op'[u].id # op'[w].id
      BY <1>1, <1>2, <1>4, <3>3, <3>6 DEF Others
    <3> QED
      BY <1>6, <3>3, <3>4, <3>5, <3>6 DEF HeldBy
  <2>4. CASE Renews(w)
    <3>1. /\ op'[w].id = op[w].id /\ op'[w].fp = op[w].fp /\ op'[w].fresh = op[w].fresh
          /\ op'[w].pc = op[w].pc /\ op'[w].due = clock + RenewInterval
      BY <1>1, <1>3, <2>4 DEF Renews, Operations
    <3>2. HeldBy(w)
      BY <1>6, <2>1, <3>1 DEF Held, Running, At
    <3>3. row'.id = row.id
      BY <1>1, <2>4 DEF Renews, Renewed, Row
    <3>4. ASSUME row.id = op[w].id
          PROVE  /\ row'.status = "processing" /\ row'.fp = op[w].fp /\ op'[w].renewing
                 /\ row'.locked > op'[w].due + Slack'
      <4>1. row.status = "processing" /\ row.fp = op[w].fp /\ row.locked > op[w].due + Slack
        BY <3>2, <3>4 DEF HeldBy
      <4>2. clock = op[w].due
        <5>1. clock >= op[w].due /\ clock <= op[w].due /\ op[w].due \in Nat
          BY <1>4, <2>4 DEF Renews
        <5> QED
          BY <1>1, <5>1
      <4>3. Extendable(row, op[w].id, op[w].fp) = TRUE
        BY <3>4, <4>1 DEF Extendable
      <4>4. CASE row' = Renewed(clock) /\ op'[w].renewing
        <5>1. row'.status = row.status /\ row'.fp = row.fp /\ row'.locked = clock + Lease
          BY <1>1, <4>4 DEF Renewed, Row
        <5>2. \A c, r, l, t, t2 \in Nat :
                 r >= 1 /\ t2 <= t /\ t + 2 * r <= l => c + l > (c + r) + t2
          OBVIOUS
        <5>3. clock + Lease > (clock + RenewInterval) + Slack'
          BY <1>1, <1>2, <5>2
        <5>4. row'.locked > op'[w].due + Slack'
          BY <3>1, <5>1, <5>3
        <5> QED
          BY <4>1, <4>4, <5>1, <5>4
      <4>5. CASE row' = row /\ op'[w].renewing /\ Fails
        <5>1. faults' # faults
          BY <1>1, <4>5 DEF Fails
        <5>2. Slack = Slack' + RenewInterval /\ Slack' \in Nat
          BY <1>2, <5>1
        <5>3. \A c, r, t2, d \in Nat : d > c + (t2 + r) => d > (c + r) + t2
          OBVIOUS
        <5>4. row.locked > clock + (Slack' + RenewInterval)
          BY <4>1, <4>2, <5>2
        <5>5. row.locked > (clock + RenewInterval) + Slack'
          BY <1>1, <1>4, <5>2, <5>3, <5>4
        <5>6. row'.locked > op'[w].due + Slack'
          BY <3>1, <4>5, <5>5
        <5> QED
          BY <4>1, <4>5, <5>6
      <4>6. \/ row' = Renewed(clock) /\ op'[w].renewing
            \/ row' = row /\ op'[w].renewing /\ Fails
        <5>1. \A b \in BOOLEAN :
                 op'[w] = [op[w] EXCEPT !.renewing = b, !.due = clock + RenewInterval] => op'[w].renewing = b
          BY <1>1 DEF Operations
        <5> QED
          BY <1>3, <2>4, <4>3, <5>1 DEF Renews
      <4> QED
        BY <4>4, <4>5, <4>6
    <3> QED
      BY <1>2, <1>6, <3>1, <3>2, <3>3, <3>4 DEF HeldBy, Others, Owner
  <2>5. ~Gets(w)
    <3>1. op[w] \in Operations
      BY <1>1
    <3>2. \A id, from : [op[w] EXCEPT !.pc = "reclaim", !.id = id, !.from = from].pc = "reclaim"
      BY <3>1 DEF Operations
    <3>3. Gets(w) => \/ op'[w] = NoOperation
                     \/ \E id, from : op'[w] = [op[w] EXCEPT !.pc = "reclaim", !.id = id, !.from = from]
      BY <1>3 DEF Gets
    <3>4. Gets(w) => op'[w] = NoOperation \/ op'[w].pc = "reclaim"
      BY <3>2, <3>3
    <3> QED
      BY <2>1, <2>2, <3>4
  <2>6. ~Reclaims(w)
    <3>1. ~Ran(w, op[w].id, FALSE).fresh
      BY DEF Ran, NoOperation
    <3> QED
      BY <1>3, <2>1, <2>2, <3>1 DEF Reclaims
  <2>7. ~Finishes(w)
    <3>1. \A end : [op[w] EXCEPT !.pc = end, !.renewing = FALSE, !.now = clock].pc = end
      BY <1>1 DEF Operations
    <3> QED
      BY <1>3, <2>1, <3>1 DEF Finishes
  <2>8. ~Releases(w) /\ ~Dies(w)
    BY <1>3, <2>1, <2>2 DEF Releases, Dies
  <2> QED
    BY <2>3, <2>4, <2>5, <2>6, <2>7, <2>8 DEF Acts
<1> QED
  BY <1>5, <1>6

\* Every step leaves the lock with the operation that runs under it.
LEMMA HeldSteps ==
  ASSUME TypeOK, Known, Punctual, Held, (MaxFaults + 2) * RenewInterval <= Lease, [Next]_vars
  PROVE  Held'
<1>1. ASSUME NEW w \in Workers,
             \/ CreateProcessing(w) \/ GetExisting(w) \/ Reclaim(w) \/ Renew(w)
             \/ EndOperation(w) \/ Release(w) \/ Crash(w)
      PROVE  Held'
  BY <1>1, Actions, HeldActs
<1>2. ASSUME NEW w \in Workers, NEW fp \in Fingerprints, Begin(w, fp) PROVE Held'
  <2>1. /\ At(w, "idle") /\ Others(w) /\ row' = row /\ UNCHANGED <<faults, overran>>
        /\ op'[w] = [NoOperation EXCEPT !.pc = "create", !.fp = fp, !.now = clock]
    BY <1>2, OtherSteps DEF Begin
  <2>2. op'[w].pc = "create"
    BY <2>1 DEF NoOperation
  <2>3. Slack' = Slack
    BY <2>1 DEF Slack
  <2>4. ASSUME NEW v \in Workers, Running(v)', op'[v].fresh, ~overran PROVE HeldBy(v)'
    <3>1. v # w /\ op'[v] = op[v] /\ HeldBy(v)
      BY <2>1, <2>2, <2>4 DEF Running, At, Others, Held
    <3> QED
      BY <2>1, <2>2, <2>3, <3>1 DEF HeldBy, Others, Owner
  <2> QED
    BY <2>1, <2>4 DEF Held
<1>3. CASE Cleanup
  <2>1. row' = NoRow /\ NoRow.id = 0 /\ UNCHANGED <<op, faults, overran>>
    BY <1>3, OtherSteps DEF Cleanup, NoRow
  <2>2. \A v \in Workers : Running(v) => op[v].id # 0
    BY DEF Known, Running, At
  <2> QED
    BY <2>1, <2>2 DEF Held, HeldBy, Running, At, Owner
<1>4. CASE UNCHANGED <<table, op, faults>> /\ (overran => overran')
  BY <1>4 DEF Held, HeldBy, Running, At, Owner, Slack, row
<1>5. CASE Tick
  <2>1. UNCHANGED <<table, op, faults>>
    BY <1>5 DEF Tick
  <2>2. overran => overran'
    BY <1>5, Zenon DEF Tick
  <2> QED
    BY <1>4, <2>1, <2>2
<1>6. CASE UNCHANGED vars
  BY <1>4, <1>6 DEF vars
<1> QED
  BY <1>1, <1>2, <1>3, <1>5, <1>6 DEF Next

\* As long as a lease outlasts the renewals that can fail (with a lease of three
\* intervals, one failure in all), the operation that inserted the row of the
\* lock is alone with it until some step of an operation is late.
THEOREM FreshExclusive ==
  ASSUME (MaxFaults + 2) * RenewInterval <= Lease
  PROVE  Spec => []FreshLockExclusive
<1>1. Init => Punctual /\ Held
  <2> SUFFICES ASSUME Init PROVE Punctual /\ Held
    OBVIOUS
  <2>1. \A w \in Workers : op[w].pc = "idle" /\ op[w].renewing = FALSE
    BY DEF Init, NoOperation
  <2> QED
    BY <2>1 DEF Punctual, Held, Running, At
<1>2. TypeOK /\ Known /\ Punctual /\ Held /\ [Next]_vars => Punctual' /\ Held'
  BY PunctualSteps, HeldSteps
<1>3. Held => FreshLockExclusive
  BY DEF Held, HeldBy, FreshLockExclusive, Running, At, Owner
<1> QED
  BY <1>1, <1>2, <1>3, AlwaysKnown, PTL DEF Spec
=============================================================================
