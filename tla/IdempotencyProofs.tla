------------------------- MODULE IdempotencyProofs -------------------------
(***************************************************************************)
(* Proofs about Idempotency for every set of keys, payloads and requests,  *)
(* every TTL, lease and backoff, and any number of failures.               *)
(***************************************************************************)
EXTENDS Idempotency, Integers, TLAPS

\* The assumptions, in the form the proofs use.
LEMMA Bounds ==
  /\ TTL \in Nat /\ Lease \in Nat /\ Backoff \in Nat /\ TTL > 0 /\ Lease > 0
  /\ MaxClock \in Nat /\ MaxClock >= 1 /\ MaxFaults \in Nat
BY TimesAssumption, CoordinatorAssumption

\* The names of nothing are none of the real ones.
LEMMA Names == NoFingerprint \notin Fingerprints /\ NoKey \notin Keys
BY TimesAssumption, CoordinatorAssumption

----------------------------------------------------------------------------
(* Types *)

\* The clock is a number.
LEMMA ClockType == ASSUME TableOK PROVE clock \in Nat
<1>1. clock \in 1..MaxClock
  BY DEF TableOK
<1> QED
  BY <1>1, Bounds

\* What a statement leaves of the other columns.
LEMMA Statements ==
  ASSUME TableOK, NEW id \in Nat, NEW fp \in Fingerprints \cup {NoFingerprint},
         NEW now \in Nat, NEW until \in Nat, NEW key \in Keys
  PROVE  /\ Insert(key, fp, now) => table' \in [Keys -> Row] /\ lastId' \in Nat
         /\ TryReclaim(id, now) => table' \in [Keys -> Row]
         /\ MarkSucceeded(id, fp, until) => table' \in [Keys -> Row]
         /\ MarkFailedRetryable(id, until, now) => table' \in [Keys -> Row]
         /\ NoRow \in Row
<1>1. table \in [Keys -> Row] /\ lastId \in Nat /\ now + Lease \in Nat /\ now + TTL \in Nat /\ lastId + 1 \in Nat
  BY Bounds DEF TableOK
<1>2. ASSUME Insert(key, fp, now) PROVE table' \in [Keys -> Row] /\ lastId' \in Nat
  <2>1. [id |-> lastId + 1, fp |-> fp, status |-> "processing",
         locked |-> now + Lease, expires |-> now + TTL, body |-> NoFingerprint] \in Row
    BY <1>1 DEF Row, RowStatuses
  <2> QED
    BY <1>1, <1>2, <2>1 DEF Insert, tableVars
<1>3. ASSUME TryReclaim(id, now) PROVE table' \in [Keys -> Row]
  <2>1. "processing" \in RowStatuses
    BY DEF RowStatuses
  <2>2. \A r \in Row : [r EXCEPT !.status = "processing", !.locked = now + Lease,
                                 !.expires = now + TTL] \in Row
    BY <1>1, <2>1 DEF Row
  <2> QED
    BY <1>1, <1>3, <2>2 DEF TryReclaim
<1>4. ASSUME MarkSucceeded(id, fp, until) PROVE table' \in [Keys -> Row]
  <2>1. "succeeded" \in RowStatuses
    BY DEF RowStatuses
  <2> QED
    BY <1>1, <1>4, <2>1 DEF MarkSucceeded, Row
<1>5. ASSUME MarkFailedRetryable(id, until, now) PROVE table' \in [Keys -> Row]
  <2>1. FailedStatus \in RowStatuses
    BY DEF FailedStatus, RowStatuses
  <2>2. \A r \in Row : [r EXCEPT !.status = FailedStatus, !.locked = until, !.expires = now] \in Row
    BY <2>1 DEF Row
  <2> QED
    BY <1>1, <1>5, <2>2 DEF MarkFailedRetryable
<1>6. NoRow \in Row
  BY DEF NoRow, Row, RowStatuses
<1> QED
  BY <1>2, <1>3, <1>4, <1>5, <1>6

\* A request that moves keeps its type.
LEMMA ReqTypes ==
  ASSUME TypeOK, NEW w \in Workers,
         \/ Return(w)
         \/ \E pc \in ReqPcs : Goto(w, pc)
         \/ \E id \in Nat : req' = [req EXCEPT ![w].pc = "execute", ![w].id = id]
         \/ req' = [req EXCEPT ![w].pc = "execute", ![w].from = "none", ![w].expired = FALSE]
         \/ req[w].key \in Keys /\ \E expired \in BOOLEAN : TakeOver(w, expired)
         \/ \E k \in Keys, fp \in Fingerprints :
              req' = [req EXCEPT ![w] = [NoRequest EXCEPT !.pc = "create", !.key = k,
                                                          !.fp = fp, !.now = clock]]
         \/ UNCHANGED req
  PROVE  req' \in [Workers -> Requests]
<1>1. req \in [Workers -> Requests] /\ req[w] \in Requests
  BY DEF TypeOK
<1>2. clock \in Nat
  BY ClockType DEF TypeOK
<1>3. NoRequest \in Requests
  BY DEF NoRequest, Requests, ReqPcs, RowStatuses
<1>4. ASSUME NEW q \in Requests, req' = [req EXCEPT ![w] = q] PROVE req' \in [Workers -> Requests]
  BY <1>1, <1>4
<1>5. ASSUME NEW k \in Keys, NEW fp \in Fingerprints
      PROVE  [NoRequest EXCEPT !.pc = "create", !.key = k, !.fp = fp, !.now = clock] \in Requests
  BY <1>2, <1>3 DEF NoRequest, Requests, ReqPcs
<1>6. ASSUME req[w].key \in Keys, NEW expired \in BOOLEAN, TakeOver(w, expired)
      PROVE  req' \in [Workers -> Requests]
  <2> DEFINE r == table[req[w].key]
             q == [req[w] EXCEPT !.pc = "reclaim", !.id = r.id, !.from = r.status, !.expired = expired]
  <2>1. r.id \in Nat /\ r.status \in RowStatuses
    BY <1>6 DEF TypeOK, TableOK, Row
  <2>2. q \in Requests
    BY <1>1, <2>1 DEF Requests, ReqPcs
  <2>3. req' = [req EXCEPT ![w] = q]
    BY <1>6 DEF TakeOver
  <2> QED
    BY <1>4, <2>2, <2>3
<1>7. ASSUME NEW id \in Nat, req' = [req EXCEPT ![w].pc = "execute", ![w].id = id]
      PROVE  req' \in [Workers -> Requests]
  BY <1>1, <1>7 DEF Requests, ReqPcs
<1>8. ASSUME req' = [req EXCEPT ![w].pc = "execute", ![w].from = "none", ![w].expired = FALSE]
      PROVE  req' \in [Workers -> Requests]
  <2>1. [req[w] EXCEPT !.pc = "execute", !.from = "none", !.expired = FALSE] \in Requests
    BY <1>1 DEF Requests, ReqPcs, RowStatuses
  <2>2. req' = [req EXCEPT ![w] = [req[w] EXCEPT !.pc = "execute", !.from = "none", !.expired = FALSE]]
    BY <1>8
  <2> QED
    BY <1>4, <2>1, <2>2
<1>9. ASSUME NEW pc \in ReqPcs, Goto(w, pc) PROVE req' \in [Workers -> Requests]
  BY <1>1, <1>9 DEF Goto, Requests
<1> QED
  BY <1>1, <1>3, <1>4, <1>5, <1>6, <1>7, <1>8, <1>9 DEF Return

\* A step of one request leaves the others where they are.
LEMMA OthersWait ==
  ASSUME TypeOK, NEW w \in Workers, Step(w) \/ Crash(w)
  PROVE  \A v \in Workers \ {w} : req'[v] = req[v]
BY DEF TypeOK, Step, CreateProcessing, GetExisting, Reclaim, ExecuteOperation, StoreSuccess,
       StoreFailure, Crash, Return, Goto, TakeOver

\* A request in flight has a key and a payload.
Keyed == \A w \in Workers :
    req[w].pc # "idle" => req[w].key \in Keys /\ req[w].fp \in Fingerprints

\* A request that is under way keeps its key and its fingerprint.
LEMMA KeyedSteps ==
  ASSUME TypeOK, Keyed, [Next]_vars PROVE Keyed'
<1>1. req \in [Workers -> Requests]
  BY DEF TypeOK
<1>2. \/ UNCHANGED req
      \/ \E w \in Workers, k \in Keys, fp \in Fingerprints :
            req' = [req EXCEPT ![w] = [NoRequest EXCEPT !.pc = "create", !.key = k, !.fp = fp, !.now = clock]]
      \/ \E w \in Workers :
            /\ \A v \in Workers \ {w} : req'[v] = req[v]
            /\ \/ req'[w].pc = "idle"
               \/ req[w].pc # "idle" /\ req'[w].key = req[w].key /\ req'[w].fp = req[w].fp
  <2>1. ASSUME NEW w \in Workers, Step(w) \/ Crash(w)
        PROVE  /\ \A v \in Workers \ {w} : req'[v] = req[v]
               /\ \/ req'[w].pc = "idle"
                  \/ req[w].pc # "idle" /\ req'[w].key = req[w].key /\ req'[w].fp = req[w].fp
    <3> USE <1>1 DEF Requests, Return, Goto, TakeOver, At, NoRequest
    <3>1. CASE CreateProcessing(w)
      BY <3>1 DEF CreateProcessing
    <3>2. CASE GetExisting(w)
      BY <3>2 DEF GetExisting
    <3>3. CASE Reclaim(w)
      BY <3>3 DEF Reclaim
    <3>4. CASE ExecuteOperation(w)
      BY <3>4 DEF ExecuteOperation
    <3>5. CASE StoreSuccess(w)
      BY <3>5 DEF StoreSuccess
    <3>6. CASE StoreFailure(w)
      BY <3>6 DEF StoreFailure
    <3>7. CASE Crash(w)
      BY <3>7 DEF Crash
    <3> QED
      BY <2>1, <3>1, <3>2, <3>3, <3>4, <3>5, <3>6, <3>7 DEF Step
  <2> QED
    BY <2>1 DEF Next, vars, Begin, Cleanup, Tick
<1> QED
  BY <1>1, <1>2 DEF Keyed, NoRequest

Typed == TypeOK /\ Keyed

\* The steps of a request keep the types of the table and of the promises.
LEMMA TypeSteps == ASSUME Typed, [Next]_vars PROVE TypeOK'
<1>1. /\ TableOK /\ req \in [Workers -> Requests] /\ faults \in 0..MaxFaults
      /\ promised \in [Keys -> Nat] /\ overran \in [Keys -> BOOLEAN]
      /\ table \in [Keys -> Row] /\ lastId \in Nat
  BY DEF Typed, TypeOK, TableOK
<1>2. clock \in Nat /\ clock \in 1..MaxClock
  BY <1>1, ClockType DEF TableOK
<1>3. ASSUME NEW w \in Workers, req[w].pc # "idle"
      PROVE  /\ req[w].key \in Keys /\ req[w].fp \in Fingerprints /\ req[w].now \in Nat /\ req[w].id \in Nat
             /\ req[w].now + TTL \in Nat /\ clock + Backoff \in Nat
  BY <1>1, <1>2, <1>3, Bounds DEF Typed, Keyed, Requests
<1>4. faults' \in 0..MaxFaults
  <2>1. faults' = faults \/ (faults < MaxFaults /\ faults' = faults + 1)
    BY DEF Next, vars, Step, CreateProcessing, GetExisting, Reclaim, ExecuteOperation, StoreSuccess,
           StoreFailure, Crash, Begin, Cleanup, Tick, Fails, NoFault
  <2> QED
    BY <1>1, <2>1, Bounds
<1>5. overran' \in [Keys -> BOOLEAN]
  <2>1. CASE Tick
    <3>1. \A k \in Keys : overran[k] \in BOOLEAN
      BY <1>1
    <3> QED
      BY <2>1, <3>1 DEF Tick
  <2>2. CASE UNCHANGED overran
    BY <1>1, <2>2
  <2> QED
    BY <2>1, <2>2
       DEF Next, vars, Step, CreateProcessing, GetExisting, Reclaim, ExecuteOperation, StoreSuccess,
           StoreFailure, Crash, Begin, Cleanup, history
<1>6. ASSUME NEW w \in Workers, CreateProcessing(w) PROVE TypeOK'
  <2>1. req[w].pc # "idle"
    BY <1>6 DEF CreateProcessing, At
  <2>2. table' \in [Keys -> Row] /\ lastId' \in Nat
    <3>1. Insert(req[w].key, req[w].fp, req[w].now) \/ UNCHANGED tableVars
      BY <1>6 DEF CreateProcessing
    <3>2. Insert(req[w].key, req[w].fp, req[w].now) => table' \in [Keys -> Row] /\ lastId' \in Nat
      BY <1>1, <1>3, <2>1, Statements
    <3> QED
      BY <1>1, <3>1, <3>2 DEF tableVars
  <2>3. req' \in [Workers -> Requests]
    <3>1. lastId + 1 \in Nat /\ "get" \in ReqPcs
      BY <1>1 DEF ReqPcs
    <3>2. \/ Goto(w, "get") \/ Return(w)
          \/ req' = [req EXCEPT ![w].pc = "execute", ![w].id = lastId + 1]
      BY <1>6 DEF CreateProcessing
    <3> QED
      BY <3>1, <3>2, ReqTypes DEF Typed
  <2> QED
    BY <1>1, <1>4, <1>5, <1>6, <2>2, <2>3 DEF TypeOK, TableOK, CreateProcessing, history
<1>7. ASSUME NEW w \in Workers, GetExisting(w) PROVE TypeOK'
  <2>1. Return(w) \/ (req[w].key \in Keys /\ \E expired \in BOOLEAN : TakeOver(w, expired))
    BY <1>3, <1>7 DEF GetExisting
  <2>2. req' \in [Workers -> Requests]
    BY <2>1, ReqTypes DEF Typed
  <2> QED
    BY <1>1, <1>4, <1>5, <1>7, <2>2 DEF TypeOK, TableOK, GetExisting, history
<1>8. ASSUME NEW w \in Workers, Reclaim(w) PROVE TypeOK'
  <2>1. req[w].pc # "idle"
    BY <1>8 DEF Reclaim, At
  <2>2. /\ TryReclaim(req[w].id, req[w].now) \/ UNCHANGED table
        /\ UNCHANGED promised \/ \E x \in {0, promised[req[w].key]} : promised' = [promised EXCEPT ![req[w].key] = x]
    BY <1>8 DEF Reclaim
  <2>3. table' \in [Keys -> Row]
    BY <1>1, <1>3, <2>1, <2>2, Statements
  <2>4. promised' \in [Keys -> Nat]
    BY <1>1, <1>3, <2>1, <2>2
  <2>5. req' \in [Workers -> Requests]
    <3>1. \/ Return(w) \/ Goto(w, "reget")
          \/ req' = [req EXCEPT ![w].pc = "execute", ![w].from = "none", ![w].expired = FALSE]
      BY <1>8 DEF Reclaim
    <3>2. "reget" \in ReqPcs
      BY DEF ReqPcs
    <3> QED
      BY <3>1, <3>2, ReqTypes DEF Typed
  <2> QED
    BY <1>1, <1>4, <1>5, <1>8, <2>3, <2>4, <2>5 DEF TypeOK, TableOK, Reclaim
<1>9. ASSUME NEW w \in Workers, ExecuteOperation(w) \/ Crash(w) PROVE TypeOK'
  <2>1. Return(w) \/ Goto(w, "succeed") \/ Goto(w, "fail")
    BY <1>9 DEF ExecuteOperation, Crash
  <2>2. "succeed" \in ReqPcs /\ "fail" \in ReqPcs
    BY DEF ReqPcs
  <2>3. req' \in [Workers -> Requests]
    BY <2>1, <2>2, ReqTypes DEF Typed
  <2> QED
    BY <1>1, <1>4, <1>5, <1>9, <2>3 DEF TypeOK, TableOK, ExecuteOperation, Crash, history
<1>10. ASSUME NEW w \in Workers, StoreSuccess(w) PROVE TypeOK'
  <2>1. req[w].pc # "idle"
    BY <1>10 DEF StoreSuccess, At
  <2>2. /\ MarkSucceeded(req[w].id, req[w].fp, req[w].now + TTL) \/ UNCHANGED table
        /\ UNCHANGED promised \/ promised' = [promised EXCEPT ![req[w].key] = req[w].now + TTL]
        /\ Return(w)
    BY <1>10 DEF StoreSuccess
  <2>3. table' \in [Keys -> Row]
    BY <1>1, <1>3, <2>1, <2>2, Statements
  <2>4. promised' \in [Keys -> Nat]
    BY <1>1, <1>3, <2>1, <2>2
  <2>5. req' \in [Workers -> Requests]
    BY <2>2, ReqTypes DEF Typed
  <2> QED
    BY <1>1, <1>4, <1>5, <1>10, <2>3, <2>4, <2>5 DEF TypeOK, TableOK, StoreSuccess
<1>11. ASSUME NEW w \in Workers, StoreFailure(w) PROVE TypeOK'
  <2>1. req[w].pc # "idle"
    BY <1>11 DEF StoreFailure, At
  <2>2. /\ MarkFailedRetryable(req[w].id, clock + Backoff, req[w].now + TTL) \/ UNCHANGED table
        /\ Return(w)
    BY <1>11 DEF StoreFailure
  <2>3. table' \in [Keys -> Row]
    BY <1>1, <1>3, <2>1, <2>2, Statements
  <2>4. req' \in [Workers -> Requests]
    BY <2>2, ReqTypes DEF Typed
  <2> QED
    BY <1>1, <1>4, <1>5, <1>11, <2>3, <2>4 DEF TypeOK, TableOK, StoreFailure, history
<1>12. ASSUME NEW w \in Workers, NEW k \in Keys, NEW fp \in Fingerprints, Begin(w, k, fp) PROVE TypeOK'
  <2>1. req' \in [Workers -> Requests]
    BY <1>12, ReqTypes DEF Begin, Typed
  <2> QED
    BY <1>1, <1>4, <1>5, <1>12, <2>1 DEF TypeOK, TableOK, Begin, history
<1>13. ASSUME NEW k \in Keys, Cleanup(k) PROVE TypeOK'
  <2>1. NoRow \in Row
    BY DEF NoRow, Row, RowStatuses
  <2>2. table' \in [Keys -> Row]
    BY <1>1, <1>13, <2>1 DEF Cleanup, DeleteExpired
  <2> QED
    BY <1>1, <1>4, <1>5, <1>13, <2>2 DEF TypeOK, TableOK, Cleanup, DeleteExpired, history
<1>14. CASE Tick
  <2>1. clock' \in 1..MaxClock
    BY <1>2, <1>14, Bounds DEF Tick
  <2> QED
    BY <1>1, <1>4, <1>5, <1>14, <2>1 DEF TypeOK, TableOK, Tick
<1>15. CASE UNCHANGED vars
  BY <1>1, <1>15 DEF vars, TypeOK, TableOK
<1> QED
  BY <1>6, <1>7, <1>8, <1>9, <1>10, <1>11, <1>12, <1>13, <1>14, <1>15 DEF Next, Step

\* Types hold in every reachable state.
LEMMA AlwaysTyped == Spec => []Typed
<1>1. Init => Typed
  <2> SUFFICES ASSUME Init PROVE TypeOK /\ Keyed
    BY DEF Typed
  <2>1. NoRow \in Row /\ NoRequest \in Requests
    BY DEF NoRow, Row, RowStatuses, NoRequest, Requests, ReqPcs
  <2>2. TableOK
    BY <2>1, Bounds DEF Init, TableInit, TableOK
  <2>3. 0 \in 0..MaxFaults
    BY Bounds
  <2> QED
    BY <2>1, <2>2, <2>3 DEF Init, TypeOK, Keyed, NoRequest
<1>2. Typed /\ [Next]_vars => Typed'
  BY TypeSteps, KeyedSteps DEF Typed
<1> QED
  BY <1>1, <1>2, PTL DEF Spec

\* Every variable has the shape the code gives it.
THEOREM TypeCorrect == Spec => []TypeOK
<1>1. Typed => TypeOK
  BY DEF Typed
<1> QED
  BY <1>1, AlwaysTyped, PTL

----------------------------------------------------------------------------
(* Rows and their ids *)

\* An id belongs to one row, and is never given again.
RowIds ==
    \A k \in Keys :
      /\ table[k].id <= lastId /\ (table[k].id = 0 => table[k] = NoRow)
      /\ \A l \in Keys : table[k].id = table[l].id /\ table[k].id # 0 => k = l

\* A request has the id of a row of its key and with its payload, or of a row
\* that has been deleted; it takes over a row that has failed or has expired.
Knows(q) ==
    /\ q.pc \in {"reclaim", "execute", "succeed", "fail"} => q.id # 0
    /\ q.pc = "reclaim" /\ ~q.expired => q.from = "failed_retryable"
    /\ q.id <= lastId
    /\ q.id # 0 => \A k \in Keys : table[k].id = q.id => k = q.key /\ table[k].fp = q.fp
ReqIds == \A w \in Workers : Knows(req[w])

\* What a step does to the ids.
Kept(l) == table'[l].id = table[l].id /\ table'[l].fp = table[l].fp /\ (table[l].id = 0 => table'[l] = table[l])
IdsKept == lastId' = lastId /\ \A l \in Keys : Kept(l)
RowDeleted == lastId' = lastId /\ \E k \in Keys : table' = [table EXCEPT ![k] = NoRow]
RowInserted(w) ==
    /\ At(w, "create") /\ table[req[w].key].id = 0
    /\ Insert(req[w].key, req[w].fp, req[w].now)

\* A step keeps the numbers of the rows, deletes a row or inserts one under a new number.
LEMMA IdSteps ==
  ASSUME Typed, ReqIds, [Next]_vars
  PROVE  IdsKept \/ RowDeleted \/ \E w \in Workers : RowInserted(w)
<1>1. table \in [Keys -> Row] /\ lastId \in Nat
  BY DEF Typed, TypeOK, TableOK
<1>2. ASSUME UNCHANGED <<table, lastId>> PROVE IdsKept
  BY <1>2 DEF IdsKept, Kept
<1>3. ASSUME NEW w \in Workers, req[w].id # 0, lastId' = lastId,
             \/ TryReclaim(req[w].id, req[w].now)
             \/ MarkSucceeded(req[w].id, req[w].fp, req[w].now + TTL)
             \/ MarkFailedRetryable(req[w].id, clock + Backoff, req[w].now + TTL)
      PROVE  IdsKept
  BY <1>1, <1>3 DEF TryReclaim, MarkSucceeded, MarkFailedRetryable, Marked, Row, IdsKept, Kept
<1>4. ASSUME NEW w \in Workers, CreateProcessing(w) PROVE IdsKept \/ RowInserted(w)
  BY <1>2, <1>4 DEF CreateProcessing, Insert, Exists, RowInserted, tableVars
<1>5. ASSUME NEW w \in Workers, Reclaim(w) PROVE IdsKept
  BY <1>2, <1>3, <1>5 DEF Reclaim, At, ReqIds, Knows
<1>6. ASSUME NEW w \in Workers, StoreSuccess(w) \/ StoreFailure(w) PROVE IdsKept
  BY <1>2, <1>3, <1>6 DEF StoreSuccess, StoreFailure, At, ReqIds, Knows
<1>7. ASSUME NEW w \in Workers, GetExisting(w) \/ ExecuteOperation(w) \/ Crash(w) PROVE IdsKept
  BY <1>2, <1>7 DEF GetExisting, ExecuteOperation, Crash
<1>8. ASSUME NEW k \in Keys, Cleanup(k) PROVE RowDeleted
  BY <1>8 DEF Cleanup, DeleteExpired, RowDeleted
<1> QED
  BY <1>2, <1>4, <1>5, <1>6, <1>7, <1>8 DEF Next, Step, vars, Begin, Tick

\* Rows keep numbers of their own that were given out.
LEMMA RowIdSteps ==
  ASSUME Typed, RowIds, ReqIds, [Next]_vars PROVE RowIds'
<1>1. table \in [Keys -> Row] /\ lastId \in Nat /\ \A k \in Keys : table[k].id \in Nat
  BY DEF Typed, TypeOK, TableOK, Row
<1>2. CASE IdsKept
  BY <1>2 DEF IdsKept, Kept, RowIds
<1>3. CASE RowDeleted
  <2>1. PICK k \in Keys : table' = [table EXCEPT ![k] = NoRow]
    BY <1>3 DEF RowDeleted
  <2>2. NoRow.id = 0
    BY DEF NoRow
  <2>3. table'[k] = NoRow /\ \A l \in Keys \ {k} : table'[l] = table[l]
    BY <1>1, <2>1
  <2> QED
    BY <1>1, <1>3, <2>2, <2>3 DEF RowDeleted, RowIds
<1>4. ASSUME NEW w \in Workers, RowInserted(w) PROVE RowIds'
  <2>1. req[w].key \in Keys
    BY <1>4 DEF RowInserted, At, Typed, Keyed
  <2>2. /\ lastId' = lastId + 1 /\ table'[req[w].key].id = lastId + 1
        /\ \A l \in Keys \ {req[w].key} : table'[l] = table[l]
    BY <1>1, <1>4, <2>1 DEF RowInserted, Insert, Exists
  <2> QED
    BY <1>1, <2>1, <2>2 DEF RowIds
<1> QED
  BY <1>2, <1>3, <1>4, IdSteps

\* A request that keeps its id knows as much after the step.
LEMMA KnowsKept ==
  ASSUME Typed, RowIds, ReqIds, [Next]_vars, NEW w \in Workers,
         req'[w].id = req[w].id, req'[w].key = req[w].key, req'[w].fp = req[w].fp
  PROVE  /\ req'[w].id <= lastId'
         /\ req'[w].id # 0 => \A k \in Keys : table'[k].id = req'[w].id => k = req'[w].key /\ table'[k].fp = req'[w].fp
<1>1. /\ table \in [Keys -> Row] /\ lastId \in Nat /\ \A k \in Keys : table[k].id \in Nat
      /\ req[w].id \in Nat
  BY DEF Typed, TypeOK, TableOK, Row, Requests
<1>2. CASE IdsKept
  BY <1>2 DEF IdsKept, Kept, ReqIds, Knows
<1>3. CASE RowDeleted
  <2>1. PICK k \in Keys : table' = [table EXCEPT ![k] = NoRow]
    BY <1>3 DEF RowDeleted
  <2>2. NoRow.id = 0
    BY DEF NoRow
  <2>3. table'[k] = NoRow /\ \A l \in Keys \ {k} : table'[l] = table[l]
    BY <1>1, <2>1
  <2> QED
    BY <1>1, <1>3, <2>2, <2>3 DEF RowDeleted, ReqIds, Knows
<1>4. ASSUME NEW v \in Workers, RowInserted(v)
      PROVE  /\ req'[w].id <= lastId'
             /\ req'[w].id # 0 => \A k \in Keys : table'[k].id = req'[w].id => k = req'[w].key /\ table'[k].fp = req'[w].fp
  <2>1. req[v].key \in Keys
    BY <1>4 DEF RowInserted, At, Typed, Keyed
  <2>2. /\ lastId' = lastId + 1 /\ table'[req[v].key].id = lastId + 1
        /\ \A l \in Keys \ {req[v].key} : table'[l] = table[l]
    BY <1>1, <1>4, <2>1 DEF RowInserted, Insert, Exists
  <2> QED
    BY <1>1, <2>1, <2>2 DEF ReqIds, Knows
<1> QED
  BY <1>2, <1>3, <1>4, IdSteps

\* A request that knows a row by its number keeps knowing the fingerprint it has.
LEMMA ReqIdSteps ==
  ASSUME Typed, RowIds, ReqIds, [Next]_vars PROVE ReqIds'
<1>1. /\ table \in [Keys -> Row] /\ lastId \in Nat /\ \A k \in Keys : table[k].id \in Nat
      /\ req \in [Workers -> Requests] /\ lastId' \in Nat
  BY TypeSteps DEF Typed, TypeOK, TableOK, Row
<1>2. ASSUME NEW w \in Workers, req'[w] = req[w] PROVE Knows(req[w])'
  BY <1>2, KnowsKept DEF ReqIds, Knows
<1>3. ASSUME NEW w \in Workers, req'[w] = NoRequest PROVE Knows(req[w])'
  BY <1>1, <1>3 DEF NoRequest, Knows
<1>4. ASSUME NEW w \in Workers, NEW pc, req[w].pc # "idle", Goto(w, pc),
             pc \in {"get", "reget"} \/ req[w].id # 0, pc # "reclaim"
      PROVE  Knows(req[w])'
  <2>1. req'[w].id = req[w].id /\ req'[w].key = req[w].key /\ req'[w].fp = req[w].fp /\ req'[w].pc = pc
    BY <1>1, <1>4 DEF Goto, Requests
  <2> QED
    BY <1>4, <2>1, KnowsKept DEF Knows
<1>5. ASSUME NEW w \in Workers, Step(w) \/ Crash(w) PROVE Knows(req[w])'
  <2>2. Return(w) => Knows(req[w])'
    BY <1>1, <1>3 DEF Return
  <2>3. CASE CreateProcessing(w)
    <3>1. CASE Goto(w, "get")
      BY <1>4, <2>3, <3>1 DEF CreateProcessing, At
    <3>2. CASE ~Exists(req[w].key) /\ Insert(req[w].key, req[w].fp, req[w].now)
               /\ req' = [req EXCEPT ![w].pc = "execute", ![w].id = lastId + 1]
      <4>1. req[w].key \in Keys
        BY <2>3 DEF CreateProcessing, At, Typed, Keyed
      <4>2. /\ lastId' = lastId + 1 /\ table'[req[w].key].id = lastId + 1 /\ table'[req[w].key].fp = req[w].fp
            /\ \A l \in Keys \ {req[w].key} : table'[l] = table[l]
        BY <1>1, <3>2, <4>1 DEF Insert, Exists
      <4>3. /\ req'[w].pc = "execute" /\ req'[w].id = lastId + 1
            /\ req'[w].key = req[w].key /\ req'[w].fp = req[w].fp
        BY <1>1, <3>2 DEF Requests
      <4> QED
        BY <1>1, <4>1, <4>2, <4>3 DEF RowIds, Knows
    <3> QED
      BY <2>2, <2>3, <3>1, <3>2 DEF CreateProcessing, Exists
  <2>4. CASE GetExisting(w)
    <3>1. ASSUME NEW expired \in BOOLEAN, TakeOver(w, expired), table[req[w].key].fp = req[w].fp,
                 ~expired => table[req[w].key].status = "failed_retryable"
          PROVE  Knows(req[w])'
      <4>1. req[w].key \in Keys /\ req[w].fp \in Fingerprints
        BY <2>4 DEF GetExisting, Typed, Keyed
      <4>2. table[req[w].key].id # 0
        BY <3>1, <4>1, Names DEF RowIds, NoRow
      <4>3. /\ req'[w].pc = "reclaim" /\ req'[w].id = table[req[w].key].id
            /\ req'[w].from = table[req[w].key].status /\ req'[w].expired = expired
            /\ req'[w].key = req[w].key /\ req'[w].fp = req[w].fp
        BY <1>1, <3>1 DEF TakeOver, Requests
      <4>4. UNCHANGED <<table, lastId>>
        BY <2>4 DEF GetExisting
      <4> QED
        BY <3>1, <4>1, <4>2, <4>3, <4>4 DEF RowIds, Knows
    <3>2. \/ Return(w)
          \/ TakeOver(w, TRUE) /\ table[req[w].key].fp = req[w].fp
          \/ TakeOver(w, FALSE) /\ table[req[w].key].fp = req[w].fp /\ table[req[w].key].status = "failed_retryable"
      BY <2>4 DEF GetExisting
    <3> QED
      BY <2>2, <3>1, <3>2
  <2>5. CASE Reclaim(w)
    <3>1. req[w].pc = "reclaim" /\ req[w].id # 0
      BY <2>5 DEF Reclaim, At, ReqIds, Knows
    <3>2. CASE Goto(w, "reget")
      BY <1>4, <3>1, <3>2
    <3>3. CASE req' = [req EXCEPT ![w].pc = "execute", ![w].from = "none", ![w].expired = FALSE]
      <4>1. req'[w].id = req[w].id /\ req'[w].key = req[w].key /\ req'[w].fp = req[w].fp /\ req'[w].pc = "execute"
        BY <1>1, <3>3 DEF Requests
      <4> QED
        BY <3>1, <4>1, KnowsKept DEF Knows
    <3> QED
      BY <2>2, <2>5, <3>2, <3>3 DEF Reclaim
  <2>6. CASE ExecuteOperation(w)
    <3>1. req[w].pc = "execute" /\ req[w].id # 0
      BY <2>6 DEF ExecuteOperation, At, ReqIds, Knows
    <3> QED
      BY <1>4, <2>2, <2>6, <3>1 DEF ExecuteOperation
  <2>7. CASE StoreSuccess(w) \/ StoreFailure(w) \/ Crash(w)
    BY <2>2, <2>7 DEF StoreSuccess, StoreFailure, Crash
  <2> QED
    BY <1>5, <2>3, <2>4, <2>5, <2>6, <2>7 DEF Step
<1>6. ASSUME NEW w \in Workers, NEW k \in Keys, NEW fp \in Fingerprints, Begin(w, k, fp)
      PROVE  \A v \in Workers : Knows(req[v])'
  <2>1. \A v \in Workers \ {w} : req'[v] = req[v]
    BY <1>1, <1>6 DEF Begin
  <2>2. req'[w].pc = "create" /\ req'[w].id = 0
    BY <1>1, <1>6 DEF Begin, NoRequest
  <2>3. Knows(req[w])'
    BY <1>1, <2>2 DEF Knows
  <2> QED
    BY <1>2, <2>1, <2>3
<1>7. CASE UNCHANGED req
  BY <1>2, <1>7 DEF ReqIds
<1>8. ASSUME NEW w \in Workers, Step(w) \/ Crash(w)
      PROVE  \A v \in Workers : Knows(req[v])'
  BY <1>2, <1>5, <1>8, OthersWait DEF Typed
<1> QED
  BY <1>6, <1>7, <1>8 DEF Next, vars, Cleanup, Tick, ReqIds

----------------------------------------------------------------------------
(* Claims *)

\* A request that has not outlived its claim is within the TTL, and within the
\* lease until it executes.
InTime(w) ==
    req[w].pc # "idle" =>
      /\ req[w].now <= clock
      /\ ~overran[req[w].key] =>
           /\ clock < req[w].now + TTL
           /\ req[w].pc \in {"create", "get", "reget", "reclaim"} => clock < req[w].now + Lease
Timely == \A w \in Workers : InTime(w)

\* A row that is executed carries the claim of the request that executes it.
OwnRow(k, w) ==
    /\ table[k].id = req[w].id /\ table[k].status = "processing"
    /\ table[k].locked = req[w].now + Lease /\ table[k].expires = req[w].now + TTL
Owned == \A k \in Keys, w \in Workers : Executing(w, k) /\ ~overran[k] => OwnRow(k, w)

\* Who read the row before it was claimed began before the lease of that claim ends.
Behind ==
    \A k \in Keys, v, w \in Workers :
      Executing(w, k) /\ ~overran[k] /\ req[v].pc = "reclaim" /\ req[v].id = req[w].id =>
        req[v].now < req[w].now + Lease

\* A promise is the expiry of a row that has succeeded.
Promised ==
    \A k \in Keys : ~overran[k] /\ clock < promised[k] =>
      table[k].id # 0 /\ table[k].status = "succeeded" /\ table[k].expires = promised[k]

Inv == Typed /\ RowIds /\ ReqIds /\ Timely /\ Owned /\ ExecutionsExclusive /\ Behind /\ Promised

\* What a request says of its own time stays true as the clock runs.
LEMMA TimelySteps ==
  ASSUME Typed, Timely, [Next]_vars PROVE Timely'
<1>1. /\ req \in [Workers -> Requests] /\ clock \in Nat
      /\ \A w \in Workers : req[w].now \in Nat
      /\ overran \in [Keys -> BOOLEAN]
  BY ClockType DEF Typed, TypeOK, Requests
<1>2. ASSUME NEW w \in Workers, clock' = clock, overran' = overran,
             \/ req'[w] = req[w] \/ req'[w].pc = "idle"
             \/ /\ req[w].pc # "idle" /\ req'[w].key = req[w].key /\ req'[w].now = req[w].now
                /\ req'[w].pc \in {"create", "get", "reget", "reclaim"} =>
                     req[w].pc \in {"create", "get", "reget", "reclaim"}
      PROVE  InTime(w)'
  BY <1>2 DEF Timely, InTime
<1>3. ASSUME NEW w \in Workers, Step(w) \/ Crash(w) PROVE InTime(w)'
  <2> USE <1>1 DEF At
  <2>1. clock' = clock /\ overran' = overran
    BY <1>3 DEF Step, CreateProcessing, GetExisting, Reclaim, ExecuteOperation, StoreSuccess,
                StoreFailure, Crash, history
  <2>2. Return(w) => req'[w].pc = "idle"
    BY DEF Return, NoRequest
  <2>3. CASE CreateProcessing(w)
    <3>1. \/ Goto(w, "get") \/ Return(w)
          \/ req' = [req EXCEPT ![w].pc = "execute", ![w].id = lastId + 1]
      BY <2>3 DEF CreateProcessing
    <3>2. req[w].pc = "create"
      BY <2>3 DEF CreateProcessing
    <3> QED
      BY <1>2, <2>1, <2>2, <3>1, <3>2 DEF Goto, Requests
  <2>4. CASE GetExisting(w)
    <3>1. Return(w) \/ \E expired \in BOOLEAN : TakeOver(w, expired)
      BY <2>4 DEF GetExisting
    <3>2. req[w].pc \in {"get", "reget"}
      BY <2>4 DEF GetExisting
    <3> QED
      BY <1>2, <2>1, <2>2, <3>1, <3>2 DEF TakeOver, Requests
  <2>5. CASE Reclaim(w)
    <3>1. \/ Return(w) \/ Goto(w, "reget")
          \/ req' = [req EXCEPT ![w].pc = "execute", ![w].from = "none", ![w].expired = FALSE]
      BY <2>5 DEF Reclaim
    <3>2. req[w].pc = "reclaim"
      BY <2>5 DEF Reclaim
    <3> QED
      BY <1>2, <2>1, <2>2, <3>1, <3>2 DEF Goto, Requests
  <2>6. CASE ExecuteOperation(w)
    BY <1>2, <2>1, <2>2, <2>6 DEF ExecuteOperation, Goto, Requests
  <2>7. CASE StoreSuccess(w) \/ StoreFailure(w) \/ Crash(w)
    BY <1>2, <2>1, <2>2, <2>7 DEF StoreSuccess, StoreFailure, Crash
  <2> QED
    BY <1>3, <2>3, <2>4, <2>5, <2>6, <2>7 DEF Step
<1>4. ASSUME NEW w \in Workers, Step(w) \/ Crash(w) PROVE Timely'
  <2>1. clock' = clock /\ overran' = overran
    BY <1>4 DEF Step, CreateProcessing, GetExisting, Reclaim, ExecuteOperation, StoreSuccess,
                StoreFailure, Crash, history
  <2> QED
    BY <1>2, <1>3, <1>4, <2>1, OthersWait DEF Timely, Typed
<1>5. ASSUME NEW w \in Workers, NEW k \in Keys, NEW fp \in Fingerprints, Begin(w, k, fp) PROVE Timely'
  <2>1. /\ clock' = clock /\ overran' = overran
        /\ \A v \in Workers \ {w} : req'[v] = req[v]
        /\ req'[w].now = clock
    BY <1>1, <1>5 DEF Begin, history, NoRequest
  <2>2. InTime(w)'
    BY <1>1, <2>1, Bounds DEF InTime
  <2> QED
    BY <1>2, <2>1, <2>2 DEF Timely
<1>6. CASE Tick
  <2> SUFFICES ASSUME NEW w \in Workers, req[w].pc # "idle"
               PROVE  /\ req[w].now <= clock'
                      /\ ~overran'[req[w].key] =>
                           /\ clock' < req[w].now + TTL
                           /\ req[w].pc \in {"create", "get", "reget", "reclaim"} => clock' < req[w].now + Lease
    BY <1>6 DEF Timely, InTime, Tick
  <2>1. clock' = clock + 1 /\ req[w].now <= clock
    BY <1>6 DEF Tick, Timely, InTime
  <2>2. req[w].key \in Keys
    BY DEF Typed, Keyed
  <2>3. ~overran'[req[w].key] => ~Outlived(w, clock + 1)
    BY <1>6, <2>2 DEF Tick
  <2> QED
    BY <1>1, <2>1, <2>3, Bounds DEF Outlived, At
<1>7. CASE UNCHANGED <<clock, overran, req>>
  BY <1>2, <1>7 DEF Timely
<1> QED
  BY <1>4, <1>5, <1>6, <1>7 DEF Next, vars, Cleanup, DeleteExpired, history

\* The row of a request that executes cannot be inserted, taken over or deleted.
LEMMA NoClaim ==
  ASSUME Inv, NEW k \in Keys, NEW v \in Workers, Executing(v, k), ~overran[k]
  PROVE  /\ Exists(k) /\ table[k].expires > clock /\ table[k].status = "processing"
         /\ \A w \in Workers : At(w, "reclaim") /\ table[k].id = req[w].id =>
              ~Reclaimable(table[k], req[w].from, req[w].now)
<1>1. /\ OwnRow(k, v) /\ InTime(v) /\ Knows(req[v]) /\ req[v].key = k
      /\ req[v].pc \in {"execute", "succeed", "fail"}
  BY DEF Inv, Owned, Timely, ReqIds, Executing
<1>2. clock < req[v].now + TTL /\ req[v].id # 0
  BY <1>1 DEF InTime, Knows
<1>3. /\ req[v].now \in Nat /\ \A w \in Workers : req[w].now \in Nat
      /\ req[v].now + TTL \in Nat /\ clock \in Nat
  BY Bounds, ClockType DEF Inv, Typed, TypeOK, Requests
<1>4. ASSUME NEW w \in Workers, At(w, "reclaim"), table[k].id = req[w].id
      PROVE  ~Reclaimable(table[k], req[w].from, req[w].now)
  <2>1. req[w].now < req[v].now + Lease
    BY <1>1, <1>4 DEF Inv, Behind, At, OwnRow
  <2>2. table[k].locked = req[v].now + Lease
    BY <1>1 DEF OwnRow
  <2> QED
    BY <1>3, <2>1, <2>2, Bounds DEF Reclaimable
<1> QED
  BY <1>1, <1>2, <1>3, <1>4 DEF Exists, OwnRow

\* What a step of a request does to the row of another key, or of a key that
\* another request executes.
LEMMA Undisturbed ==
  ASSUME Inv, NEW w \in Workers, Step(w) \/ Crash(w), NEW k \in Keys,
         req[w].key = k => \E v \in Workers \ {w} : Executing(v, k) /\ ~overran[k]
  PROVE  table'[k] = table[k] /\ promised'[k] = promised[k]
<1>1. table \in [Keys -> Row] /\ promised \in [Keys -> Nat]
  BY DEF Inv, Typed, TypeOK, TableOK
<1>2. ASSUME req[w].key = k
      PROVE  /\ Exists(k) /\ req[w].pc \notin {"execute", "succeed", "fail"}
             /\ (At(w, "reclaim") /\ table[k].id = req[w].id =>
                   ~Reclaimable(table[k], req[w].from, req[w].now))
  BY <1>2, NoClaim DEF Inv, ExecutionsExclusive, Executing
<1>3. req[w].pc # "idle" => req[w].key \in Keys /\ Knows(req[w])
  BY DEF Inv, Typed, Keyed, ReqIds
<1>4. CASE CreateProcessing(w)
  BY <1>1, <1>2, <1>3, <1>4 DEF CreateProcessing, At, Insert, tableVars, history
<1>5. CASE Reclaim(w)
  <2>1. req[w].pc = "reclaim" /\ Knows(req[w]) /\ req[w].key \in Keys
    BY <1>3, <1>5 DEF Reclaim, At
  <2>2. req[w].id # 0
    BY <2>1 DEF Knows
  <2>3. CASE UNCHANGED <<table, promised>>
    BY <2>3
  <2>4. CASE /\ table[req[w].key].id = req[w].id
             /\ Reclaimable(table[req[w].key], req[w].from, req[w].now)
             /\ TryReclaim(req[w].id, req[w].now)
             /\ promised' = [promised EXCEPT ![req[w].key] = IF req[w].expired THEN 0 ELSE @]
    <3>1. k # req[w].key
      BY <1>2, <2>1, <2>4 DEF At
    <3>2. table[k].id # req[w].id
      BY <2>1, <2>2, <3>1 DEF Knows
    <3> QED
      BY <1>1, <2>4, <3>1, <3>2 DEF TryReclaim
  <2> QED
    BY <1>5, <2>3, <2>4 DEF Reclaim
<1>6. CASE StoreSuccess(w) \/ StoreFailure(w)
  <2>1. /\ req[w].pc \in {"succeed", "fail"} /\ Knows(req[w]) /\ req[w].key \in Keys
        /\ k # req[w].key
    BY <1>2, <1>3, <1>6 DEF StoreSuccess, StoreFailure, At
  <2>2. table[k].id # req[w].id
    BY <2>1 DEF Knows
  <2> QED
    BY <1>1, <1>6, <2>1, <2>2 DEF StoreSuccess, StoreFailure, MarkSucceeded, MarkFailedRetryable, Marked, history
<1>7. CASE GetExisting(w) \/ ExecuteOperation(w) \/ Crash(w)
  BY <1>7 DEF GetExisting, ExecuteOperation, Crash, history
<1> QED
  BY <1>4, <1>5, <1>6, <1>7 DEF Step

\* The two ways in which a request begins to execute.
Inserts(w) ==
    /\ At(w, "create") /\ ~Exists(req[w].key)
    /\ Insert(req[w].key, req[w].fp, req[w].now)
    /\ req' = [req EXCEPT ![w].pc = "execute", ![w].id = lastId + 1]
    /\ UNCHANGED promised
Takes(w) ==
    /\ At(w, "reclaim") /\ table[req[w].key].id = req[w].id
    /\ Reclaimable(table[req[w].key], req[w].from, req[w].now)
    /\ TryReclaim(req[w].id, req[w].now)
    /\ req' = [req EXCEPT ![w].pc = "execute", ![w].from = "none", ![w].expired = FALSE]
    /\ promised' = [promised EXCEPT ![req[w].key] = IF req[w].expired THEN 0 ELSE @]

\* A request comes to execute by inserting a row or taking one over, and by nothing else.
LEMMA Beginnings ==
  ASSUME Inv, NEW w \in Workers, Step(w) \/ Crash(w), req'[w].pc \in {"execute", "succeed", "fail"}
  PROVE  \/ Inserts(w) \/ Takes(w)
         \/ ExecuteOperation(w) /\ \E pc \in {"succeed", "fail"} : Goto(w, pc)
<1>1. req \in [Workers -> Requests] /\ ~Return(w)
  BY DEF Inv, Typed, TypeOK, Return, NoRequest
<1>2. CASE CreateProcessing(w)
  BY <1>1, <1>2 DEF CreateProcessing, Goto, Requests, Exists, Inserts, history
<1>3. CASE GetExisting(w)
  BY <1>1, <1>3 DEF GetExisting, TakeOver, Requests
<1>4. CASE Reclaim(w)
  BY <1>1, <1>4 DEF Reclaim, Goto, Requests, Takes
<1>5. CASE ExecuteOperation(w)
  BY <1>1, <1>5 DEF ExecuteOperation
<1>6. CASE StoreSuccess(w) \/ StoreFailure(w) \/ Crash(w)
  BY <1>1, <1>6 DEF StoreSuccess, StoreFailure, Crash
<1> QED
  BY <1>2, <1>3, <1>4, <1>5, <1>6 DEF Step

\* A request that begins to execute finds nobody that executes, and its claim on
\* the row.
LEMMA Beginner ==
  ASSUME Inv, NEW w \in Workers, Inserts(w) \/ Takes(w), ~overran[req[w].key]
  PROVE  /\ \A v \in Workers : ~Executing(v, req[w].key)
         /\ OwnRow(req[w].key, w)'
         /\ req'[w].key = req[w].key /\ req'[w].now = req[w].now
<1>1. /\ req \in [Workers -> Requests] /\ table \in [Keys -> Row] /\ req[w].key \in Keys
  BY DEF Inv, Typed, TypeOK, TableOK, Keyed, Inserts, Takes, At
<1>2. \A v \in Workers : ~Executing(v, req[w].key)
  BY <1>1, NoClaim DEF Inserts, Takes
<1>3. CASE Inserts(w)
  <2>1. /\ req'[w].key = req[w].key /\ req'[w].now = req[w].now /\ req'[w].id = lastId + 1
        /\ table'[req[w].key] = [id |-> lastId + 1, fp |-> req[w].fp, status |-> "processing",
               locked |-> req[w].now + Lease, expires |-> req[w].now + TTL, body |-> NoFingerprint]
    BY <1>1, <1>3 DEF Inserts, Insert, Requests
  <2> QED
    BY <1>2, <2>1 DEF OwnRow
<1>4. CASE Takes(w)
  <2>1. /\ req'[w].key = req[w].key /\ req'[w].now = req[w].now /\ req'[w].id = req[w].id
        /\ table'[req[w].key] = [table[req[w].key] EXCEPT !.status = "processing",
               !.locked = req[w].now + Lease, !.expires = req[w].now + TTL]
    <3>1. req'[w].key = req[w].key /\ req'[w].now = req[w].now /\ req'[w].id = req[w].id
      BY <1>1, <1>4 DEF Takes, Requests
    <3>2. TryReclaim(req[w].id, req[w].now) /\ table[req[w].key].id = req[w].id
      BY <1>4 DEF Takes
    <3>3. table'[req[w].key] = [table[req[w].key] EXCEPT !.status = "processing",
               !.locked = req[w].now + Lease, !.expires = req[w].now + TTL]
      BY <1>1, <3>2 DEF TryReclaim
    <3> QED
      BY <3>1, <3>3
  <2>2. table[req[w].key] \in Row /\ table[req[w].key].id = req[w].id
    BY <1>1, <1>4 DEF Takes
  <2> QED
    BY <1>2, <2>1, <2>2 DEF OwnRow, Row
<1> QED
  BY <1>3, <1>4

\* A step of a request leaves every execution with its own row, and alone.
LEMMA OwnedSteps ==
  ASSUME Inv, NEW w \in Workers, Step(w) \/ Crash(w) PROVE Owned' /\ ExecutionsExclusive'
<1>1. /\ req \in [Workers -> Requests] /\ overran' = overran
      /\ \A v \in Workers \ {w} : req'[v] = req[v]
  BY OthersWait DEF Inv, Typed, TypeOK, Step, CreateProcessing, GetExisting, Reclaim, ExecuteOperation,
     StoreSuccess, StoreFailure, Crash, history
<1>2. ASSUME NEW k \in Keys, NEW v \in Workers \ {w}, Executing(v, k)', ~overran'[k]
      PROVE  Executing(v, k) /\ ~overran[k] /\ OwnRow(k, v)'
  <2>1. Executing(v, k) /\ ~overran[k] /\ req'[v] = req[v]
    BY <1>1, <1>2 DEF Executing
  <2>2. table'[k] = table[k]
    BY <2>1, Undisturbed
  <2>3. OwnRow(k, v)
    BY <2>1 DEF Inv, Owned
  <2> QED
    BY <2>1, <2>2, <2>3 DEF OwnRow
<1>3. ASSUME NEW k \in Keys, Executing(w, k)', ~overran'[k]
      PROVE  OwnRow(k, w)' /\ \A v \in Workers \ {w} : ~Executing(v, k)
  <2>1. req'[w].pc \in {"execute", "succeed", "fail"} /\ req'[w].key = k
    BY <1>3 DEF Executing
  <2>2. CASE Inserts(w) \/ Takes(w)
    <3>1. req'[w].key = req[w].key
      BY <1>1, <2>2 DEF Inserts, Takes, Requests
    <3> QED
      BY <1>1, <1>3, <2>1, <2>2, <3>1, Beginner
  <2>3. CASE ExecuteOperation(w) /\ \E pc \in {"succeed", "fail"} : Goto(w, pc)
    <3>1. /\ req[w].pc = "execute" /\ UNCHANGED table
          /\ req'[w].key = req[w].key /\ req'[w].id = req[w].id /\ req'[w].now = req[w].now
      BY <1>1, <2>3 DEF ExecuteOperation, At, Goto, Requests
    <3>2. Executing(w, k)
      BY <2>1, <3>1 DEF Executing
    <3>3. OwnRow(k, w) /\ \A v \in Workers : Executing(v, k) => v = w
      BY <1>1, <1>3, <3>2 DEF Inv, Owned, ExecutionsExclusive
    <3> QED
      BY <3>1, <3>3 DEF OwnRow
  <2> QED
    BY <2>1, <2>2, <2>3, Beginnings
<1>4. Owned'
  BY <1>2, <1>3 DEF Owned
<1>5. ExecutionsExclusive'
  BY <1>2, <1>3 DEF ExecutionsExclusive, Inv
<1> QED
  BY <1>4, <1>5

\* A step of a request leaves late writers behind the row that took their place.
LEMMA BehindSteps ==
  ASSUME Inv, NEW w \in Workers, Step(w) \/ Crash(w) PROVE Behind'
<1>1. /\ req \in [Workers -> Requests] /\ overran' = overran /\ clock' = clock
      /\ \A v \in Workers \ {w} : req'[v] = req[v]
  BY OthersWait DEF Inv, Typed, TypeOK, Step, CreateProcessing, GetExisting, Reclaim, ExecuteOperation,
     StoreSuccess, StoreFailure, Crash, history
<1>2. SUFFICES ASSUME NEW k \in Keys, NEW v \in Workers, NEW u \in Workers, Executing(u, k)', ~overran[k],
                      req'[v].pc = "reclaim", req'[v].id = req'[u].id
               PROVE  req'[v].now < req'[u].now + Lease
  BY <1>1 DEF Behind
<1>3. /\ req[v].now \in Nat /\ req[w].now \in Nat /\ clock \in Nat /\ lastId \in Nat
      /\ req[v].id \in Nat /\ req[u].id \in Nat
  BY ClockType DEF Inv, Typed, TypeOK, TableOK, Requests
<1>4. CASE u # w /\ v # w
  BY <1>1, <1>2, <1>4 DEF Inv, Behind, Executing
<1>5. CASE u = w /\ v # w
  <2>1. req'[w].pc \in {"execute", "succeed", "fail"} /\ req'[w].key = k
    BY <1>2, <1>5 DEF Executing
  <2>2. req'[v] = req[v] /\ req[v].pc = "reclaim" /\ Knows(req[v]) /\ InTime(v) /\ InTime(w)
    BY <1>1, <1>2, <1>5 DEF Inv, ReqIds, Timely
  <2>3. CASE Inserts(w)
    <3>1. req'[w].id = lastId + 1 /\ req[v].id <= lastId
      BY <1>1, <2>2, <2>3 DEF Inserts, Requests, Knows
    <3> QED
      BY <1>2, <1>3, <1>5, <2>2, <3>1
  <2>4. CASE Takes(w)
    <3>1. req[w].pc = "reclaim" /\ req'[w].key = req[w].key /\ req'[w].now = req[w].now
      BY <1>1, <2>4 DEF Takes, At, Requests
    <3>2. clock < req[w].now + Lease /\ req[v].now <= clock
      BY <1>2, <2>1, <2>2, <3>1 DEF InTime
    <3> QED
      BY <1>3, <1>5, <2>2, <3>1, <3>2, Bounds
  <2>5. CASE ExecuteOperation(w) /\ \E pc \in {"succeed", "fail"} : Goto(w, pc)
    <3>1. /\ req[w].pc = "execute" /\ req'[w].key = req[w].key
          /\ req'[w].id = req[w].id /\ req'[w].now = req[w].now
      BY <1>1, <2>5 DEF ExecuteOperation, At, Goto, Requests
    <3>2. Executing(w, k)
      BY <2>1, <3>1 DEF Executing
    <3> QED
      BY <1>2, <1>5, <2>2, <3>1, <3>2 DEF Inv, Behind
  <2> QED
    BY <2>1, <2>3, <2>4, <2>5, Beginnings
<1>6. CASE v = w /\ u # w
  <2>1. PICK expired \in BOOLEAN :
          /\ GetExisting(w) /\ TakeOver(w, expired)
          /\ expired => Expired(table[req[w].key], req[w].now)
          /\ ~expired => table[req[w].key].status = "failed_retryable"
    <3>1. req'[w].pc = "reclaim"
      BY <1>2, <1>6
    <3>2. ~Return(w) /\ \A pc : pc # "reclaim" => ~Goto(w, pc)
      BY <1>1, <3>1 DEF Return, NoRequest, Goto, Requests
    <3>3. CASE GetExisting(w)
      BY <3>2, <3>3 DEF GetExisting
    <3>4. CASE CreateProcessing(w)
      BY <1>1, <3>1, <3>2, <3>4 DEF CreateProcessing, Requests
    <3>5. CASE Reclaim(w)
      BY <1>1, <3>1, <3>2, <3>5 DEF Reclaim, Requests
    <3> QED
      BY <3>2, <3>3, <3>4, <3>5 DEF Step, ExecuteOperation, StoreSuccess, StoreFailure, Crash
  <2>2. /\ Executing(u, k) /\ Knows(req[u]) /\ InTime(w) /\ req[u].pc \in {"execute", "succeed", "fail"}
        /\ req[u].key = k /\ req'[u] = req[u]
    BY <1>1, <1>2, <1>6 DEF Executing, Inv, ReqIds, Timely
  <2>3. req[w].pc # "idle" /\ req[w].key \in Keys /\ req'[w].id = table[req[w].key].id
    <3>1. req[w].pc \in {"get", "reget"} /\ TakeOver(w, expired)
      BY <2>1 DEF GetExisting
    <3>2. req[w].key \in Keys
      BY <3>1 DEF Inv, Typed, Keyed
    <3>3. req[w] \in Requests
      BY <1>1
    <3>4. req'[w].id = table[req[w].key].id
      BY <1>1, <3>1, <3>3 DEF TakeOver, Requests
    <3> QED
      BY <3>1, <3>2, <3>4
  <2>4. req[w].key = k
    BY <1>2, <1>6, <2>2, <2>3 DEF Knows
  <2>5. table[k].expires > clock /\ table[k].status = "processing" /\ table[k].expires \in Nat
    BY <1>2, <2>2, NoClaim DEF Inv, Typed, TypeOK, TableOK, Row
  <2>6. req[w].now <= clock
    BY <2>2, <2>3 DEF InTime
  <2> QED
    BY <1>3, <2>1, <2>4, <2>5, <2>6 DEF Expired
<1>7. CASE v = w /\ u = w
  BY <1>2, <1>7 DEF Executing
<1> QED
  BY <1>4, <1>5, <1>6, <1>7

\* A step of a request keeps every promise to replay a success.
LEMMA PromisedSteps ==
  ASSUME Inv, NEW w \in Workers, Step(w) \/ Crash(w) PROVE Promised'
<1>1. /\ table \in [Keys -> Row] /\ promised \in [Keys -> Nat] /\ overran' = overran /\ clock' = clock
      /\ clock \in Nat
  BY ClockType DEF Inv, Typed, TypeOK, TableOK, Step, CreateProcessing, GetExisting, Reclaim,
     ExecuteOperation, StoreSuccess, StoreFailure, Crash, history
<1>2. SUFFICES ASSUME NEW k \in Keys, ~overran[k], clock < promised'[k]
               PROVE  table'[k].id # 0 /\ table'[k].status = "succeeded" /\ table'[k].expires = promised'[k]
  BY <1>1 DEF Promised
<1>3. promised[k] \in Nat
      /\ (clock < promised[k] => table[k].id # 0 /\ table[k].status = "succeeded" /\ table[k].expires = promised[k])
  BY <1>1, <1>2 DEF Inv, Promised
<1>4. CASE table'[k] = table[k] /\ promised'[k] = promised[k]
  BY <1>2, <1>3, <1>4
<1>5. CASE req[w].key = k /\ req[w].pc # "idle"
  <2>1. CASE CreateProcessing(w)
    <3>1. UNCHANGED promised
      BY <2>1 DEF CreateProcessing, history
    <3>2. UNCHANGED tableVars \/ ~Exists(k)
      BY <1>5, <2>1 DEF CreateProcessing, Insert
    <3> QED
      BY <1>2, <1>3, <1>4, <3>1, <3>2 DEF Exists, tableVars
  <2>2. CASE Reclaim(w)
    <3>1. CASE UNCHANGED <<table, promised>>
      BY <1>4, <3>1
    <3>2. CASE /\ Reclaimable(table[k], req[w].from, req[w].now)
               /\ promised' = [promised EXCEPT ![k] = IF req[w].expired THEN 0 ELSE @]
      <4>1. ~req[w].expired /\ promised'[k] = promised[k]
        BY <1>1, <1>2, <3>2
      <4>2. req[w].from = "failed_retryable"
        BY <2>2, <4>1 DEF Reclaim, At, Inv, ReqIds, Knows
      <4> QED
        BY <1>2, <1>3, <3>2, <4>1, <4>2 DEF Reclaimable
    <3> QED
      BY <1>5, <2>2, <3>1, <3>2 DEF Reclaim
  <2>3. CASE StoreSuccess(w) \/ StoreFailure(w)
    <3>1. Executing(w, k)
      BY <1>5, <2>3 DEF StoreSuccess, StoreFailure, At, Executing
    <3>2. table[k].id = req[w].id /\ table[k].status = "processing" /\ table[k].id # 0
      BY <1>2, <3>1, NoClaim DEF Inv, Owned, OwnRow, Exists
    <3>3. ~(clock < promised[k])
      BY <1>3, <3>2
    <3>4. promised' = [promised EXCEPT ![k] = req[w].now + TTL] /\ MarkSucceeded(req[w].id, req[w].fp, req[w].now + TTL)
      BY <1>2, <1>5, <2>3, <3>3 DEF StoreSuccess, StoreFailure, history
    <3>5. table'[k] = [table[k] EXCEPT !.status = "succeeded", !.locked = 0,
                                       !.expires = req[w].now + TTL, !.body = req[w].fp]
      BY <3>2, <3>4 DEF MarkSucceeded, Marked
    <3>6. table[k] \in Row /\ promised'[k] = req[w].now + TTL
      BY <1>1, <3>4
    <3> QED
      BY <3>2, <3>5, <3>6 DEF Row
  <2>4. CASE GetExisting(w) \/ ExecuteOperation(w) \/ Crash(w)
    BY <1>4, <2>4 DEF GetExisting, ExecuteOperation, Crash, history
  <2> QED
    BY <2>1, <2>2, <2>3, <2>4 DEF Step
<1>6. CASE req[w].key # k
  BY <1>4, <1>6, Undisturbed
<1>7. req[w].pc # "idle"
  BY DEF Step, CreateProcessing, GetExisting, Reclaim, ExecuteOperation, StoreSuccess, StoreFailure, Crash, At
<1> QED
  BY <1>5, <1>6, <1>7

\* New requests, the cleanup and the clock keep all that is said of executions.
LEMMA OtherSteps ==
  ASSUME Inv, Timely',
         \/ \E w \in Workers, k \in Keys, fp \in Fingerprints : Begin(w, k, fp)
         \/ \E k \in Keys : Cleanup(k)
         \/ Tick \/ UNCHANGED vars
  PROVE  Owned' /\ ExecutionsExclusive' /\ Behind' /\ Promised'
<1>1. /\ req \in [Workers -> Requests] /\ table \in [Keys -> Row] /\ clock \in Nat
      /\ overran \in [Keys -> BOOLEAN] /\ promised \in [Keys -> Nat]
  BY ClockType DEF Inv, Typed, TypeOK, TableOK
<1>2. ASSUME NEW w \in Workers, NEW k \in Keys, NEW fp \in Fingerprints, Begin(w, k, fp)
      PROVE  Owned' /\ ExecutionsExclusive' /\ Behind' /\ Promised'
  <2>1. /\ UNCHANGED <<table, clock, promised, overran>> /\ req'[w].pc = "create"
        /\ \A v \in Workers \ {w} : req'[v] = req[v]
    BY <1>1, <1>2 DEF Begin, history, NoRequest
  <2>2. \A v \in Workers, l \in Keys : Executing(v, l)' => Executing(v, l) /\ req'[v] = req[v]
    BY <2>1 DEF Executing
  <2>3. Owned' /\ ExecutionsExclusive'
    BY <2>1, <2>2 DEF Inv, Owned, ExecutionsExclusive, OwnRow
  <2>4. Behind'
    BY <2>1, <2>2 DEF Inv, Behind
  <2>5. Promised'
    BY <2>1 DEF Inv, Promised
  <2> QED
    BY <2>3, <2>4, <2>5
<1>3. ASSUME NEW k \in Keys, Cleanup(k)
      PROVE  Owned' /\ ExecutionsExclusive' /\ Behind' /\ Promised'
  <2>1. /\ UNCHANGED <<req, clock, promised, overran>> /\ table[k].expires <= clock
        /\ \A l \in Keys \ {k} : table'[l] = table[l]
    BY <1>1, <1>3 DEF Cleanup, DeleteExpired, history
  <2>2. table[k].expires \in Nat
    BY <1>1 DEF Row
  <2>3. \A v \in Workers : Executing(v, k) => overran[k]
    BY <1>1, <2>1, <2>2, NoClaim
  <2>4. \A v \in Workers, l \in Keys : Executing(v, l)' <=> Executing(v, l)
    BY <2>1 DEF Executing
  <2>5. Owned'
    BY <2>1, <2>3, <2>4 DEF Inv, Owned, OwnRow
  <2>6. ExecutionsExclusive' /\ Behind'
    BY <2>1, <2>4 DEF Inv, ExecutionsExclusive, Behind
  <2>7. ASSUME ~overran[k], clock < promised[k] PROVE FALSE
    BY <1>1, <2>1, <2>2, <2>7 DEF Inv, Promised
  <2>8. Promised'
    BY <2>1, <2>7 DEF Inv, Promised
  <2> QED
    BY <2>5, <2>6, <2>8
<1>4. ASSUME Tick PROVE Owned' /\ ExecutionsExclusive' /\ Behind' /\ Promised'
  <2>1. UNCHANGED <<req, table, promised>> /\ clock' = clock + 1 /\ \A l \in Keys : ~overran'[l] => ~overran[l]
    BY <1>4 DEF Tick
  <2>2. \A v \in Workers, l \in Keys : Executing(v, l)' <=> Executing(v, l)
    BY <2>1 DEF Executing
  <2>3. Owned' /\ ExecutionsExclusive' /\ Behind'
    BY <2>1, <2>2 DEF Inv, Owned, OwnRow, ExecutionsExclusive, Behind
  <2>4. ASSUME NEW l \in Keys, clock' < promised'[l] PROVE clock < promised[l]
    BY <1>1, <2>1, <2>4
  <2>5. Promised'
    BY <2>1, <2>4 DEF Inv, Promised
  <2> QED
    BY <2>3, <2>5
<1>5. ASSUME UNCHANGED vars PROVE Owned' /\ ExecutionsExclusive' /\ Behind' /\ Promised'
  BY <1>5 DEF vars, Inv, Owned, OwnRow, ExecutionsExclusive, Behind, Promised, Executing
<1> QED
  BY <1>2, <1>3, <1>4, <1>5

\* The claims of requests on the rows, for every behaviour.
LEMMA AlwaysInv == Spec => []Inv
<1>1. Init => RowIds /\ ReqIds /\ Timely /\ Owned /\ ExecutionsExclusive /\ Behind /\ Promised
  <2> SUFFICES ASSUME Init PROVE RowIds /\ ReqIds /\ Timely /\ Owned /\ ExecutionsExclusive /\ Behind /\ Promised
    OBVIOUS
  <2>1. /\ \A w \in Workers : req[w] = NoRequest
        /\ \A k \in Keys : table[k] = NoRow /\ promised[k] = 0
        /\ lastId = 0 /\ clock = 1
    BY DEF Init, TableInit
  <2>2. /\ \A w \in Workers : req[w].pc = "idle" /\ req[w].id = 0
        /\ \A k \in Keys : table[k].id = 0
    BY <2>1 DEF NoRequest, NoRow
  <2>3. RowIds /\ ReqIds /\ Timely
    BY <2>1, <2>2 DEF RowIds, ReqIds, Knows, Timely, InTime
  <2>4. Owned /\ ExecutionsExclusive /\ Behind /\ Promised
    BY <2>1, <2>2 DEF Owned, ExecutionsExclusive, Behind, Promised, Executing
  <2> QED
    BY <2>3, <2>4
<1>2. ASSUME Inv, [Next]_vars PROVE Inv'
  <2>1. RowIds' /\ ReqIds' /\ Timely' /\ Typed'
    BY <1>2, RowIdSteps, ReqIdSteps, TimelySteps, TypeSteps, KeyedSteps DEF Inv, Typed
  <2>2. CASE \E w \in Workers : Step(w) \/ Crash(w)
    BY <1>2, <2>1, <2>2, OwnedSteps, BehindSteps, PromisedSteps DEF Inv
  <2>3. CASE ~(\E w \in Workers : Step(w) \/ Crash(w))
    BY <1>2, <2>1, <2>3, OtherSteps DEF Inv, Next
  <2> QED
    BY <2>2, <2>3
<1> QED
  BY <1>1, <1>2, AlwaysTyped, PTL DEF Spec, Inv

\* Two executions of one key never overlap, through any races of claims, failures,
\* retries and cleanups, as long as no request outlives its claim.
THEOREM Exclusive == Spec => []ExecutionsExclusive
<1>1. Inv => ExecutionsExclusive
  BY DEF Inv
<1> QED
  BY <1>1, AlwaysInv, PTL

\* A success that was acknowledged is not executed again before it expires by a
\* request that found the row absent or failed.
THEOREM PromisesKept == Spec => PromiseKept
<1>1. ASSUME Inv, [Next]_vars, NEW w \in Workers, Claims(w), ~req[w].expired, ~overran[req[w].key]
      PROVE  promised[req[w].key] <= clock
  <2>1. req \in [Workers -> Requests] /\ clock \in Nat /\ req[w].pc # "execute" /\ req'[w].pc = "execute"
    BY <1>1, ClockType DEF Inv, Typed, TypeOK, Claims, At
  <2>2. Step(w) \/ Crash(w)
    <3>1. ASSUME NEW v \in Workers \ {w}, Step(v) \/ Crash(v) PROVE FALSE
      BY <1>1, <2>1, <3>1, OthersWait DEF Inv, Typed
    <3>2. ASSUME NEW v \in Workers, NEW k \in Keys, NEW fp \in Fingerprints, Begin(v, k, fp) PROVE FALSE
      BY <2>1, <3>2 DEF Begin, NoRequest
    <3> QED
      BY <1>1, <2>1, <3>1, <3>2 DEF Next, vars, Cleanup, Tick
  <2>3. Inserts(w) \/ Takes(w)
    BY <1>1, <2>1, <2>2, Beginnings DEF ExecuteOperation, At
  <2>4. req[w].key \in Keys
    BY <1>1, <2>3 DEF Inserts, Takes, At, Inv, Typed, Keyed
  <2>5. promised[req[w].key] \in Nat
    BY <1>1, <2>4 DEF Inv, Typed, TypeOK
  <2>6. ~(clock < promised[req[w].key])
    <3>1. CASE Inserts(w)
      BY <1>1, <2>4, <3>1 DEF Inserts, Exists, Inv, Promised
    <3>2. CASE Takes(w)
      <4>1. req[w].from = "failed_retryable"
        BY <1>1, <3>2 DEF Takes, At, Inv, ReqIds, Knows
      <4> QED
        BY <1>1, <2>4, <3>2, <4>1 DEF Takes, Reclaimable, Inv, Promised
    <3> QED
      BY <2>3, <3>1, <3>2
  <2> QED
    BY <2>1, <2>5, <2>6
<1>2. Inv /\ [Next]_vars =>
        [\A w \in Workers : LET k == req[w].key IN
           Claims(w) /\ ~req[w].expired /\ ~overran[k] => promised[k] <= clock]_vars
  BY <1>1
<1> QED
  BY <1>2, AlwaysInv, PTL DEF Spec, PromiseKept

\* A stored response answers the request whose payload the row carries.
THEOREM ResponsesOwn == Spec => []StoredIsOwn
<1>1. ASSUME Init PROVE StoredIsOwn
  <2>1. \A k \in Keys : table[k] = NoRow
    BY <1>1 DEF Init, TableInit
  <2>2. NoRow.body = NoFingerprint
    BY DEF NoRow
  <2> QED
    BY <2>1, <2>2 DEF StoredIsOwn
<1>2. ASSUME Inv, StoredIsOwn, [Next]_vars PROVE StoredIsOwn'
  <2>1. table \in [Keys -> Row]
    BY <1>2 DEF Inv, Typed, TypeOK, TableOK
  <2>2. CASE UNCHANGED table
    BY <1>2, <2>2 DEF StoredIsOwn
  <2>3. ASSUME NEW w \in Workers, CreateProcessing(w) PROVE StoredIsOwn'
    <3>1. UNCHANGED table \/ \E row : row.body = NoFingerprint /\ table' = [table EXCEPT ![req[w].key] = row]
      BY <2>3 DEF CreateProcessing, Insert, tableVars
    <3> QED
      BY <1>2, <2>1, <3>1 DEF StoredIsOwn
  <2>4. ASSUME NEW w \in Workers, Reclaim(w) \/ StoreFailure(w) PROVE StoredIsOwn'
    <3>1. \A k \in Keys : table'[k].body = table[k].body /\ table'[k].fp = table[k].fp
      <4>1. CASE UNCHANGED table
        BY <4>1
      <4>2. ASSUME NEW id, NEW now, TryReclaim(id, now)
            PROVE  \A k \in Keys : table'[k].body = table[k].body /\ table'[k].fp = table[k].fp
        BY <2>1, <4>2 DEF TryReclaim, Row
      <4>3. ASSUME NEW id, NEW until, NEW expires, MarkFailedRetryable(id, until, expires)
            PROVE  \A k \in Keys : table'[k].body = table[k].body /\ table'[k].fp = table[k].fp
        BY <2>1, <4>3 DEF MarkFailedRetryable, Row
      <4> QED
        BY <2>4, <4>1, <4>2, <4>3 DEF Reclaim, StoreFailure
    <3> QED
      BY <1>2, <3>1 DEF StoredIsOwn
  <2>5. ASSUME NEW w \in Workers, StoreSuccess(w) PROVE StoredIsOwn'
    <3>1. \A k \in Keys : /\ table'[k].fp = table[k].fp
                          /\ \/ table'[k].body = table[k].body
                             \/ table'[k].body = req[w].fp /\ table[k].id = req[w].id
      BY <2>1, <2>5 DEF StoreSuccess, MarkSucceeded, Marked, Row
    <3>2. req[w].id # 0 /\ \A k \in Keys : table[k].id = req[w].id => table[k].fp = req[w].fp
      BY <1>2, <2>5 DEF StoreSuccess, At, Inv, ReqIds, Knows
    <3> QED
      BY <1>2, <3>1, <3>2 DEF StoredIsOwn
  <2>6. ASSUME NEW k \in Keys, Cleanup(k) PROVE StoredIsOwn'
    BY <1>2, <2>1, <2>6 DEF Cleanup, DeleteExpired, NoRow, StoredIsOwn
  <2> QED
    BY <1>2, <2>2, <2>3, <2>4, <2>5, <2>6
       DEF Next, Step, vars, GetExisting, ExecuteOperation, Crash, Begin, Tick
<1> QED
  BY <1>1, <1>2, AlwaysInv, PTL DEF Spec
=============================================================================
