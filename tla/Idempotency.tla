---------------------------- MODULE Idempotency ----------------------------
(***************************************************************************)
(* IdempotencyCoordinator.Execute: requests that carry an idempotency key  *)
(* claim its row, execute the business operation, and store its response   *)
(* for replay until the row expires. A worker is one request on any        *)
(* instance; it reads the clock once, when it begins.                      *)
(*   (service/idempotency.go, service/idempotency_cleanup_service.go)      *)
(***************************************************************************)
EXTENDS IdempotencyRecords

CONSTANTS
    Workers,        \* requests in flight
    NoKey,          \* the key of an idle worker
    Backoff,        \* FailedRetryBackoff
    MaxFaults       \* bound: failed statements and crashes in one behaviour

ASSUME CoordinatorAssumption ==
    Backoff \in Nat \ {0} /\ MaxFaults \in Nat /\ NoKey \notin Keys

VARIABLES
    req,        \* the request of each worker
    faults,     \* failures so far
    promised,   \* when the last success acknowledged in the present life of a
                \* row expires; 0 when none, or when the row was reclaimed expired
    overran     \* a request outlived its claim: it went on past the TTL of the
                \* row, or its claim took longer than the lease

vars == <<table, lastId, clock, req, faults, promised, overran>>

ReqPcs == {"idle", "create", "get", "reget", "reclaim", "execute", "succeed", "fail"}
Requests == [pc : ReqPcs, key : Keys \cup {NoKey}, fp : Fingerprints \cup {NoFingerprint},
             now : Nat, id : Nat, from : RowStatuses, expired : BOOLEAN]
NoRequest == [pc |-> "idle", key |-> NoKey, fp |-> NoFingerprint,
              now |-> 0, id |-> 0, from |-> "none", expired |-> FALSE]

Init ==
    /\ TableInit
    /\ req = [w \in Workers |-> NoRequest]
    /\ faults = 0
    /\ promised = [k \in Keys |-> 0]
    /\ overran = [k \in Keys |-> FALSE]

At(w, pc) == req[w].pc = pc
Goto(w, pc) == req' = [req EXCEPT ![w].pc = pc]
Return(w) == req' = [req EXCEPT ![w] = NoRequest]
Fails == faults < MaxFaults /\ faults' = faults + 1
NoFault == UNCHANGED faults
history == <<promised, overran>>

----------------------------------------------------------------------------
\* Execute up to the first statement: the key is valid, the time is taken.
Begin(w, k, fp) ==
    /\ At(w, "idle")
    /\ req' = [req EXCEPT ![w] = [NoRequest EXCEPT !.pc = "create", !.key = k,
                                                   !.fp = fp, !.now = clock]]
    /\ UNCHANGED <<table, lastId, clock, faults, history>>

\* CreateProcessing; a statement may fail before or after it was applied.
CreateProcessing(w) ==
    LET k == req[w].key
    IN  /\ At(w, "create")
        /\ \/ /\ NoFault
              /\ Insert(k, req[w].fp, req[w].now)
              /\ IF Exists(k) THEN Goto(w, "get")
                 ELSE req' = [req EXCEPT ![w].pc = "execute", ![w].id = lastId + 1]
           \/ /\ Fails /\ Return(w)
              /\ Insert(k, req[w].fp, req[w].now) \/ UNCHANGED tableVars
        /\ UNCHANGED <<clock, history>>

\* The row is not ours: replay it, refuse, or try to take it over.
TakeOver(w, expired) ==
    req' = [req EXCEPT ![w].pc = "reclaim", ![w].id = table[req[w].key].id,
                       ![w].from = table[req[w].key].status, ![w].expired = expired]

MutExpired(r, now) == r.status # "succeeded" /\ r.locked <= now \* mutant: by the lock
Expired(r, now) == r.expires <= now

GetExisting(w) ==
    LET r == table[req[w].key]
        expired == At(w, "get") /\ Expired(r, req[w].now)
    IN  /\ req[w].pc \in {"get", "reget"}
        /\ \/ /\ NoFault
              /\ \/ r.fp # req[w].fp /\ Return(w)
                 \/ r.fp = req[w].fp /\ expired /\ TakeOver(w, TRUE)
                 \/ r.fp = req[w].fp /\ ~expired /\ r.status # "failed_retryable" /\ Return(w)
                 \/ /\ r.fp = req[w].fp /\ ~expired /\ r.status = "failed_retryable"
                    /\ IF r.locked > req[w].now THEN Return(w) ELSE TakeOver(w, FALSE)
           \/ Fails /\ Return(w)
        /\ UNCHANGED <<table, lastId, clock, history>>

\* TryReclaim; a lost race is answered, or looked at again if the row had expired.
Reclaim(w) ==
    LET q == req[w]
        r == table[q.key]
        taken == r.id = q.id /\ Reclaimable(r, q.from, q.now)
        take == IF taken
                THEN /\ TryReclaim(q.id, q.now)
                     /\ promised' = [promised EXCEPT ![q.key] = IF q.expired THEN 0 ELSE @]
                ELSE UNCHANGED <<table, promised>>
    IN  /\ At(w, "reclaim")
        /\ \/ /\ NoFault /\ take
              /\ \/ /\ taken
                    /\ req' = [req EXCEPT ![w].pc = "execute", ![w].from = "none",
                                          ![w].expired = FALSE]
                 \/ ~taken /\ q.expired /\ Goto(w, "reget")
                 \/ ~taken /\ ~q.expired /\ Return(w)
           \/ Fails /\ Return(w) /\ (take \/ UNCHANGED <<table, promised>>)
        /\ UNCHANGED <<lastId, clock, overran>>

\* The business operation ends; a response that cannot be stored leaves the row.
ExecuteOperation(w) ==
    /\ At(w, "execute")
    /\ \/ Goto(w, "succeed") \/ Goto(w, "fail") \/ Return(w)
    /\ UNCHANGED <<table, lastId, clock, faults, history>>

\* MarkSucceeded, then the success is answered.
StoreSuccess(w) ==
    LET q == req[w]
        mark == MarkSucceeded(q.id, q.fp, q.now + TTL)
    IN  /\ At(w, "succeed")
        /\ \/ /\ NoFault /\ mark
              /\ promised' = [promised EXCEPT ![q.key] = q.now + TTL]
           \/ Fails /\ (mark \/ UNCHANGED table) /\ UNCHANGED promised
        /\ Return(w)
        /\ UNCHANGED <<lastId, clock, overran>>

\* MarkFailedRetryable, whose error is ignored; the backoff counts from now.
StoreFailure(w) ==
    LET q == req[w]
        mark == MarkFailedRetryable(q.id, clock + Backoff, q.now + TTL)
    IN  /\ At(w, "fail")
        /\ \/ NoFault /\ mark
           \/ Fails /\ (mark \/ UNCHANGED table)
        /\ Return(w)
        /\ UNCHANGED <<lastId, clock, history>>

----------------------------------------------------------------------------
Crash(w) ==
    /\ ~At(w, "idle")
    /\ Fails
    /\ Return(w)
    /\ UNCHANGED <<table, lastId, clock, history>>

Cleanup(k) == DeleteExpired(k) /\ UNCHANGED <<req, faults, history>>

Outlived(w, time) ==
    \/ req[w].pc \in {"create", "get", "reget", "reclaim"} /\ req[w].now + Lease <= time
    \/ ~At(w, "idle") /\ req[w].now + TTL <= time

Tick ==
    /\ clock < MaxClock
    /\ clock' = clock + 1
    /\ overran' = [k \in Keys |->
         overran[k] \/ \E w \in Workers : req[w].key = k /\ Outlived(w, clock + 1)]
    /\ UNCHANGED <<table, lastId, req, faults, promised>>

Step(w) ==
    \/ CreateProcessing(w) \/ GetExisting(w) \/ Reclaim(w)
    \/ ExecuteOperation(w) \/ StoreSuccess(w) \/ StoreFailure(w)

Next ==
    \/ \E w \in Workers : Step(w) \/ Crash(w)
    \/ \E w \in Workers, k \in Keys, fp \in Fingerprints : Begin(w, k, fp)
    \/ \E k \in Keys : Cleanup(k)
    \/ Tick

Spec == Init /\ [][Next]_vars

----------------------------------------------------------------------------
(* Properties *)

TypeOK ==
    /\ TableOK
    /\ req \in [Workers -> Requests]
    /\ faults \in 0..MaxFaults
    /\ promised \in [Keys -> Nat]
    /\ overran \in [Keys -> BOOLEAN]

Executing(w, k) == req[w].key = k /\ req[w].pc \in {"execute", "succeed", "fail"}

\* Two executions of one key never overlap, through any races of claims,
\* failures, retries and cleanups, as long as no request outlives its claim.
ExecutionsExclusive ==
    \A k \in Keys, v, w \in Workers :
      Executing(v, k) /\ Executing(w, k) /\ ~overran[k] => v = w

\* An acknowledged success is executed again before it expires by no request
\* that found the row absent or failed.
Claims(w) == ~At(w, "execute") /\ req'[w].pc = "execute"
PromiseKept ==
    [][\A w \in Workers : LET k == req[w].key IN
         Claims(w) /\ ~req[w].expired /\ ~overran[k] => promised[k] <= clock]_vars

\* A stored response answers the request whose fingerprint the row carries, even
\* after claims that outlived their rows wrote late.
StoredIsOwn == \A k \in Keys : table[k].body \in {NoFingerprint, table[k].fp}
=============================================================================
