---------------------------- MODULE BillingCache ----------------------------
(***************************************************************************)
(* BillingCacheService in balance mode, for one user: requests check the   *)
(* cached balance behind a circuit breaker, a miss loads it from the       *)
(* database in a single flight, and workers write the cache from a bounded *)
(* queue in any order while the balance itself goes on changing.           *)
(*   (service/billing_cache_service.go, repository/billing_cache.go,       *)
(*    service/gateway_service.go: finalizePostUsageBilling)                *)
(***************************************************************************)
EXTENDS Integers, Sequences, FiniteSets

CONSTANTS
    Requests,       \* requests of the user; each costs 1
    Workers,        \* cacheWriteWorkerCount goroutines
    None,           \* no cache entry; no task; no leader
    Balance,        \* the balance at the start
    QueueSize,      \* cacheWriteBufferSize
    Threshold,      \* failureThreshold
    HalfOpen,       \* halfOpenRequests
    MaxCredits,     \* bound: credits from elsewhere
    MaxFaults       \* bound: failed reads and writes, expired entries, crashes

\* A task of the write queue: a deduction, or a balance to set.
Deduct == [kind |-> "deduct"]
SetTo(b) == [kind |-> "set", balance |-> b]
Tasks == {Deduct} \cup [kind : {"set"}, balance : Int]

ASSUME CacheAssumption ==
    /\ IsFiniteSet(Requests) /\ IsFiniteSet(Workers)
    /\ Balance \in Int /\ None \notin Int /\ None \notin Requests /\ None \notin Tasks
    /\ QueueSize \in Nat \ {0} /\ Threshold \in Nat \ {0} /\ HalfOpen \in Nat \ {0}
    /\ MaxCredits \in Nat /\ MaxFaults \in Nat

VARIABLES
    db,         \* users.balance
    cache,      \* billing:balance:<user> in Redis
    pc,         \* place of each request
    value,      \* the balance each request was given
    leader,     \* the request whose function the single flight runs
    breaker,    \* the circuit breaker
    queue,      \* cacheWriteChan: a balance to set, or a deduction
    busy,       \* the task of each worker
    stop,       \* progress of Stop
    credits,    \* credits committed, and whose invalidation is to come
    tainted,    \* history: the entry was wrong when set, or a credit has passed it by
    missed,     \* history: charges since the entry was set that never come off it
    faults

vars == <<db, cache, pc, value, leader, breaker, queue, busy, stop, credits, tainted, missed,
          faults>>

Pcs == {"idle", "get", "load", "read", "checkset", "send", "report", "forward", "charge",
        "checkdeduct", "senddeduct", "fallback", "done", "refused", "unavailable", "panicked"}

NewBreaker == [state |-> "closed", failures |-> 0, remaining |-> 0, cooled |-> FALSE]

Init ==
    /\ db = Balance /\ cache = None
    /\ pc = [r \in Requests |-> "idle"] /\ value = [r \in Requests |-> None]
    /\ leader = None
    /\ breaker = NewBreaker
    /\ queue = <<>> /\ busy = [w \in Workers |-> None]
    /\ stop = "running"
    /\ credits = [made |-> 0, pending |-> 0]
    /\ tainted = FALSE /\ missed = 0 /\ faults = 0

At(r, p) == pc[r] = p
Goto(r, p) == pc' = [pc EXCEPT ![r] = p]
Fails == faults < MaxFaults /\ faults' = faults + 1

\* Deductions committed to the database whose write to the cache is still to come.
Owed == {"checkdeduct", "senddeduct", "fallback"}
Pending ==
    Cardinality({r \in Requests : pc[r] \in Owed})
      + Cardinality({i \in DOMAIN queue : queue[i] = Deduct})
      + Cardinality({w \in Workers : busy[w] = Deduct})
----------------------------------------------------------------------------
(* The circuit breaker *)

\* Allow: an open breaker lets probes through once the reset timeout is over.
Allowed(b) == b.state = "closed" \/ (b.state = "open" /\ b.cooled)
                \/ (b.state = "halfopen" /\ b.remaining > 0)
AfterAllow(b) ==
    CASE b.state = "closed" -> b
      [] b.state = "open" -> [b EXCEPT !.state = "halfopen", !.remaining = HalfOpen - 1]
      [] b.state = "halfopen" -> [b EXCEPT !.remaining = @ - 1]

Opened(b) == [b EXCEPT !.state = "open", !.cooled = FALSE, !.remaining = 0]
MutOnFailure(b) ==  \* mutant: only a closed breaker reacts
    IF b.state # "closed" THEN b ELSE IF b.failures + 1 >= Threshold
    THEN [Opened(b) EXCEPT !.failures = @ + 1] ELSE [b EXCEPT !.failures = @ + 1]
OnFailure(b) ==
    CASE b.state = "open" -> b
      [] b.state = "halfopen" -> Opened(b)
      [] b.state = "closed" -> IF b.failures + 1 >= Threshold
                               THEN [Opened(b) EXCEPT !.failures = @ + 1]
                               ELSE [b EXCEPT !.failures = @ + 1]
OnSuccess(b) == [b EXCEPT !.state = "closed", !.failures = 0, !.remaining = 0]

\* The reset timeout of an open breaker runs out.
ResetTimeout ==
    /\ breaker.state = "open" /\ ~breaker.cooled
    /\ breaker' = [breaker EXCEPT !.cooled = TRUE]
    /\ UNCHANGED <<db, cache, pc, value, leader, queue, busy, stop, credits, tainted, missed, faults>>
----------------------------------------------------------------------------
(* CheckBillingEligibility *)

Check(r) ==
    /\ At(r, "idle")
    /\ \/ ~Allowed(breaker) /\ Goto(r, "unavailable") /\ UNCHANGED breaker
       \/ Allowed(breaker) /\ Goto(r, "get") /\ breaker' = AfterAllow(breaker)
    /\ UNCHANGED <<db, cache, value, leader, queue, busy, stop, credits, tainted, missed, faults>>

\* cache.GetUserBalance; an error counts as a miss.
GetUserBalance(r) ==
    /\ At(r, "get")
    /\ \/ /\ cache # None
          /\ value' = [value EXCEPT ![r] = cache] /\ Goto(r, "report")
          /\ UNCHANGED faults
       \/ /\ \/ cache = None /\ UNCHANGED faults
             \/ Fails
          /\ Goto(r, "load") /\ UNCHANGED value
    /\ UNCHANGED <<db, cache, leader, breaker, queue, busy, stop, credits, tainted, missed>>

\* balanceLoadSF.Do: the first one runs the function, the others wait in "load".
Lead(r) ==
    /\ At(r, "load") /\ leader = None
    /\ leader' = r /\ Goto(r, "read")
    /\ UNCHANGED <<db, cache, value, breaker, queue, busy, stop, credits, tainted, missed, faults>>

\* The flight ends with x: leader and waiters go on to p. The waiters joined while
\* it flew, since one that finds no flight leads its own.
Land(r, x, p) ==
    /\ leader' = None
    /\ \E joined \in SUBSET {q \in Requests : At(q, "load")} :
         LET all == joined \cup {r}
         IN  /\ pc' = [q \in Requests |-> IF q \in all THEN p ELSE pc[q]]
             /\ value' = [q \in Requests |-> IF q \in all THEN x ELSE value[q]]

\* getUserBalanceFromDB.
ReadBalance(r) ==
    /\ At(r, "read")
    /\ \/ /\ value' = [value EXCEPT ![r] = db] /\ Goto(r, "checkset")
          /\ UNCHANGED <<leader, faults>>
       \/ Fails /\ Land(r, None, "report")
    /\ UNCHANGED <<db, cache, breaker, queue, busy, stop, credits, tainted, missed>>

\* enqueueCacheWrite, up to its look at stopped, which is before it takes the lock.
CheckStopped(r) ==
    /\ \/ /\ At(r, "checkset")
          /\ \/ stop = "running" /\ Goto(r, "send") /\ UNCHANGED <<leader, value>>
             \/ stop # "running" /\ Land(r, value[r], "report")
       \/ /\ At(r, "checkdeduct")
          /\ Goto(r, IF stop = "running" THEN "senddeduct" ELSE "fallback")
          /\ UNCHANGED <<leader, value>>
    /\ UNCHANGED <<db, cache, breaker, queue, busy, stop, credits, tainted, missed, faults>>

\* enqueueCacheWrite under the lock: the channel is open, closed, or gone.
Open == stop \in {"running", "stopped"}
Closed == stop = "closed"
MutFull == Len(queue) > QueueSize  \* mutant: one task too many
Full == Len(queue) >= QueueSize

\* A balance that finds no room is dropped; sending on the closed channel panics,
\* in the flight for its leader and its waiters alike.
SendSet(r) ==
    /\ At(r, "send")
    /\ \/ Closed /\ Land(r, None, "panicked") /\ UNCHANGED queue
       \/ Open /\ ~Full /\ queue' = Append(queue, SetTo(value[r])) /\ Land(r, value[r], "report")
       \/ ((Open /\ Full) \/ stop = "gone") /\ Land(r, value[r], "report") /\ UNCHANGED queue
    /\ UNCHANGED <<db, cache, breaker, busy, stop, credits, tainted, missed, faults>>

\* checkBalanceEligibility: the verdict, and what the breaker learns.
Report(r) ==
    /\ At(r, "report")
    /\ \/ /\ value[r] = None
          /\ breaker' = OnFailure(breaker) /\ Goto(r, "unavailable")
       \/ /\ value[r] # None
          /\ breaker' = OnSuccess(breaker)
          /\ Goto(r, IF value[r] > 0 THEN "forward" ELSE "refused")
    /\ UNCHANGED <<db, cache, value, leader, queue, busy, stop, credits, tainted, missed, faults>>
----------------------------------------------------------------------------
(* What changes the balance *)

\* A charge that will never come off the entry: one the balance has lost and it has not.
Miss == missed' = missed + 1

\* applyUsageBilling: the usage of an admitted request is billed (UsageBilling) and
\* finalized; an error of Apply returns before the finalization, committed or not.
Charge(r) ==
    /\ At(r, "forward")
    /\ \/ db' = db - 1 /\ Goto(r, "checkdeduct") /\ UNCHANGED <<missed, faults>>
       \/ Fails /\ db' = db - 1 /\ Miss /\ Goto(r, "done")
       \/ Fails /\ UNCHANGED <<db, missed>> /\ Goto(r, "done")
    /\ UNCHANGED <<cache, value, leader, breaker, queue, busy, stop, credits, tainted>>

MutUnqueued == "done"   \* mutant: a deduction that finds no room is dropped like a balance
Unqueued == "fallback"

\* QueueDeductBalance: no room means a synchronous deduction.
SendDeduct(r) ==
    /\ At(r, "senddeduct")
    /\ \/ Closed /\ Goto(r, "panicked") /\ Miss /\ UNCHANGED queue
       \/ Open /\ ~Full /\ queue' = Append(queue, Deduct) /\ Goto(r, "done") /\ UNCHANGED missed
       \/ ((Open /\ Full) \/ stop = "gone") /\ Goto(r, Unqueued) /\ UNCHANGED <<queue, missed>>
    /\ UNCHANGED <<db, cache, value, leader, breaker, busy, stop, credits, tainted, faults>>

\* deductBalanceScript, run by a worker or by the request itself: nothing when
\* there is no entry.
DeductUserBalance ==
    \/ /\ cache' = IF cache = None THEN None ELSE cache - 1
       /\ UNCHANGED <<missed, faults>>
    \/ Fails /\ Miss /\ UNCHANGED cache

DeductBalanceCache(r) ==
    /\ At(r, "fallback") /\ Goto(r, "done")
    /\ DeductUserBalance
    /\ UNCHANGED <<db, value, leader, breaker, queue, busy, stop, credits, tainted>>

\* A redeem code, a payment or an administrator adds to the balance.
Credit ==
    /\ credits.made < MaxCredits
    /\ db' = db + 1
    /\ credits' = [made |-> credits.made + 1, pending |-> credits.pending + 1]
    /\ tainted' = TRUE
    /\ UNCHANGED <<cache, pc, value, leader, breaker, queue, busy, stop, missed, faults>>

\* InvalidateUserBalance, in a goroutine of its own after the credit.
InvalidateUserBalance ==
    /\ credits.pending > 0 /\ credits' = [credits EXCEPT !.pending = @ - 1]
    /\ \/ cache' = None /\ UNCHANGED faults
       \/ Fails /\ UNCHANGED cache
    /\ UNCHANGED <<db, pc, value, leader, breaker, queue, busy, stop, tainted, missed>>

\* The TTL of the entry runs out.
Expire ==
    /\ cache # None /\ Fails /\ cache' = None
    /\ UNCHANGED <<db, pc, value, leader, breaker, queue, busy, stop, credits, tainted, missed>>
----------------------------------------------------------------------------
(* The workers, and Stop *)

Take(w) ==
    /\ busy[w] = None /\ queue # <<>>
    /\ busy' = [busy EXCEPT ![w] = Head(queue)] /\ queue' = Tail(queue)
    /\ UNCHANGED <<db, cache, pc, value, leader, breaker, stop, credits, tainted, missed, faults>>

\* One task of cacheWriteWorker. A balance is right when it still is the balance,
\* less nothing that a later deduction will take from it again.
Write(w) ==
    /\ busy[w] # None /\ busy' = [busy EXCEPT ![w] = None]
    /\ \/ busy[w] = Deduct /\ DeductUserBalance /\ UNCHANGED tainted
       \/ /\ busy[w] # Deduct
          /\ \/ /\ cache' = busy[w].balance /\ missed' = 0
                /\ tainted' = (busy[w].balance # db + Pending) /\ UNCHANGED faults
             \/ Fails /\ UNCHANGED <<cache, tainted, missed>>
    /\ UNCHANGED <<db, pc, value, leader, breaker, queue, stop, credits>>

\* Stop marks itself, closes the channel, waits for the workers and forgets it.
MutDrained == TRUE  \* mutant: the workers are not waited for
Drained == queue = <<>> /\ \A w \in Workers : busy[w] = None

Stop ==
    /\ \/ stop = "running" /\ stop' = "stopped"
       \/ stop = "stopped" /\ stop' = "closed"
       \/ stop = "closed" /\ Drained /\ stop' = "gone"
    /\ UNCHANGED <<db, cache, pc, value, leader, breaker, queue, busy, credits, tainted, missed, faults>>

\* The process dies and another starts: the requests under way, the queue, the tasks
\* of the workers and the invalidations to come are lost; the entry stays in Redis.
Crash ==
    /\ Fails
    /\ pc' = [r \in Requests |-> IF At(r, "idle") THEN "idle" ELSE "done"]
    /\ leader' = None /\ breaker' = NewBreaker
    /\ queue' = <<>> /\ busy' = [w \in Workers |-> None] /\ stop' = "running"
    /\ credits' = [credits EXCEPT !.pending = 0]
    /\ missed' = missed + Pending
    /\ UNCHANGED <<db, cache, value, tainted>>
----------------------------------------------------------------------------
RequestStep(r) ==
    \/ GetUserBalance(r) \/ Lead(r) \/ ReadBalance(r) \/ CheckStopped(r) \/ SendSet(r)
    \/ Report(r) \/ Charge(r) \/ SendDeduct(r) \/ DeductBalanceCache(r)

Next ==
    \/ \E r \in Requests : Check(r) \/ RequestStep(r)
    \/ \E w \in Workers : Take(w) \/ Write(w)
    \/ ResetTimeout \/ Credit \/ InvalidateUserBalance \/ Expire \/ Stop \/ Crash

Spec == Init /\ [][Next]_vars
----------------------------------------------------------------------------
(* Properties *)

Breakers == [state : {"closed", "open", "halfopen"}, failures : 0 .. Threshold,
             remaining : 0 .. HalfOpen, cooled : BOOLEAN]

\* A single flight runs for its leader only, and what it sets is a balance.
FlightOK ==
    /\ pc \in [Requests -> Pcs] /\ value \in [Requests -> Int \cup {None}]
    /\ \A r \in Requests : pc[r] \in {"checkset", "send"} => value[r] \in Int
    /\ leader \in Requests \cup {None}
    /\ \A r \in Requests : pc[r] \in {"read", "checkset", "send"} <=> leader = r

\* A closed breaker has counted fewer failures than open it.
BreakerOK == breaker \in Breakers /\ (breaker.state = "closed" => breaker.failures < Threshold)

\* The queue keeps to its size.
WritesOK ==
    /\ queue \in Seq(Tasks) /\ Len(queue) <= QueueSize
    /\ busy \in [Workers -> Tasks \cup {None}]

DataOK ==
    /\ db \in Int /\ cache \in Int \cup {None}
    /\ stop \in {"running", "stopped", "closed", "gone"}
    /\ credits \in [made : 0 .. MaxCredits, pending : 0 .. MaxCredits]
    /\ credits.pending <= credits.made
    /\ tainted \in BOOLEAN /\ missed \in Nat /\ faults \in 0 .. MaxFaults

\* Every variable has its type.
TypeOK == FlightOK /\ BreakerOK /\ WritesOK /\ DataOK

\* An entry that was right when it was written stays right through every deduction,
\* whatever order the workers run in, however full the queue and however far Stop: it
\* is the balance, plus what the deductions under way will take from it, plus exactly
\* the charges that missed it: their Apply reported an error after its commit, their
\* write to Redis failed, or the process ended before it.
RightEntryStaysRight == cache # None /\ ~tainted => cache = db + Pending + missed

\* A half-open breaker always has a probe on its way that will close or open it; it
\* never waits for the report of nobody. (A process that stops is left out: the panic
\* of its closed queue takes the report with it.)
HalfOpenHasProbe ==
    breaker.state = "halfopen" /\ stop = "running" =>
        \E r \in Requests : pc[r] \in {"get", "load", "read", "checkset", "send", "report"}

\* Stop returns with no write left in the queue or with a worker: what was queued
\* before it was applied, and nothing is queued after it.
StopDrains == stop = "gone" => queue = <<>> /\ \A w \in Workers : busy[w] = None
=============================================================================
