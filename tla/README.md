# A formal model of Sub2API

Sub2API is a gateway that sells access to AI services: a Go server
(`src/backend`, any number of instances over one PostgreSQL and one Redis) and a
Vue frontend. This directory holds TLA+ models of the parts whose correctness
depends on the order of steps: what several requests, background jobs and
instances do to shared rows and keys, and what is left when a call fails or a
process dies. TLC checks the models on small instances; TLAPS proves, for every
value of their constants, the invariants of the runs that pass, two action
properties and a refinement (section 4).

Paths below are relative to `src/backend/internal` unless they start with `src/`.

## 1. The system

| Component | State | Operations | Hard behaviour | What makes it correct |
|---|---|---|---|---|
| **Payment orders and fulfilment** `service/payment_order*.go`, `payment_fulfillment.go`, `handler/payment_webhook_handler.go` | `payment_orders`, `payment_audit_logs`, the provider's side | create, webhook, cancel, expire, verify, fulfil, retry | repeated webhooks, jobs on several instances, payment during a cancellation, failed and half-reported writes, crashes | paid orders stay paid, one fulfilment at a time, one credit, every captured payment granted |
| **Redeem codes** `service/redeem_service.go`, `repository/redeem_*.go` | `redeem_codes`, Redis lock per code | create, redeem, delete, expire | lock that expires or is unreachable, a user and a fulfilment redeeming one code | one use per code |
| **Refunds** `service/payment_refund.go` | order status, balance or subscription, audit log | request, plan, lock, deduct, provider refund, rollback, restore | two administrators, failures after each step, failed rollback and its retry | never twice, failed refunds restore the user |
| **Idempotent requests** `service/idempotency.go`, `repository/idempotency_repo.go`, cleanup service | `idempotency_records` | claim, reclaim, execute, store, delete | races on one key, lost answers, expiry under a running request | one execution at a time, stored successes are replayed |
| **System operation lock** `service/system_operation_lock_service.go`, `handler/admin/system_handler.go` | one row of the same table, a renewal goroutine | acquire, renew, release | renewal failures, stale rows, crashes | one update, rollback or restart at a time |
| **Concurrency slots, wait queues** `service/concurrency_service.go`, `repository/concurrency_cache.go`, `handler/gateway_helper.go` | Redis sets with TTL, counters | acquire, release, wait, clean up | cancelled requests, restarts, Redis errors | at most N requests per user and account |
| **Usage billing** `repository/usage_billing_repo.go`, `service/gateway_service.go` | dedup table and archive, rows of users, subscriptions, keys and accounts | apply a command, archive, reset a window, edit a row | retried and concurrent commands, row locks, lost commits | charged once and wholly, a quota is crossed once, nobody waits in a circle |
| **Billing cache** `service/billing_cache_service.go` | Redis copies, write queue, circuit breaker | check, load, deduct, invalidate, stop | queue full, reordered writes, a breaker half-open, Stop | a right entry stays right, the breaker recovers, nothing is left unwritten |
| **Scheduler snapshot** `service/scheduler_snapshot_service.go`, `repository/scheduler_*` | outbox, watermark, versioned snapshots, bucket lock | change, poll, rebuild, read | dropped, late and suppressed events, several writers | readers see a whole snapshot, and converge to the database |
| **OAuth refresh** `service/oauth_refresh_api.go`, `token_refresh_service.go` | tokens, local mutex, Redis lock | refresh, recover, retry, mark | lock TTL, single-use tokens, stale copies | an account is not marked dead for a race |
| **User message queue** `service/user_msg_queue_service.go` | Redis lock per account | acquire, release, clean up | lost TTL, owner checks | messages of an account are serial |

Further components (subscriptions, promo codes, the forwarding and translation
of requests, websocket pool, rate limits, authentication, monitoring, backups,
generated ORM code, the frontend) are listed in `PROJECT.json` with the reason
each is left out.

How they interact: a webhook or a job confirms a payment and fulfils its order;
a balance order is fulfilled by creating and redeeming a redeem code, which
credits the user; a subscription order extends a subscription. A refund takes
the order over through the status column and undoes the credit. Administrative
writes and system operations run inside the idempotency coordinator; system
operations also take the lock in the same table. A request of the gateway checks
the balance in the billing cache, takes slots, chooses an account from the
scheduler's snapshot, has its token refreshed, and is billed at the end; the
billing deducts from the cache and tells the scheduler of an exhausted account
through the outbox. All these meet only in the
database and in Redis, so each model is a set of workers that take one call to
them at a time.

## 2. Modules

| Module | Models | State and actions |
|---|---|---|
| `PaymentOrder` | life of an order up to COMPLETED, and the redeem code of a balance order | `order` (row), `upstream` (provider), `acked` (whether the provider has its success answer), `code`, `locked` (Redis), `audited`, `granted` (committed benefits), the history `erased` (used codes deleted by an operator), `job` (the place of each request or job in its handler). One action per database, Redis or provider call: `InsertOrder`, `InvokeProvider`, `QueryUpstream`, `ToPaid`, `Claim`, `RedeemTx`, `MarkCompleted`, ... |
| `PaymentRefund` | `EXTENDS PaymentOrder`: refunds composed with the life of the order | `refund` (the plan each administrator holds), `deducted`, `returned`, `revoked`, `rbFailed` (audit row), `spent`. `RequestRefund` joins the user's balance check and the conditional update, two calls of the code: the check only refuses, and no property speaks of what the balance was |
| `IdempotencyRecords` | the table `idempotency_records` and each statement of its repository | `table`, `lastId`, `clock` |
| `Idempotency` | `IdempotencyCoordinator.Execute` over the table | `req` (place of each request), and the history `promised`, `overran` |
| `SystemOperationLock` | the lock service over the same table, with its renewal loop | `op`, and the history `overran` |
| `ConcurrencySlots` | one user and one account, and the requests of several instances from the queue to the release of their slots | `slots`, `orphans` (members nobody will release), `waits` (counters), `req` (place in the handler, flags and release functions it holds), `boot`, and the history `evicted`, `reset`. Actions: `Count`, `Acquire`, `Uncount`, `SelectAccount`, `Hydrate`, `Forward`, `ReleaseAccount`, `Finish`, the callback `AfterDone`, `Expire`, `Restart`, `Clean` |
| `UsageLedger` | abstract: what billing promises | `charged`, `totals`, `crossed`, `answer`. A task is `Charged`, all its totals in one step, or `Refused` with the truth about who was charged before |
| `UsageBilling` | `usageBillingRepository.Apply` and what runs beside it | `dedup`, `archive`, `rows` (committed), `tx` and `wrote` (the place of each transaction, and the rows it has updated and so holds locked), `outbox`, `answer`. One action per statement: `Claim`, `Compare`, `LookupArchive`, `Effect` (the effects that are left, in the order `Rank` of the code), `Commit`; beside them `CleanupUsageBillingDedup`, `ResetRateLimitWindows`, `Delete`, `Tick` |
| `RowEdits` | `EXTENDS UsageBilling`: the handlers that edit a user or a key, composed with the billing | `loaded` (the row an edit has read); `Load`, `Update` |
| `BillingCache` | `BillingCacheService` for the balance of one user | `db`, `cache`, `pc` and `value` of each request, `leader` (single flight), `breaker`, `queue`, `busy` (workers), `stop`, and the histories `tainted` and `missed`. Requests go from `Check` over `GetUserBalance`, `Lead`, `ReadBalance`, `SendSet`, `Report` to `Charge` and `SendDeduct`; workers `Take` and `Write`; `Crash` ends the process and starts another |
| `SchedulerSnapshot` | one bucket: editors of accounts, outbox pollers, full rebuilders, readers | `db`, `outbox`, `watermark`, `locked`, `active`, `snap`, `cached`, `edit` and `job` (place of each call and worker), and the history `wrote` (what the writer of a number loaded). One action per call to Redis or the database |
| `TokenRefresh` | the refresh of one account's token on several instances | `current` (the token the provider accepts), `account` (row), `lock` (Redis), `mutex` (of each process), `job`, and the history `excuse` |
| `*Proofs` | theorems about the model of the same name; `PaymentProofs` about both payment models | inductive invariants (section 4) |
| `MC*` | symmetry sets and the values of the constants of the runs | - |

How a handler becomes actions. A handler is a sequence of calls to PostgreSQL,
Redis or the provider; the Go code between two calls is local and belongs to the
action of the call before or after it. Everything read by a call is kept in the
worker's record until it is used, so stale reads are in the model. A
transaction is one action, except in `UsageBilling`, where each statement is one.
Where the code ignores an error, so does the action.

How failures enter. `PaymentOrder` has one action alternative for each way a
call ends: applied and reported, not applied, applied but reported as failed.
`FaultKinds` chooses which kinds may happen and `MaxFaults` how many. The
idempotency modules do the same with `MaxFaults`. `Crash` forgets a worker and
leaves the shared state as it is. In `ConcurrencySlots` a failed call, applied or
not, counts in `faults`, and so does each request that dies in a `Restart`; a
client that goes away counts in `cancels`, and a call on the context of its
request fails before it is sent. Calls that the code makes on a context of their
own (`Stopped`) are not affected.

Time. Redis TTLs in the payment modules expire at any moment. The idempotency
modules have a clock, because their statements compare times: a request takes
its time once, when it starts, and writes that time later. In `ConcurrencySlots`
the TTL of a slot may end at any moment, also under a running request; a wait
counter outlasts the longest wait (its TTL is the larger of the sticky and the
fallback wait timeout), so it expires only when nobody it counts still waits.
`UsageBilling` has a clock for the windows: a transaction keeps the `NOW()` of its
beginning, and a reset that of its sending. In `BillingCache`,
`SchedulerSnapshot` and `TokenRefresh` timeouts and TTLs run out at any moment.

The abstract ledger. `UsageBilling!ImplementsLedger` is `UsageLedger` under a
refinement mapping: totals are the committed totals of the rows, a row was
crossed by the tasks that report it (an API key in the result of `Apply`, an
account by an outbox event of the same transaction). The claim of a key by the
unique index, its archive, row locks, rollbacks and lost commits are what the
ledger does not know; the refinement says they add up to "once, wholly, and
reported once".

Snapshot numbers. `INCR` counts for ever. `SchedulerSnapshot` keeps the numbers
that are still named by the pointer or by a worker, in their order, counted from
one (`Renumbered`); a set that no name reaches is left out. Such sets exist: a
writer removes only the set that was active when it began, so of two writers that
overlap one set stays in Redis without an expiry.

## 3. Runs

| Run | Instance | Shows |
|---|---|---|
| `payment_faults` | 1 order, 2 workers, 2 failures of any kind, deleted codes included | safety of fulfilment, the inductive invariant `Consistent`, and `CapturedIsGranted` (liveness) |
| `payment_extension` | 1 order, 2 workers, 1 write that is not applied | violated: section 5 |
| `payment_refund` | 1 order of 2 units, 1 worker, 2 administrators, 3 failures or deleted codes | exclusion and accounting of refunds |
| `idempotency` | 1 key, 2 payloads, 2 requests at a time, clock to 5, 2 failures | exclusive executions, no mixed responses, no repeated success |
| `system_lock` | 2 requests at a time, lease 3, renewal 1, TTL 5, clock to 7, 1 failure | a fresh lock is exclusive, and is held no longer than a lease after a failure |
| `slots` | 3 instances with 1 request each, limit 1, queue limit 1, 1 failure or death, 1 cancellation | the limit holds, slots and places in the queue do not leak, the queue is bounded |
| `usage_billing` | 4 tasks, 3 with one request id (one with another payload), 1 failure, 1 tick | the ledger is implemented; keys are marked exhausted exactly at their quota; windows count every charge; no deadlock |
| `billing_cache` | 3 requests, 2 workers, queue of 1, breaker threshold 1 with 1 probe, 1 credit, 2 failures or crashes | right entries stay right but for the charges that missed them, the breaker recovers, Stop drains |
| `scheduler` | 1 account; an editor, a poller that also serves requests, a rebuilder; 1 change, 1 failure | a snapshot that is active is whole, and what readers see converges (liveness) |
| `scheduler_events` | 2 editors, 1 worker that polls and rebuilds, 2 changes, 1 failure | convergence when events are late, suppressed, dropped or lost |
| `token_refresh` | 2 instances, each with its loop and a request, 2 attempts, 2 faults | an account is marked dead only for a reason the code cannot help |
| `usage_billing_edits` | the instance of `usage_billing` with edits | violated: section 5 |

Why these bounds are enough. Orders share nothing but the limit on pending
orders, which refuses and has no other effect, so one order is representative.
Workers are reused: two of them run any number of requests one after the other
and any pair together; the code's protection is always between a pair (a
conditional update, a lock). Two failures allow a failure and the failure of
its recovery; the refund run allows three: the refund, its rollback and the
retry. The clocks are long enough for a row to be claimed, expire, be claimed
again and expire again (idempotency), and for a lease to lapse after a failed
renewal and be taken over (lock). For the slots, three requests are one that
holds, one that waits and one that is refused or dies; with a limit of 1 every
lost or doubled slot shows. A request is handled by one goroutine plus the
callback of its context, so requests of one instance meet only in Redis, as those
of several instances do, except that they die together.

For the billing, three tasks of one id are a success, its duplicate and a
conflict, in any order, and a fourth shares all rows but one with them; quotas of
1 and 2 are crossed by the first and the second charge. The queue of one is full
as soon as it holds a task, and two workers suffice to reorder two tasks. In the
scheduler one account makes every snapshot either whole or empty, which is what a
half-written one would show as; the two runs divide what a single one could not
hold: writers that overlap, and events that overlap. A refresh is a race of pairs, and
the two attempts of the loop bring a worker back with the copy it had.

Deadlock checking is off because the system may stop: every worker idle and
every order settled, or the clock at its bound.

Assumptions the runs make, beyond the code:

- a customer can pay only on a page that a successful creation returned;
- `Left` in `CapturedIsGranted` names where a captured payment may wait for ever:
  after a failure or a crash in PAID, RECHARGING or FAILED, where only an
  administrator goes on, or a webhook after the payment was recorded (FAILED), or
  nobody (RECHARGING, which the retry refuses); in EXPIRED when the notification
  came after the grace period; in CANCELLED or EXPIRED when the provider has a
  success answer to a notification whose order could not be read
  (`acked` is `"blind"`: `confirmPayment`, `alreadyProcessed`);
- `CreditedOnce` allows a balance order one more credit for each of its used codes
  that an operator has deleted (the history `erased`): `DeleteRedeemCode` does not
  look at the status, and a retry creates and credits a fresh code;
- `DeductedOnce` excepts the orders of which a failed rollback could not be recorded,
  or whose record could not be read when the refund was retried: `hasAuditLog`
  drops the error of its query, and the refund is deducted again (section 5);
- `payment_refund` leaves out a provider refund whose answer is lost. The
  refund is rolled back and may be sent again under a new number, which the
  code does not claim to prevent;
- `overran` in the idempotency modules excuses requests that take longer than
  the code's own limits (an execution past the TTL, a claim past the lease, a
  renewal later than its interval); what happens then is checked only by
  `StoredIsOwn` and `ReleasedOrLeased`;
- `evicted` and `reset` in `ConcurrencySlots` excuse a user or account one of
  whose live slots, or a counter in use, was removed by the TTL or by the cleanup
  of a starting instance. The cleanup removes everything that has not its own
  prefix, so with several instances a restart lifts the limits for a while;
- a client that goes while its account is read costs a slot (section 5), which
  `SlotsNotLost` allows;
- `UsageBilling` has one window per key, like that of five hours (those of a day
  and a week start at midnight), and one total per account (not its daily and
  weekly ones). The outbox may let an equal event of the last second stand for
  the one a charge asks for; the model counts who asked;
- `tainted` in `BillingCache` marks an entry that was not the balance when it was
  set: a balance read before a charge and set after its deduction, or credited after
  it was read. Such an entry stays wrong until its TTL or an invalidation, and the
  code does nothing about it. `missed` counts, since the entry was set, the charges
  that will never come off it: `Apply` reported an error although it had committed
  (`gateway_service.go` 7645 returns before the deduction is queued), the process
  died before the deduction was written, Redis failed, or the queue was closed. The
  property says that the entry is too high by exactly these;
- `excuse` in `TokenRefresh` records why a token may be dead: the provider's
  answer was lost before it was stored, two instances refreshed at once because
  Redis failed or the lock did not outlast its refresh (the lock lives 60 s, a
  provider's client may take 120 s), or the account could be read neither before
  nor after;
- the scheduler's full rebuild is enabled (its interval is 300 s unless
  configured to 0, which disables it; without it nothing repairs a lost event). An account
  outside the bucket is never copied again by a rebuild, so only what
  `ListSchedulableAccounts` returns converges, not `GetAccount`;
- a request that misses the snapshot loads it from the database: `guardFallback`
  (`scheduler_snapshot_service.go` 696) lets it, as by default. With
  `db_fallback_enabled` off or `db_fallback_max_qps` set it may answer an error
  instead, which changes nothing in Redis;
- `promised` in `Idempotency` is the time until which a stored success must be
  replayed; a request that takes an expired row over resets it.

Fairness (`FairSpec`). `WF` of every step of a worker: a goroutine in flight is
scheduled and its calls have timeouts. `SF` of a webhook that has no success answer,
as long as the payment is not recorded: providers send again until they get one. `SF`
of the expiry check: a timer runs it at a fixed interval over all pending orders.
Nothing is assumed about customers, who may never pay, about administrators, who may
never retry, and about later webhooks. So without a failure, and within the grace
period, `CapturedIsGranted` is what `src/docs/PAYMENT.md` says: top-ups are "processed
automatically upon successful payment" (200), and a delayed callback is reconciled
(246). After a failure the order is granted or stays where an administrator can find
it ("Balance credit failed, admin can retry", 238).

In `SchedulerSnapshot`: `WF` of the calls of editors (they end), of each poller and
rebuilder (tickers, with timeouts on every call), and of the expiry of the lock,
which has a TTL of 30 s and is never released. Requests may stop anywhere, and
faults are bounded.

## 4. Proofs

Every theorem holds for all values of the constants that the named `ASSUME`s of
its model allow; TLC evaluates these on every run. "Further" is what a theorem
assumes beyond them, as an `ASSUME` of its own statement.

| Module | Theorem | States |
|---|---|---|
| `PaymentProofs` | `TypeCorrect`, `AlwaysConsistent` | `Spec => []TypeOK`, `Spec => []Consistent` |
| | `Exclusion` | two workers never fulfil one order together |
| | `PaidStays` | action property: a paid order stays on the paid side, a completed one stays completed |
| | `Completion` | COMPLETED only after the benefit was committed |
| | `Capture` | a benefit only for a captured payment |
| | `SingleCredit` | a balance order is credited at most once, and once more for each used code deleted (`CreditedOnce`) |
| | `RefundTypeCorrect` | `RefundSpec => []RefundTypeOK` |
| | `OrdersStayConsistent` | the invariant of the fulfilment survives the refunds |
| | `RefundsExclude` | past its lock a refund is alone on its order |
| | `ChargedOnce`, `FailureRestores`, `ReturnsFinal` | `DeductedOnce`, `FailedRefundRestores`, `ReturnedIsFinal`. Further: no write is applied and reported as failed |
| `IdempotencyProofs` | `TypeCorrect` | `Spec => []TypeOK` |
| | `Exclusive` | one execution of a key at a time, until one overruns its claim |
| | `PromisesKept` | action property: a stored success is not repeated before it expires by a request that found the row absent or failed |
| | `ResponsesOwn` | a stored response is one for the payload the row carries, whatever overran |
| `SystemOperationLockProofs` | `TypeCorrect` | `Spec => []TypeOK` |
| | `LockReleased` | with no operation left, only a failure leaves the row processing, for no longer than the lease |
| | `FreshExclusive` | the operation that inserted the row is alone, until one overran. Further: `(MaxFaults + 2) * RenewInterval <= Lease` |
| `ConcurrencySlotsProofs` | `TypeCorrect` | `Spec => []TypeOK` |
| | `SlotsBounded` | no more requests than the limit hold slots, unless a live slot was removed |
| | `SlotsKept` | a slot without a request is charged to a failure or a cancellation |
| | `CountersKept` | a counter exceeds those it counts by no more than the failures |
| | `QueueBounded` | no more requests than the limit wait, but for failures and cancellations, unless the counter was reset |
| `UsageBillingProofs` | `TypeCorrect` | `Spec => []TypeOK` |
| | `Refinement` | `Spec => ImplementsLedger`: transactions implement the ledger |
| | `KeysExhausted` | a key is marked exhausted exactly when its use has reached its quota |
| | `WindowCounts` | the window of a key counts every committed charge made since it opened |
| | `DeadlockFree` | in every group of transactions one waits for none of the others |
| `BillingCacheProofs` | `TypeCorrect` | `Spec => []TypeOK` |
| | `EntryStaysRight` | a right entry differs from the balance by exactly what is on its way and what an error or a crash took away |
| | `HalfOpenIsProbed` | a half-open breaker has a probe in flight |
| | `StopDrainsWrites` | after Stop nothing is left in the queue or with a worker |
| `TokenRefreshProofs` | `TypeCorrect`, `AlwaysInv` | `Spec => []TypeOK`, `Spec => []Inv` |
| | `MarkedOnlyDead` | an account is marked dead only with an excuse |
| `SchedulerSnapshotProofs` | `TypeCorrect` | `Spec => []TypeOK` |
| | `SnapshotWhole` | the active set is what one load returned, a set that is read is that or gone |

None of the safety properties is inductive alone. The invariants that carry them
were checked by TLC on the instances of the runs before they were proved; a
proof has one lemma or step for each action and first says, once, what the kinds
of steps leave alone.

**Payment orders.** `Exclusion` needs to know that whoever fulfils an order left
it RECHARGING and that nobody else can move it away: so `JobConsistent` records
what each place of a handler implies about the row, `RowConsistent` what the
columns say about each other (a CANCELLED or EXPIRED order was never paid, a code
exists only for a paid order, COMPLETED means granted), and `GrantConsistent` how
the number of grants is accounted for by the code or by failures. A failed
creation writes FAILED without looking at the status, which is harmless only
because no page exists before the creation succeeds, and because one worker
creates an order: that is the third conjunct of `Consistent`.

**Refunds.** `Consistent` speaks of an order that is `Settled` or in the hands of a
refund as well, so it survives `RefundNext`, and `RefundExclusive` follows from the
conditional update to REFUNDING. The money is in `Balanced`: for each order
`Account` relates what was deducted and returned to its status and to the audit rows
of failed rollbacks, and `Books` says what each administrator knows of that at each
of its places, between its look at the audit log and its deduction included. The
assumption is needed: a deduction or a payment that is applied and reported as
failed is done again (section 3), and the run `payment_refund` makes the same one.

**Idempotent requests.** `Inv` adds to the types: ids are those of rows that were
given out and a request that knows one knows its payload (`RowIds`, `ReqIds`);
claims that have not overrun are in time (`Timely`); an executed row carries the
times of its claim (`Owned`); who read the row before the claim began before the
lease of the claim ends, so that it cannot take it over (`Behind`); a promise is
the expiry of a stored success (`Promised`).

**System lock.** `Known` bounds ids, leases and times, `Punctual` says that a
renewal is due and not late, and `Held` that the row of the operation has a lease
that outlasts its next renewal even if every failure still possible (`Slack`)
hits it. That is where the assumption comes from: with a lease of fewer intervals
a sequence of failed renewals lets it lapse, and the property is false. The code
renews at a third of the lease (`system_operation_lock_service.go` 51), for which
the theorem allows one failed renewal, the case of the run.

**Slots.** `Shape` says that members and orphans fit the limit and in which places
a request holds what (`Sane`). Then `Owned` and `Kept`, that members are holders
and holders members; `Orphaned`, that a slot left behind is charged to a failure
or to a client that went (a client that goes spoils one call: `Coming`); and the
same for the queue, `OpenCharged` and `QueueCharged`. These are inequalities
between cardinalities; the sets of processes and lanes are assumed finite.

**Usage billing.** `Inv` has nine parts: one transaction at a time holds an
uncommitted claim of a key (`KeysHeld`), the table and its archive hold the charged
commands (`ChargesKnown`), a row is written by one transaction at a time, in order
(`RowsHeld`), what a transaction has written is the committed row with its own
charges (`Totals`), keys are marked (`KeysMarked`), events belong to charged
commands (`Events`), and the three parts about windows below. The refinement goes
step by step: `Commit`, reported or not, is `Charged` in the ledger, a rollback is
`Refused` with the answer it gives, and every other step leaves the ledger as it is.
`DeadlockFree` picks, of a group of transactions, one that has come furthest in the
order of the tables. It needs the assumption that the effects of a task on different
tables never name one row, which the tables guarantee, and that key and window are
the same row.

`WindowCountsCharges` compares the use of a key with a sum over the charged tasks,
and is not inductive: a reset that was sent before a charge, or a statement whose
`NOW()` is older than the window, could take a charge out of the window. `InWindow`
excludes it: whoever was charged an amount began before the end of the window the row now has,
so a reset or a new window can only come later than the charges it forgets.
`RatesSeen` says that the copy a transaction holds of the key is the committed row,
with its own charge once it has made it, and `Counting` is the comparison itself,
over a set of charged tasks that is finite because one is added at a time; the
number of tasks need not be finite. The sum is the fold of the community modules.
`SumIsSummed` unfolds it to the function that it is defined by, `SummedExists` and
`SummedUnique` show that such a function exists and is unique for every finite set,
and from them come `SumStep`, `SumRemove` (any task can be taken out first) and
`SumMonotone`. Where these need an induction, a counterexample that is least in the
order of subsets (`Smallest`) is led to a contradiction, with the well-foundedness of
that order from the library in place of an induction theorem that takes an operator.

**Billing cache.** `EntryStaysRight` counts the deductions that are owed by
requests, queued or held by workers, adds those that are missed, and needs the shape
of the queue and of the single flight; the proofs about sums over sequences are
lemmas on the number of their places.

**Token refresh.** A worker that refreshes holds the lock or goes on without it
(`LocksKnown`), two that do so at once are noted (`OverlapExcused`), and while
nothing is noted the row holds the current token except between a refresh and
its store (`Excused`).

**Scheduler snapshots.** A number is taken by one writer, and from then on no
pointer, job or request has it until that writer publishes it, so the set it adds
to is empty and becomes what it loaded (`IsFresh`); a writer removes the number
that it read at its start, and only when another is active (`NumbersOK`). The
model keeps the numbers in use counted from one. Lemma `Renumbering` shows
that this is a renaming that loses nothing, for any finite number of writers, and
`NextIsNew` that there is always room for one more; `Minimal` and `Extremes` give
the least and greatest element of a finite set from well-founded induction on its
subsets. The types need that events never outnumber changes (`EditsOK`).

Only model-checked: the liveness properties `CapturedIsGranted` and `Converges`, and
everything with `ENABLED`, which are outside the prover's reach, and the run of
`RowEdits` and `payment_extension`, which show violations. Every safety invariant
and action property of the passing runs is stated by a theorem.

## 5. Where the code and its documentation disagree

Shown by a run:

- `usage_billing_edits`: billing is atomic, but `userRepository.Update` and
  `apiKeyRepository.Update` write back every column of a row that was loaded
  before, the balance and the use of a quota included. A charge (or a credit)
  between the two is undone, and an exhausted key is active again.
- `payment_extension`: `doSub` says (`payment_fulfillment.go` 265) that its audit row
  "prevents double-extension on retry after markCompleted fails"; that row is written
  by `markCompleted` itself, after its update of the order, so a retry extends the
  subscription again.

Read in the code while modelling, and reproduced by the models, though no run
keeps checking it:

- A retried refund is to skip the deduction when an earlier rollback failed
  (`payment_refund.go` 168). It learns so from `hasAuditLog`
  (`payment_fulfillment.go` 279), which drops the error of its query: a failed read
  deducts a second time (`LookForRollback`), and so does a row that was never written.
- "No manual intervention needed" (`src/docs/PAYMENT.md` 200) does not survive a
  failure: an order that is PAID or RECHARGING answers "is being processed" to every
  further webhook. Only an administrator brings a PAID order on, nobody one left
  RECHARGING, and a FAILED one an administrator or a further webhook.
- A refund retried after a failed rollback, and refused by the provider again,
  reports "rolled back" (`payment_refund.go` 239) with the deduction still in place.
- An order confirmed by a query keeps no trade number (`payment_order_lifecycle.go`
  155); its refund skips the provider and ends REFUNDED with no money returned.
- `TryReclaim` (`idempotency_repo.go` 118) recognises a row by id and status; two
  requests that read the same expired success can both execute, one after the
  other. `PromiseKept` is about the requests that found the row absent or failed.
- A reclaimed system lock keeps the fingerprint of its first owner
  (`idempotency_repo.go` 113), the renewal of the new owner matches nothing, and a
  second operation is admitted when the first lease ends. `FreshLockExclusive` is
  about the operation that inserted the row.
- The slot of an account is taken, then the account is read again; when that read
  fails, for instance because the client has gone, `newSelectionResult`
  (`gateway_service.go` 2425) drops the release function and the slot stays
  occupied until its TTL.
- `enqueueCacheWrite` looks at `stopped` before it takes the lock, and `Stop`
  closes the channel while the field still holds it: a call between the two sends
  on a closed channel and panics (place `panicked` in `BillingCache`), where
  `billing_cache_service_test.go` 93 expects `false`. `cmd/server/wire.go` stops
  the service in parallel with the workers that still bill.

Read only: `incrementUsageBillingAccountQuota` (`usage_billing_repo.go` 246-317)
inserts into the outbox on its transaction while the `rows` of its update are still
open, read once but not to the end. `lib/pq` refuses a second statement then, so a charge that
crosses an account's total would end in an error and a rollback, again at each repeat;
`Effect` lets it commit, and `Rollback` lets it fail, and the ledger allows both.
`user_repo.go` 410 relies on a middleware that refuses users without
balance, which a stale cached balance lets through; the token providers check the
version of a token and cache it in two steps (`claude_token_provider.go` 125), so
a refresh between them leaves an old token in the cache; an administrator's
refresh (`handler/admin/account_handler.go` 782) takes no lock.

## 6. Not modelled, and the plan

Done, each with its proofs: 1 `PaymentOrder`, 2 `PaymentRefund`, 3 `IdempotencyRecords`,
`Idempotency`, `SystemOperationLock`, 4 `ConcurrencySlots`, 5 `UsageBilling`
with its ledger and `RowEdits` (which has none), 6 `SchedulerSnapshot`, 7 `BillingCache`,
8 `TokenRefresh`.

Most of the repository is generated ORM code, translation between the formats of
AI providers, reads for statistics, and the frontend: no state whose correctness
depends on the order of steps. Of what remains, the candidates are the user
message queue (one Redis lock per account), the pool of usage record workers, and
the extension of subscriptions, whose read-modify-write
(`subscription_service.go` 195) has the same shape as that of `RowEdits`.

Theorems that would come next: that `SystemOperationLock` and `Idempotency` use the
table by the same row invariant; the action properties that the invariants already
imply and that are worth a run of their own.
