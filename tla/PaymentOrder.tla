---------------------------- MODULE PaymentOrder ----------------------------
(***************************************************************************)
(* The life of a payment order up to COMPLETED: creation, the customer's   *)
(* payment at the provider, the webhook, the cancel, expire and verify     *)
(* paths that query the provider, fulfilment of balance orders through     *)
(* redeem codes and of subscription orders, and the operator's retry.      *)
(* A worker is one request or job goroutine of any instance of the server; *)
(* its steps are the database, Redis and provider calls it makes, in order.*)
(*   service/payment_order.go, payment_order_lifecycle.go,                 *)
(*   payment_fulfillment.go, redeem_service.go                             *)
(***************************************************************************)
EXTENDS Naturals, FiniteSets

CONSTANTS
    Orders,         \* identities of the orders of one user
    Workers,        \* requests and jobs that can be in flight together
    NoOrder,        \* the order of an idle worker
    MaxPending,     \* cfg.MaxPendingOrders
    FaultKinds,     \* kinds of failure that may happen
    MaxFaults       \* bound: failures in one behaviour

\* A failed database read, a database write that is not applied or is applied
\* and reported as failed, a Redis error or refusal, a provider error, the death
\* of a process, an operator who deletes the code of an order, a lost audit row.
Faults == {"read", "lost", "unknown", "redis", "provider", "crash", "delete", "audit"}

ASSUME OrdersAssumption == NoOrder \notin Orders
ASSUME BoundsAssumption ==
    MaxPending \in Nat /\ MaxFaults \in Nat /\ FaultKinds \subseteq Faults

VARIABLES
    order,      \* payment_orders row: order_type, status, whether paid_at and
                \* payment_trade_no are set, whether an expiry's grace is over
    upstream,   \* the provider's side of the payment
    acked,      \* the provider got a success answer to its notification ("yes"),
                \* or one given without having read the order ("blind")
    code,       \* redeem_codes row of the order's recharge_code
    locked,     \* Redis key redeem:lock:<code> exists
    audited,    \* a RECHARGE_SUCCESS or SUBSCRIPTION_SUCCESS audit row exists
    granted,    \* how many times the order's benefit has been committed
    erased,     \* history: used codes of the order that an operator has deleted
    job,        \* what each worker is doing
    faults      \* failures injected so far

vars == <<order, upstream, acked, code, locked, audited, granted, erased, job, faults>>

Statuses == {"NONE", "PENDING", "PAID", "RECHARGING", "COMPLETED", "EXPIRED",
             "CANCELLED", "FAILED", "REFUND_REQUESTED", "REFUNDING",
             "REFUND_FAILED", "REFUNDED", "PARTIALLY_REFUNDED"}
RefundStatuses == {"REFUND_REQUESTED", "REFUNDING", "PARTIALLY_REFUNDED",
                   "REFUNDED", "REFUND_FAILED"}
Upstreams == {"none", "open", "closed", "captured"}
Answers == {"no", "blind", "yes"}
Codes == {"none", "unused", "used"}
Flows == {"none", "create", "cancel", "expire", "verify", "webhook", "retry", "redeem"}
CheckPcs == {"query", "close", "mark"}
NotifyPcs == {"confirm", "toPaid", "recheck", "reset", "fulfil", "claim"}
RedeemPcs == {"lock", "find", "redeem", "release"}
Pcs == {"idle", "insert", "invoke", "lookup", "create", "assign", "complete", "fail"}
         \cup CheckPcs \cup NotifyPcs \cup RedeemPcs

Kinds == {"balance", "subscription"}
Rows == [kind : Kinds, status : Statuses, paidAt : BOOLEAN, trade : BOOLEAN, late : BOOLEAN]
Jobs == [pc : Pcs, o : Orders \cup {NoOrder}, flow : Flows, trade : BOOLEAN, err : BOOLEAN]
Idle == [pc |-> "idle", o |-> NoOrder, flow |-> "none", trade |-> FALSE, err |-> FALSE]

Init ==
    /\ order = [o \in Orders |->
                  [kind |-> "balance", status |-> "NONE", paidAt |-> FALSE, trade |-> FALSE, late |-> FALSE]]
    /\ upstream = [o \in Orders |-> "none"]
    /\ acked = [o \in Orders |-> "no"]
    /\ code = [o \in Orders |-> "none"]
    /\ locked = [o \in Orders |-> FALSE]
    /\ audited = [o \in Orders |-> FALSE]
    /\ granted = [o \in Orders |-> 0]
    /\ erased = [o \in Orders |-> 0]
    /\ job = [w \in Workers |-> Idle]
    /\ faults = 0

----------------------------------------------------------------------------
(* Workers and failures *)

Status(o) == order[o].status
IsSubscription(o) == order[o].kind = "subscription"
At(w, o, pc) == job[w].pc = pc /\ job[w].o = o
Goto(w, pc) == job' = [job EXCEPT ![w].pc = pc]
Fresh(w, o, pc, flow, trade) ==
    /\ job[w].pc = "idle"
    /\ job' = [job EXCEPT ![w] =
                 [pc |-> pc, o |-> o, flow |-> flow, trade |-> trade, err |-> FALSE]]

\* A call of the given kind fails, or nothing does.
Fault(kind) == kind \in FaultKinds /\ faults < MaxFaults /\ faults' = faults + 1
NoFault == UNCHANGED faults

\* The three ends of a database write: it is applied and reported, it is not
\* applied, or it is applied and the client is told it failed.
Outcomes == {"ok", "lost", "unknown"}
Write(out) == IF out = "ok" THEN NoFault ELSE Fault(out)
Applied(out) == out # "lost"

\* The handler returns; the webhook handler turns nil into the provider's
\* success answer and an error into a 500, which makes the provider send again.
Return(w, o, answer) ==
    /\ job' = [job EXCEPT ![w] = Idle]
    /\ acked' = [acked EXCEPT ![o] =
                   IF job[w].flow = "webhook" /\ answer # "no" /\ @ # "yes" THEN answer ELSE @]

\* Mutant of SetStatus: a status no other handler knows.
MutSetStatus(o, s) ==
    order' = [order EXCEPT ![o].status = IF s = "RECHARGING" THEN "FULFILLING" ELSE s,
                           ![o].late = FALSE]
SetStatus(o, s) == order' = [order EXCEPT ![o].status = s, ![o].late = FALSE]

rowVars == <<order, audited>>
grantVars == <<code, locked, granted, erased>>

----------------------------------------------------------------------------
(* Order creation *)

Pending == {o \in Orders : Status(o) = "PENDING"}

\* CreateOrder up to checkPendingLimit inside the transaction; every refusal
\* before it (disabled, amount out of range, rate limited) leaves no trace.
CreateOrder(w, o) ==
    /\ Status(o) = "NONE"
    /\ \A v \in Workers : job[v].o # o
    /\ Cardinality(Pending) < MaxPending
    /\ Fresh(w, o, "insert", "create", FALSE)
    /\ UNCHANGED <<order, upstream, acked, audited, faults>> /\ UNCHANGED grantVars

\* The insert and the commit; the order is PENDING before the provider is called.
InsertOrder(w, o) ==
    /\ At(w, o, "insert")
    /\ \E out \in Outcomes :
         /\ Write(out)
         /\ IF Applied(out)
            THEN \E kind \in Kinds :
                   order' = [order EXCEPT ![o].kind = kind, ![o].status = "PENDING"]
            ELSE UNCHANGED order
         /\ IF out = "ok" THEN Goto(w, "invoke") /\ UNCHANGED acked
                          ELSE Return(w, o, "no")
    /\ UNCHANGED <<upstream, audited>> /\ UNCHANGED grantVars

\* CreatePayment and the update with its details: the customer now has a page
\* to pay on. Some providers give the trade number only with the notification.
InvokeProvider(w, o) ==
    /\ At(w, o, "invoke")
    /\ \E t \in BOOLEAN :
         order' = [order EXCEPT ![o].trade = @ \/ t, ![o].late = FALSE]
    /\ upstream' = [upstream EXCEPT ![o] = "open"]
    /\ Return(w, o, "yes")
    /\ UNCHANGED <<audited, faults>> /\ UNCHANGED grantVars

\* No instance, provider error or failed update: the order is set to FAILED
\* whatever its status is now, and an error of that update is ignored.
InvokeFails(w, o) ==
    /\ At(w, o, "invoke")
    /\ Fault("provider")
    /\ \/ SetStatus(o, "FAILED")
       \/ UNCHANGED order
    /\ Return(w, o, "no")
    /\ UNCHANGED <<upstream, audited>> /\ UNCHANGED grantVars

----------------------------------------------------------------------------
(* Cancel, expire and verify: paths that first ask the provider *)

\* CancelOrder, AdminCancelOrder ("cancel") and ExpireTimedOutOrders ("expire")
\* read the order; payment_type is never empty, so cancelCore always checks.
StartCancel(w, o, flow) ==
    /\ Status(o) = "PENDING"
    /\ Fresh(w, o, "query", flow, order[o].trade)
    /\ UNCHANGED <<order, upstream, acked, audited, faults>> /\ UNCHANGED grantVars

\* VerifyOrderByOutTradeNo and VerifyOrderPublic.
StartVerify(w, o) ==
    /\ Status(o) \in {"PENDING", "EXPIRED"}
    /\ Fresh(w, o, "query", "verify", order[o].trade)
    /\ UNCHANGED <<order, upstream, acked, audited, faults>> /\ UNCHANGED grantVars

\* checkPaid answered anything but already_paid.
NotPaid(w, o) ==
    IF job[w].flow = "verify" THEN Return(w, o, "yes")
                              ELSE Goto(w, "mark") /\ UNCHANGED acked

\* QueryOrder; a provider that knows no such payment answers with an error.
QueryUpstream(w, o) ==
    /\ At(w, o, "query")
    /\ \/ /\ upstream[o] = "captured" /\ NoFault
          /\ Goto(w, "confirm") /\ UNCHANGED acked
       \/ /\ upstream[o] \in {"open", "closed"} /\ NoFault
          /\ Goto(w, "close") /\ UNCHANGED acked
       \/ /\ upstream[o] = "none" /\ NoFault
          /\ NotPaid(w, o)
       \/ Fault("provider") /\ NotPaid(w, o)
    /\ UNCHANGED <<upstream, rowVars, grantVars>>

\* CancelPayment of a CancelableProvider closes the payment unless the
\* customer has paid since; other providers have no such call, errors are ignored.
ClosePayment(w, o) ==
    /\ At(w, o, "close")
    /\ \/ upstream[o] = "open" /\ upstream' = [upstream EXCEPT ![o] = "closed"]
       \/ UNCHANGED upstream
    /\ NotPaid(w, o)
    /\ UNCHANGED <<rowVars, grantVars, faults>>

\* The end of cancelCore: UPDATE ... WHERE status = PENDING.
MutCancellable(o) == TRUE \* mutant: by id only
Cancellable(o) == Status(o) = "PENDING"
MarkCancelled(w, o) ==
    /\ At(w, o, "mark")
    /\ \E out \in Outcomes :
         /\ Write(out)
         /\ IF Applied(out) /\ Cancellable(o)
            THEN SetStatus(o, IF job[w].flow = "expire" THEN "EXPIRED" ELSE "CANCELLED")
            ELSE UNCHANGED order
    /\ Return(w, o, "yes")
    /\ UNCHANGED <<upstream, audited>> /\ UNCHANGED grantVars

----------------------------------------------------------------------------
(* Payment notification *)

\* The provider delivers a success notification: at least once, and again
\* after an error answer, a lost answer or for no reason.
Webhook(w, o) ==
    /\ upstream[o] = "captured"
    /\ Fresh(w, o, "confirm", "webhook", TRUE)
    /\ UNCHANGED <<order, upstream, acked, audited, faults>> /\ UNCHANGED grantVars

\* HandlePaymentNotification finds the order and confirmPayment loads it. A
\* failed lookup or an amount mismatch is an error; a failed load returns nil.
Confirm(w, o) ==
    /\ At(w, o, "confirm")
    /\ \/ NoFault /\ Goto(w, "toPaid") /\ UNCHANGED acked
       \/ Fault("read") /\ \E answer \in {"no", "blind"} : Return(w, o, answer)
    /\ UNCHANGED <<upstream, rowVars, grantVars>>

\* Mutant of Payable: a cancelled order is not recovered.
MutPayable(o) ==
    Status(o) = "PENDING" \/ (Status(o) = "EXPIRED" /\ ~order[o].late)
Payable(o) ==
    \/ Status(o) \in {"PENDING", "CANCELLED"}
    \/ Status(o) = "EXPIRED" /\ ~order[o].late

\* toPaid: one conditional update decides which notification wins.
ToPaid(w, o) ==
    /\ At(w, o, "toPaid")
    /\ \E out \in Outcomes :
         /\ Write(out)
         /\ IF Applied(out) /\ Payable(o)
            THEN order' = [order EXCEPT ![o].status = "PAID", ![o].paidAt = TRUE,
                                        ![o].trade = job[w].trade, ![o].late = FALSE]
            ELSE UNCHANGED order
         /\ IF out # "ok" THEN Return(w, o, "no")
            ELSE Goto(w, IF Payable(o) THEN "fulfil" ELSE "recheck") /\ UNCHANGED acked
    /\ UNCHANGED <<upstream, audited>> /\ UNCHANGED grantVars

\* alreadyProcessed: the order was not payable; read it again.
AlreadyProcessed(w, o) ==
    /\ At(w, o, "recheck")
    /\ \/ /\ Status(o) = "FAILED" /\ NoFault
          /\ Goto(w, "fulfil") /\ UNCHANGED acked
       \/ /\ Status(o) \in {"PAID", "RECHARGING"} /\ NoFault
          /\ Return(w, o, "no")
       \/ /\ Status(o) \notin {"FAILED", "PAID", "RECHARGING"} /\ NoFault
          /\ Return(w, o, "yes")
       \/ Fault("read") /\ Return(w, o, "blind")
    /\ UNCHANGED <<upstream, rowVars, grantVars>>

\* RetryFulfillment, called by an administrator.
MutRetryable(o) == Status(o) \in {"FAILED", "PAID"} \* mutant: paid_at not checked
Retryable(o) == order[o].paidAt /\ Status(o) \in {"FAILED", "PAID"}
RetryFulfillment(w, o) ==
    /\ Retryable(o)
    /\ Fresh(w, o, "reset", "retry", FALSE)
    /\ UNCHANGED <<order, upstream, acked, audited, faults>> /\ UNCHANGED grantVars

\* Its conditional update back to PAID; the number of rows is not looked at.
ResetForRetry(w, o) ==
    /\ At(w, o, "reset")
    /\ \E out \in Outcomes :
         /\ Write(out)
         /\ IF Applied(out) /\ Status(o) \in {"FAILED", "PAID"}
            THEN SetStatus(o, "PAID") ELSE UNCHANGED order
         /\ IF out = "ok" THEN Goto(w, "fulfil") /\ UNCHANGED acked
                          ELSE Return(w, o, "no")
    /\ UNCHANGED <<upstream, audited>> /\ UNCHANGED grantVars

----------------------------------------------------------------------------
(* Fulfilment *)

\* executeFulfillment and the checks at the head of Execute*Fulfillment; the
\* order's type never changes, so the two loads are one read.
Fulfil(w, o) ==
    /\ At(w, o, "fulfil")
    /\ \/ /\ Status(o) \in {"PAID", "FAILED"} /\ NoFault
          /\ Goto(w, "claim") /\ UNCHANGED acked
       \/ /\ Status(o) \notin {"PAID", "FAILED"} /\ NoFault
          /\ Return(w, o, IF Status(o) = "COMPLETED" THEN "yes" ELSE "no")
       \/ Fault("read") /\ Return(w, o, "no")
    /\ UNCHANGED <<upstream, rowVars, grantVars>>

\* The update to RECHARGING is the lock of the fulfilment.
MutClaimable(o) == Status(o) \in {"PAID", "FAILED", "RECHARGING"} \* mutant: claimed twice
Claimable(o) == Status(o) \in {"PAID", "FAILED"}
Claim(w, o) ==
    /\ At(w, o, "claim")
    /\ \E out \in Outcomes :
         /\ Write(out)
         /\ IF Applied(out) /\ Claimable(o)
            THEN SetStatus(o, "RECHARGING") ELSE UNCHANGED order
         /\ IF out = "ok" /\ Claimable(o)
            THEN Goto(w, "lookup") /\ UNCHANGED acked
            ELSE Return(w, o, IF out = "ok" THEN "yes" ELSE "no")
    /\ UNCHANGED <<upstream, audited>> /\ UNCHANGED grantVars

\* resolveRedeemAction: what is left to do for a balance order.
MutRedeemAction(c) == IF c = "none" THEN "create" ELSE "complete" \* mutant: any code is done
RedeemAction(c) ==
    CASE c = "none" -> "create" [] c = "unused" -> "lock" [] c = "used" -> "complete"

\* doBalance; a failed lookup counts as no code.
LookupCode(w, o) ==
    /\ At(w, o, "lookup") /\ ~IsSubscription(o)
    /\ \/ NoFault /\ Goto(w, RedeemAction(code[o]))
       \/ Fault("read") /\ Goto(w, "create")
    /\ UNCHANGED <<upstream, acked, rowVars, grantVars>>

\* CreateCode: the code column is unique.
CreateCode(w, o) ==
    /\ At(w, o, "create")
    /\ \E out \in Outcomes :
         /\ Write(out)
         /\ code' = [code EXCEPT ![o] = IF Applied(out) /\ @ = "none" THEN "unused" ELSE @]
         /\ Goto(w, IF out = "ok" /\ code[o] = "none" THEN "lock" ELSE "fail")
    /\ UNCHANGED <<upstream, acked, rowVars, locked, granted, erased>>

\* doSub: the group must be active, and hasAuditLog answers whether the
\* subscription was assigned before; a failed audit query answers no.
LookupAssignment(w, o) ==
    /\ At(w, o, "lookup") /\ IsSubscription(o)
    /\ \/ NoFault /\ Goto(w, IF audited[o] THEN "complete" ELSE "assign")
       \/ Fault("read") /\ \E pc \in {"assign", "fail"} : Goto(w, pc)
    /\ UNCHANGED <<upstream, acked, rowVars, grantVars>>

\* AssignOrExtendSubscription commits in a transaction of its own.
Assign(w, o) ==
    /\ At(w, o, "assign")
    /\ \E out \in Outcomes :
         /\ Write(out)
         /\ granted' = [granted EXCEPT ![o] = IF Applied(out) THEN @ + 1 ELSE @]
         /\ Goto(w, IF out = "ok" THEN "complete" ELSE "fail")
    /\ UNCHANGED <<upstream, acked, rowVars, code, locked, erased>>

\* markCompleted: the update to COMPLETED, then the audit row, whose failure is
\* ignored. Nothing reads the row of an order that is COMPLETED, so one step.
MarkCompleted(w, o) ==
    /\ At(w, o, "complete")
    /\ \E out \in Outcomes :
         /\ Write(out)
         /\ IF Applied(out) /\ Status(o) = "RECHARGING"
            THEN SetStatus(o, "COMPLETED") ELSE UNCHANGED order
         /\ IF out = "ok"
            THEN /\ Return(w, o, "yes")
                 /\ \E logged \in BOOLEAN : audited' = [audited EXCEPT ![o] = @ \/ logged]
            ELSE Goto(w, "fail") /\ UNCHANGED <<acked, audited>>
    /\ UNCHANGED upstream /\ UNCHANGED grantVars

\* markFailed only touches an order that is still RECHARGING.
MarkFailed(w, o) ==
    /\ At(w, o, "fail")
    /\ \E out \in Outcomes :
         /\ Write(out)
         /\ IF Applied(out) /\ Status(o) = "RECHARGING"
            THEN SetStatus(o, "FAILED") ELSE UNCHANGED order
    /\ Return(w, o, "no")
    /\ UNCHANGED <<upstream, audited>> /\ UNCHANGED grantVars

----------------------------------------------------------------------------
(* Redeem, called by the fulfilment or by the user with the code of the order *)

UserRedeems(w, o) ==
    /\ code[o] # "none"
    /\ Fresh(w, o, "lock", "redeem", FALSE)
    /\ UNCHANGED <<order, upstream, acked, audited, faults>> /\ UNCHANGED grantVars

\* Redeem returned: the user's request ends, the fulfilment goes on.
MutRedeemed(w, o, err) == \* mutant: doBalance ignores the error of Redeem
    IF job[w].flow = "redeem" THEN job' = [job EXCEPT ![w] = Idle]
    ELSE Goto(w, "complete")
Redeemed(w, o, err) ==
    IF job[w].flow = "redeem" THEN job' = [job EXCEPT ![w] = Idle]
    ELSE Goto(w, IF err THEN "fail" ELSE "complete")

\* The rate limit may refuse; a Redis error counts as acquired; SETNX decides.
AcquireRedeemLock(w, o) ==
    /\ At(w, o, "lock")
    /\ \/ /\ NoFault /\ ~locked[o]
          /\ locked' = [locked EXCEPT ![o] = TRUE] /\ Goto(w, "find")
       \/ NoFault /\ locked[o] /\ Redeemed(w, o, TRUE) /\ UNCHANGED locked
       \/ Fault("redis") /\ Goto(w, "find") /\ UNCHANGED locked
       \/ Fault("redis") /\ Redeemed(w, o, TRUE) /\ UNCHANGED locked
    /\ UNCHANGED <<upstream, acked, rowVars, code, granted, erased>>

RedeemStep(w, pc, err) == job' = [job EXCEPT ![w].pc = pc, ![w].err = err]

\* GetByCode and CanUse, then the user's row.
FindCode(w, o) ==
    /\ At(w, o, "find")
    /\ \/ NoFault /\ code[o] = "unused" /\ RedeemStep(w, "redeem", FALSE)
       \/ NoFault /\ code[o] # "unused" /\ RedeemStep(w, "release", TRUE)
       \/ Fault("read") /\ RedeemStep(w, "release", TRUE)
    /\ UNCHANGED <<upstream, acked, rowVars, grantVars>>

\* One transaction: mark the code used WHERE status = unused, and credit. The
\* load after the commit may fail, which reports an error for a done redemption.
MutUsable(w, o) == ~job[w].err \* mutant: marked used by id only
Usable(w, o) == code[o] = "unused" /\ ~job[w].err
RedeemTx(w, o) ==
    /\ At(w, o, "redeem")
    /\ \E out \in Outcomes :
         /\ Write(out)
         /\ IF Applied(out) /\ Usable(w, o)
            THEN /\ code' = [code EXCEPT ![o] = "used"]
                 /\ granted' = [granted EXCEPT ![o] = @ + 1]
            ELSE UNCHANGED <<code, granted>>
         /\ RedeemStep(w, "release", out # "ok" \/ ~Usable(w, o))
    /\ UNCHANGED <<upstream, acked, rowVars, locked, erased>>

\* The deferred DEL removes the key whoever set it.
ReleaseRedeemLock(w, o) ==
    /\ At(w, o, "release")
    /\ \/ NoFault /\ locked' = [locked EXCEPT ![o] = FALSE]
       \/ Fault("redis") /\ UNCHANGED locked
    /\ Redeemed(w, o, job[w].err)
    /\ UNCHANGED <<upstream, acked, rowVars, code, granted, erased>>

----------------------------------------------------------------------------
(* The environment *)

CustomerPays(o) ==
    /\ upstream[o] = "open"
    /\ upstream' = [upstream EXCEPT ![o] = "captured"]
    /\ UNCHANGED <<acked, job, faults, rowVars, grantVars>>

\* More than paymentGraceMinutes since the order expired.
GraceElapses(o) ==
    /\ Status(o) = "EXPIRED"
    /\ order' = [order EXCEPT ![o].late = TRUE]
    /\ UNCHANGED <<upstream, acked, job, faults, audited>> /\ UNCHANGED grantVars

\* redeemLockDuration has passed.
RedeemLockExpires(o) ==
    /\ locked[o]
    /\ locked' = [locked EXCEPT ![o] = FALSE]
    /\ UNCHANGED <<upstream, acked, job, faults, rowVars, code, granted, erased>>

\* adminService.DeleteRedeemCode does not look at the code's status. A worker
\* that has read the row will not find its id, even if the code is created anew.
DeleteRedeemCode(o) ==
    /\ code[o] # "none"
    /\ Fault("delete")
    /\ code' = [code EXCEPT ![o] = "none"]
    /\ erased' = [erased EXCEPT ![o] = IF code[o] = "used" THEN @ + 1 ELSE @]
    /\ job' = [w \in Workers |->
                 IF At(w, o, "redeem") THEN [job[w] EXCEPT !.err = TRUE] ELSE job[w]]
    /\ UNCHANGED <<upstream, acked, rowVars, locked, granted>>

\* The process of a worker dies between two steps.
Crash(w) ==
    /\ job[w].pc # "idle"
    /\ Fault("crash")
    /\ job' = [job EXCEPT ![w] = Idle]
    /\ UNCHANGED <<upstream, acked, rowVars, grantVars>>

----------------------------------------------------------------------------
Start(w, o) ==
    \/ CreateOrder(w, o)
    \/ \E flow \in {"cancel", "expire"} : StartCancel(w, o, flow)
    \/ StartVerify(w, o) \/ Webhook(w, o) \/ RetryFulfillment(w, o)
    \/ UserRedeems(w, o)

Step(w, o) ==
    \/ InsertOrder(w, o) \/ InvokeProvider(w, o) \/ InvokeFails(w, o)
    \/ QueryUpstream(w, o) \/ ClosePayment(w, o) \/ MarkCancelled(w, o)
    \/ Confirm(w, o) \/ ToPaid(w, o) \/ AlreadyProcessed(w, o) \/ ResetForRetry(w, o)
    \/ Fulfil(w, o) \/ Claim(w, o)
    \/ LookupCode(w, o) \/ CreateCode(w, o) \/ LookupAssignment(w, o) \/ Assign(w, o)
    \/ AcquireRedeemLock(w, o) \/ FindCode(w, o) \/ RedeemTx(w, o) \/ ReleaseRedeemLock(w, o)
    \/ MarkCompleted(w, o) \/ MarkFailed(w, o)

Environment(o) ==
    CustomerPays(o) \/ GraceElapses(o) \/ RedeemLockExpires(o) \/ DeleteRedeemCode(o)

Next ==
    \/ \E w \in Workers, o \in Orders : Start(w, o) \/ Step(w, o)
    \/ \E o \in Orders : Environment(o)
    \/ \E w \in Workers : Crash(w)

Spec == Init /\ [][Next]_vars

\* A step in flight is eventually taken; a notification is sent again until it is
\* answered, which is needed only until the payment is recorded; the expiry job
\* finds every pending order. Nothing is assumed about customers, locks that run out
\* and administrators: an order may wait for a retry for ever.
Fairness ==
    /\ \A w \in Workers : WF_vars(\E o \in Orders : Step(w, o))
    /\ \A o \in Orders :
         /\ SF_vars(\E w \in Workers : acked[o] = "no" /\ ~order[o].paidAt /\ Webhook(w, o))
         /\ SF_vars(\E w \in Workers : StartCancel(w, o, "expire"))

FairSpec == Spec /\ Fairness

----------------------------------------------------------------------------
(* Properties *)

TypeOK ==
    /\ order \in [Orders -> Rows]
    /\ upstream \in [Orders -> Upstreams]
    /\ acked \in [Orders -> Answers]
    /\ code \in [Orders -> Codes]
    /\ locked \in [Orders -> BOOLEAN]
    /\ audited \in [Orders -> BOOLEAN]
    /\ granted \in [Orders -> Nat]
    /\ erased \in [Orders -> Nat]
    /\ job \in [Workers -> Jobs]
    /\ faults \in Nat

\* The order of a fulfilling worker is claimed by it: past the update to
\* RECHARGING and not yet returned.
Holds(w, o) ==
    /\ job[w].o = o
    /\ job[w].flow # "redeem"
    /\ job[w].pc \in RedeemPcs \cup {"lookup", "create", "assign", "complete", "fail"}

\* Two fulfilments of one order are never in progress together, whatever mix of
\* webhooks, verifications, expiry checks and retries started them.
FulfilmentExclusive ==
    \A o \in Orders, v, w \in Workers : Holds(v, o) /\ Holds(w, o) => v = w

\* A balance order credits its user at most once, whatever fails or crashes and
\* however often the payment is notified and the fulfilment is retried; each used
\* code that an operator deletes may be followed by one more.
CreditedOnce == \A o \in Orders : ~IsSubscription(o) => granted[o] <= 1 + erased[o]

\* "Prevents double-extension on retry after markCompleted fails": what doSub says
\* of its look at the audit log. The row it looks for is written by markCompleted.
ExtendedOnce == \A o \in Orders : IsSubscription(o) => granted[o] <= 1

\* A COMPLETED order has had its benefit committed: no path marks an order
\* completed on the strength of another worker's unfinished attempt.
CompletedIsGranted ==
    \A o \in Orders : Status(o) = "COMPLETED" => granted[o] >= 1

\* A benefit is granted only for a payment the provider has captured, on an
\* order that was marked paid; a failed creation followed by a retry is no way in.
GrantedIsCaptured ==
    \A o \in Orders : granted[o] > 0 => upstream[o] = "captured" /\ order[o].paidAt

\* Once paid, an order never leaves the paid side of its life: no cancel,
\* expiry or failed creation that read an older status overwrites it.
PaidSide == {"PAID", "RECHARGING", "FAILED", "COMPLETED"} \cup RefundStatuses
PaidIsKept ==
    [][\A o \in Orders :
         /\ order[o].paidAt => order'[o].paidAt /\ order'[o].status \in PaidSide
         /\ Status(o) = "COMPLETED" => order'[o].status = "COMPLETED"]_vars

\* An order that no fair process goes on with: a failure left it to an administrator
\* (FAILED: or a further webhook; RECHARGING: to nobody), its notification came after
\* the grace period, or was answered with success although the order could not be read.
Left(o) ==
    \/ faults > 0 /\ Status(o) \in {"PAID", "RECHARGING", "FAILED"}
    \/ Status(o) = "EXPIRED" /\ order[o].late
    \/ Status(o) \in {"CANCELLED", "EXPIRED"} /\ acked[o] = "blind"

\* A captured payment is granted with nobody's help when nothing fails, cancelled
\* and expired orders included, and is never forgotten: unless its order is left
\* for ever at a place where only an administrator, a further webhook, or a
\* notification in time would bring it on.
CapturedIsGranted ==
    \A o \in Orders : upstream[o] = "captured" ~> (granted[o] > 0 \/ []Left(o))
----------------------------------------------------------------------------
(* Why the safety properties hold: an invariant that every step preserves. *)

Creates(w, o) == job[w].o = o /\ job[w].pc \in {"insert", "invoke"}
\* Fulfilled, and perhaps being refunded since.
Settled == {"COMPLETED"} \cup RefundStatuses
Completes(w, o) == Holds(w, o) /\ job[w].pc = "complete"

\* What the columns of an order say about its payment, its code and its grant.
RowConsistent(o) ==
    /\ order[o].paidAt => upstream[o] = "captured" /\ Status(o) \in PaidSide
    /\ Status(o) \in {"PAID", "RECHARGING"} \cup Settled => order[o].paidAt
    /\ Status(o) = "NONE" \/ (Status(o) = "FAILED" /\ ~order[o].paidAt) => upstream[o] = "none"
    /\ code[o] # "none" => order[o].paidAt /\ ~IsSubscription(o)
    /\ granted[o] > 0 => order[o].paidAt
    /\ audited[o] => granted[o] > 0
    /\ Status(o) \in Settled \/ code[o] = "used" => granted[o] > 0

\* What a worker knows of its order at each point of the handler.
JobConsistent(w) ==
    LET o == job[w].o
        pc == job[w].pc
    IN  /\ o \in Orders
        /\ job[w].flow = "redeem" => pc \in RedeemPcs
        /\ pc = "insert" => Status(o) = "NONE"
        /\ pc = "invoke" => upstream[o] = "none" /\ Status(o) \in {"PENDING", "CANCELLED", "EXPIRED"}
        /\ pc \in {"confirm", "toPaid", "recheck"} => upstream[o] = "captured"
        /\ pc \in {"reset", "fulfil", "claim"} \cup RedeemPcs => order[o].paidAt
        /\ pc = "assign" => IsSubscription(o)
        /\ pc \in {"create"} \cup RedeemPcs => ~IsSubscription(o)
        /\ pc = "complete" \/ (pc = "release" /\ ~job[w].err) => granted[o] > 0
        /\ Holds(w, o) => Status(o) = "RECHARGING" \/ (pc = "fail" /\ Status(o) \in Settled)

\* The grants are accounted for: by the used codes of a balance order, deleted ones
\* included; by the failures and the completion of a subscription.
GrantConsistent(o) ==
    /\ erased[o] <= granted[o]
    /\ ~IsSubscription(o) => granted[o] = (IF code[o] = "used" THEN 1 ELSE 0) + erased[o]
    /\ IsSubscription(o) /\ granted[o] > faults =>
         /\ granted[o] = faults + 1
         /\ Status(o) \in Settled \/ \E w \in Workers : Completes(w, o)

\* The inductive invariant. Exclusion of fulfilments needs the statuses the
\* workers know, those need the columns, and the columns need that the creator
\* of an order is alone.
Consistent ==
    /\ \A o \in Orders : RowConsistent(o) /\ GrantConsistent(o)
    /\ \A w \in Workers : job[w].pc # "idle" => JobConsistent(w)
    /\ \A o \in Orders, v, w \in Workers : Creates(v, o) /\ Creates(w, o) => v = w
    /\ FulfilmentExclusive
=============================================================================
