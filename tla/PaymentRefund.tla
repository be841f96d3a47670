--------------------------- MODULE PaymentRefund ---------------------------
(***************************************************************************)
(* Refunds of fulfilled orders, composed with the life of the order: the   *)
(* user's request, the administrator's PrepareRefund and ExecuteRefund,    *)
(* the deduction from the user, the provider's refund, the rollback and    *)
(* the retry after a failed rollback.   (service/payment_refund.go)        *)
(***************************************************************************)
EXTENDS PaymentOrder, Integers, Functions

CONSTANTS
    Admins,     \* administrators that can process refunds together
    Amount,     \* what an order credits, in units of account
    MaxSpend    \* bound: units the user spends in one behaviour

ASSUME RefundAssumption == Amount \in Nat \ {0} /\ MaxSpend \in Nat

VARIABLES
    refund,     \* the refund each administrator is processing
    deducted,   \* units taken back from the user for the order and not restored
    returned,   \* units the provider has paid back
    revoked,    \* the order's subscription was deleted by a refund
    rbFailed,   \* "row": a REFUND_ROLLBACK_FAILED audit row exists;
                \* "lost": a failed rollback could not be recorded;
                \* "unread": a retry could not read the row and found none
    spent       \* units the user has spent on requests

refundVars == <<refund, deducted, returned, revoked, rbFailed, spent>>
allVars == <<vars, refundVars>>

RefundPcs == {"idle", "lock", "look", "deduct", "gateway", "rollback", "audit",
              "failed", "restore", "finish"}
\* The RefundPlan: status and trade number of the order when it was read, the
\* refund and the deduction it asks for.
Plans == [pc : RefundPcs, o : Orders \cup {NoOrder}, seen : Statuses,
          trade : BOOLEAN, amt : 0..Amount, take : 0..Amount]
NoPlan == [pc |-> "idle", o |-> NoOrder, seen |-> "NONE",
           trade |-> FALSE, amt |-> 0, take |-> 0]

\* users.balance: what balance orders credited, less usage and deductions.
Balance ==
    LET credit(o) == IF IsSubscription(o) THEN 0 ELSE Amount * granted[o] - deducted[o]
    IN  FoldFunction(+, 0, [o \in Orders |-> credit(o)]) - spent

RefundInit ==
    /\ Init
    /\ refund = [a \in Admins |-> NoPlan]
    /\ deducted = [o \in Orders |-> 0]
    /\ returned = [o \in Orders |-> 0]
    /\ revoked = [o \in Orders |-> FALSE]
    /\ rbFailed = [o \in Orders |-> {}]
    /\ spent = 0

Busy(a, o, pc) == refund[a].pc = pc /\ refund[a].o = o
GotoR(a, pc) == refund' = [refund EXCEPT ![a].pc = pc]
ReturnR(a) == refund' = [refund EXCEPT ![a] = NoPlan]

workVars == <<upstream, acked, audited, job>>
ledger == <<deducted, returned, revoked, rbFailed, spent>>

----------------------------------------------------------------------------
\* RequestRefund: only completed balance orders, and the balance must cover it. The
\* balance is read just before the conditional update, here in the same step.
RequestRefund(o) ==
    /\ Status(o) = "COMPLETED" /\ ~IsSubscription(o)
    /\ Balance >= Amount
    /\ SetStatus(o, "REFUND_REQUESTED")
    /\ UNCHANGED <<workVars, grantVars, faults, refundVars>>

MutRefundable == {"COMPLETED", "REFUND_REQUESTED", "REFUNDING", "REFUND_FAILED"} \* mutant
Refundable == {"COMPLETED", "REFUND_REQUESTED", "REFUND_FAILED"}

\* prepDeduct: the smaller of the refund and the balance, or the days of the
\* subscription if it is still active; nothing when no deduction is asked for.
MutDeductions(o, amt) == \* mutant: a balance below the refund is taken as it is
    IF IsSubscription(o) THEN {0} \cup (IF revoked[o] THEN {} ELSE {Amount})
    ELSE {0, IF Balance < amt THEN Balance ELSE amt}
Deductions(o, amt) ==
    IF IsSubscription(o)
    THEN {0} \cup (IF revoked[o] THEN {} ELSE {Amount})
    ELSE {0} \cup {take \in {amt, Balance} \cap 1..amt : take <= Balance}

\* PrepareRefund reads the order and the user; the plan keeps what it read.
PrepareRefund(a, o) ==
    /\ refund[a].pc = "idle"
    /\ Status(o) \in Refundable
    /\ \E amt \in 1..Amount : \E take \in Deductions(o, amt) :
         refund' = [refund EXCEPT ![a] =
           [pc |-> "lock", o |-> o, seen |-> Status(o), trade |-> order[o].trade,
            amt |-> amt, take |-> take]]
    /\ UNCHANGED <<vars, ledger>>

\* ExecuteRefund: the conditional update to REFUNDING is the lock of the refund.
LockRefund(a, o) ==
    /\ Busy(a, o, "lock")
    /\ \E out \in Outcomes :
         /\ Write(out)
         /\ IF Applied(out) /\ Status(o) \in Refundable
            THEN SetStatus(o, "REFUNDING") ELSE UNCHANGED order
         /\ IF out = "ok" /\ Status(o) \in Refundable
            THEN GotoR(a, "look") ELSE ReturnR(a)
    /\ UNCHANGED <<workVars, grantVars, ledger>>

\* hasAuditLog: with something to take, a REFUND_ROLLBACK_FAILED row says that it is
\* taken already. The error of the query is dropped and reads as no row.
MutTaken(o) == FALSE \* mutant: the audit log is not consulted
Taken(o) == "row" \in rbFailed[o]
LookForRollback(a, o) ==
    /\ Busy(a, o, "look")
    /\ \/ /\ refund[a].take = 0 \/ Taken(o)
          /\ refund' = [refund EXCEPT ![a].pc = "gateway", ![a].take = 0]
          /\ NoFault /\ UNCHANGED rbFailed
       \/ /\ refund[a].take > 0 /\ ~Taken(o)
          /\ GotoR(a, "deduct")
          /\ NoFault /\ UNCHANGED rbFailed
       \/ /\ refund[a].take > 0 /\ Fault("read")
          /\ GotoR(a, "deduct")
          /\ rbFailed' = [rbFailed EXCEPT ![o] = @ \cup (IF Taken(o) THEN {"unread"} ELSE {})]
    /\ UNCHANGED <<order, workVars, grantVars, deducted, returned, revoked, spent>>

\* DeductBalance, or ExtendSubscription by minus the days, or RevokeSubscription
\* when that would expire it; a failure, such as a subscription revoked since
\* the plan was made, restores the status and ends the refund.
Deduct(a, o) ==
    /\ Busy(a, o, "deduct")
    /\ \E out \in Outcomes :
         /\ Write(out)
         /\ IF Applied(out) /\ ~revoked[o]
            THEN /\ deducted' = [deducted EXCEPT ![o] = @ + refund[a].take]
                 /\ \E gone \in {FALSE, IsSubscription(o)} :
                      revoked' = [revoked EXCEPT ![o] = @ \/ gone]
            ELSE UNCHANGED <<deducted, revoked>>
         /\ GotoR(a, IF out = "ok" /\ ~revoked[o] THEN "gateway" ELSE "restore")
    /\ UNCHANGED <<order, workVars, grantVars, returned, rbFailed, spent>>

\* The error of gwRefund leads to handleGwFail.
MutAfterGateway(out) == IF out = "ok" THEN "finish" ELSE "restore" \* mutant: no rollback
AfterGateway(out) == IF out = "ok" THEN "finish" ELSE "rollback"

\* gwRefund: an order without a trade number is not refunded at the provider.
\* The request carries a fresh refund number, so a repeat is a new refund.
GatewayRefund(a, o) ==
    /\ Busy(a, o, "gateway")
    /\ \/ ~refund[a].trade /\ NoFault /\ GotoR(a, "finish") /\ UNCHANGED returned
       \/ /\ refund[a].trade
          /\ \E out \in {"ok", "provider", "unknown"} :
               /\ Write(out)
               /\ out # "provider" => returned[o] + refund[a].amt <= Amount
               /\ returned' = [returned EXCEPT ![o] =
                                 IF out = "provider" THEN @ ELSE @ + refund[a].amt]
               /\ GotoR(a, AfterGateway(out))
    /\ UNCHANGED <<order, workVars, grantVars, deducted, revoked, rbFailed, spent>>

\* RollbackRefund gives back what this refund took; a revoked subscription
\* cannot be extended.
Rollback(a, o) ==
    /\ Busy(a, o, "rollback")
    /\ \/ refund[a].take = 0 /\ NoFault /\ GotoR(a, "restore") /\ UNCHANGED deducted
       \/ /\ refund[a].take > 0 /\ revoked[o] /\ NoFault
          /\ GotoR(a, "audit") /\ UNCHANGED deducted
       \/ /\ refund[a].take > 0 /\ ~revoked[o]
          /\ \E out \in Outcomes :
               /\ Write(out)
               /\ deducted' = IF Applied(out)
                              THEN [deducted EXCEPT ![o] = @ - refund[a].take]
                              ELSE deducted
               /\ GotoR(a, IF out = "ok" THEN "restore" ELSE "audit")
    /\ UNCHANGED <<order, workVars, grantVars, returned, revoked, rbFailed, spent>>

\* The REFUND_ROLLBACK_FAILED row; an error of this write is ignored.
AuditRollback(a, o) ==
    /\ Busy(a, o, "audit")
    /\ \/ NoFault /\ rbFailed' = [rbFailed EXCEPT ![o] = @ \cup {"row"}]
       \/ Fault("audit") /\ rbFailed' = [rbFailed EXCEPT ![o] = @ \cup {"lost"}]
    /\ GotoR(a, "failed")
    /\ UNCHANGED <<order, workVars, grantVars, deducted, returned, revoked, spent>>

\* The last update of each outcome is by id, whatever the status is.
Settle(a, o, status) ==
    /\ \E out \in Outcomes :
         Write(out) /\ IF Applied(out) THEN SetStatus(o, status) ELSE UNCHANGED order
    /\ ReturnR(a)
    /\ UNCHANGED <<workVars, grantVars, ledger>>

MarkRefundFailed(a, o) == Busy(a, o, "failed") /\ Settle(a, o, "REFUND_FAILED")

RestoreStatus(a, o) ==
    /\ Busy(a, o, "restore")
    /\ Settle(a, o, IF refund[a].seen = "REFUND_REQUESTED"
                    THEN "REFUND_REQUESTED" ELSE "COMPLETED")

MutRefundResult(amt) == IF amt < Amount THEN "COMPLETED" ELSE "REFUNDED" \* mutant
RefundResult(amt) == IF amt < Amount THEN "PARTIALLY_REFUNDED" ELSE "REFUNDED"
MarkRefundOk(a, o) ==
    /\ Busy(a, o, "finish")
    /\ Settle(a, o, RefundResult(refund[a].amt))

\* The user's requests are paid from the balance while it is positive.
Spend ==
    /\ Balance > 0 /\ spent < MaxSpend
    /\ spent' = spent + 1
    /\ UNCHANGED <<vars, refund, deducted, returned, revoked, rbFailed>>

CrashAdmin(a) ==
    /\ refund[a].pc # "idle"
    /\ Fault("crash")
    /\ ReturnR(a)
    /\ UNCHANGED <<order, workVars, grantVars, ledger>>

RefundStep(a, o) ==
    \/ PrepareRefund(a, o) \/ LockRefund(a, o) \/ LookForRollback(a, o) \/ Deduct(a, o)
    \/ GatewayRefund(a, o) \/ Rollback(a, o) \/ AuditRollback(a, o)
    \/ MarkRefundFailed(a, o) \/ RestoreStatus(a, o) \/ MarkRefundOk(a, o)

RefundNext ==
    \/ Next /\ UNCHANGED refundVars
    \/ \E o \in Orders : RequestRefund(o)
    \/ \E a \in Admins, o \in Orders : RefundStep(a, o)
    \/ \E a \in Admins : CrashAdmin(a)
    \/ Spend

RefundSpec == RefundInit /\ [][RefundNext]_allVars

----------------------------------------------------------------------------
(* Properties *)

RefundTypeOK ==
    /\ TypeOK
    /\ refund \in [Admins -> Plans]
    /\ deducted \in [Orders -> Int]
    /\ returned \in [Orders -> 0..Amount]
    /\ revoked \in [Orders -> BOOLEAN]
    /\ rbFailed \in [Orders -> SUBSET {"row", "lost", "unread"}]
    /\ spent \in 0..MaxSpend

Refunding(a, o) == refund[a].o = o /\ refund[a].pc \notin {"idle", "lock"}

\* The writes that end a refund look at no status; they are safe because the
\* order stays REFUNDING and no second administrator gets past the lock.
RefundExclusive ==
    \A a \in Admins, o \in Orders :
      Refunding(a, o) => /\ Status(o) = "REFUNDING"
                         /\ \A b \in Admins : Refunding(b, o) => b = a

\* However often a refund fails and is retried, the user is never charged more
\* than the order credited, unless the row of a failed rollback was not written, or
\* could not be read when the refund was tried again.
DeductedOnce ==
    \A o \in Orders :
      /\ deducted[o] >= 0
      /\ deducted[o] > Amount => rbFailed[o] \cap {"lost", "unread"} # {}

\* An order that is back to COMPLETED or REFUND_REQUESTED after a failed refund
\* has cost the user nothing, unless a rollback has failed.
FailedRefundRestores ==
    \A o \in Orders :
      Status(o) \in {"COMPLETED", "REFUND_REQUESTED"} => deducted[o] = 0 \/ rbFailed[o] # {}

\* Money that has left through the provider is never on an order that could be
\* refunded again, and only orders that granted their benefit are refunded.
ReturnedIsFinal ==
    \A o \in Orders :
      returned[o] > 0 => /\ Status(o) \in {"REFUNDING", "REFUNDED", "PARTIALLY_REFUNDED"}
                         /\ granted[o] > 0
=============================================================================
