---------------------------- MODULE PaymentProofs ---------------------------
(***************************************************************************)
(* Proofs about PaymentOrder and PaymentRefund for every set of orders,    *)
(* workers and administrators, every amount, and any number and mix of     *)
(* failures.  First the types of PaymentOrder and the inductive invariant  *)
(* Consistent with the safety properties that follow from it; then the     *)
(* same of the refunds, where what is said about money assumes that no     *)
(* write is applied and reported lost.                                     *)
(***************************************************************************)
EXTENDS PaymentRefund, TLAPS

----------------------------------------------------------------------------
(* Types *)

\* The job and acknowledgement fields keep their types under every way a
\* worker moves on.
LEMMA JobTypes ==
  ASSUME TypeOK, NEW w \in Workers, NEW o \in Orders
  PROVE  /\ \A pc \in Pcs : Goto(w, pc) => job' \in [Workers -> Jobs]
         /\ \A answer \in Answers :
              Return(w, o, answer) => job' \in [Workers -> Jobs] /\ acked' \in [Orders -> Answers]
         /\ \A pc \in Pcs, flow \in Flows, trade \in BOOLEAN :
              Fresh(w, o, pc, flow, trade) => job' \in [Workers -> Jobs]
         /\ \A pc \in Pcs, err \in BOOLEAN :
              RedeemStep(w, pc, err) => job' \in [Workers -> Jobs]
<1> USE DEF TypeOK, Jobs
<1>1. ASSUME NEW pc \in Pcs, Goto(w, pc) PROVE job' \in [Workers -> Jobs]
  BY <1>1 DEF Goto
<1>2. ASSUME NEW answer \in Answers, Return(w, o, answer)
      PROVE  job' \in [Workers -> Jobs] /\ acked' \in [Orders -> Answers]
  <2>1. Idle \in Jobs
    BY DEF Idle, Pcs, Flows
  <2> QED
    BY <1>2, <2>1 DEF Return
<1>3. ASSUME NEW pc \in Pcs, NEW flow \in Flows, NEW trade \in BOOLEAN,
             Fresh(w, o, pc, flow, trade)
      PROVE  job' \in [Workers -> Jobs]
  BY <1>3 DEF Fresh
<1>4. ASSUME NEW pc \in Pcs, NEW err \in BOOLEAN, RedeemStep(w, pc, err)
      PROVE  job' \in [Workers -> Jobs]
  <2> DEFINE rec == [job[w] EXCEPT !.pc = pc, !.err = err]
  <2>1. job[w] \in Jobs /\ job \in [Workers -> Jobs]
    OBVIOUS
  <2>2. rec \in Jobs
    BY <2>1
  <2>3. job' = [job EXCEPT ![w] = rec]
    BY <1>4 DEF RedeemStep
  <2> HIDE DEF rec, Jobs, TypeOK
  <2> QED
    BY <2>1, <2>2, <2>3
<1> QED
  BY <1>1, <1>2, <1>3, <1>4

\* The same for the two exits that depend on the flow of the job.
LEMMA ExitTypes ==
  ASSUME TypeOK, NEW w \in Workers, NEW o \in Orders
  PROVE  /\ NotPaid(w, o) => job' \in [Workers -> Jobs] /\ acked' \in [Orders -> Answers]
         /\ \A err \in BOOLEAN : Redeemed(w, o, err) => job' \in [Workers -> Jobs]
<1>1. {"mark", "fail", "complete"} \subseteq Pcs
  BY DEF Pcs, CheckPcs
<1>2. Idle \in Jobs
  BY DEF Idle, Jobs, Pcs, Flows
<1>3. "yes" \in Answers
  BY DEF Answers
<1>4. ASSUME NotPaid(w, o) PROVE job' \in [Workers -> Jobs] /\ acked' \in [Orders -> Answers]
  BY <1>1, <1>3, <1>4, JobTypes DEF NotPaid, TypeOK
<1> QED
  BY <1>1, <1>2, <1>4, JobTypes DEF Redeemed, TypeOK, Jobs

\* A status change and a failure keep the rows and the failure count typed.
LEMMA RowTypes ==
  ASSUME TypeOK, NEW o \in Orders
  PROVE  /\ \A s \in Statuses : SetStatus(o, s) => order' \in [Orders -> Rows]
         /\ \A kind : Fault(kind) => faults' \in Nat
         /\ \A out : Write(out) => faults' \in Nat
         /\ NoFault => faults' \in Nat
<1>1. ASSUME NEW s \in Statuses, SetStatus(o, s) PROVE order' \in [Orders -> Rows]
  <2>1. order \in [Orders -> Rows]
    BY DEF TypeOK
  <2>2. [order[o] EXCEPT !.status = s, !.late = FALSE] \in Rows
    BY <2>1 DEF Rows
  <2>3. order' = [order EXCEPT ![o] = [order[o] EXCEPT !.status = s, !.late = FALSE]]
    BY <1>1, <2>1 DEF SetStatus
  <2> QED
    BY <2>1, <2>2, <2>3
<1>2. faults \in Nat
  BY DEF TypeOK
<1>3. /\ \A kind : Fault(kind) => faults' \in Nat
      /\ NoFault => faults' \in Nat
  BY <1>2 DEF Fault, NoFault
<1>4. \A out : Write(out) => faults' \in Nat
  BY <1>3 DEF Write
<1> QED
  BY <1>1, <1>3, <1>4

\* The rows written by the insert, by the provider's answer and by a payment.
LEMMA RowWrites ==
  ASSUME TypeOK, NEW w \in Workers, NEW o \in Orders
  PROVE  /\ InsertOrder(w, o) => order' \in [Orders -> Rows]
         /\ InvokeProvider(w, o) => order' \in [Orders -> Rows]
         /\ ToPaid(w, o) => order' \in [Orders -> Rows]
<1>1. order \in [Orders -> Rows] /\ job[w].trade \in BOOLEAN
  BY DEF TypeOK, Jobs
<1>2. "PENDING" \in Statuses /\ "PAID" \in Statuses
  BY DEF Statuses
<1>3. ASSUME InsertOrder(w, o) PROVE order' \in [Orders -> Rows]
  <2>1. CASE UNCHANGED order
    BY <1>1, <2>1
  <2>2. ASSUME NEW kind \in Kinds,
               order' = [order EXCEPT ![o].kind = kind, ![o].status = "PENDING"]
        PROVE  order' \in [Orders -> Rows]
    <3>1. [order[o] EXCEPT !.kind = kind, !.status = "PENDING"] \in Rows
      BY <1>1, <1>2 DEF Rows
    <3> QED
      BY <1>1, <2>2, <3>1
  <2> QED
    BY <1>3, <2>1, <2>2 DEF InsertOrder
<1>4. ASSUME InvokeProvider(w, o) PROVE order' \in [Orders -> Rows]
  <2>1. PICK t \in BOOLEAN :
          order' = [order EXCEPT ![o].trade = order[o].trade \/ t, ![o].late = FALSE]
    BY <1>4 DEF InvokeProvider
  <2>2. (order[o].trade \/ t) \in BOOLEAN
    OBVIOUS
  <2>3. [order[o] EXCEPT !.trade = order[o].trade \/ t, !.late = FALSE] \in Rows
    BY <1>1, <2>2 DEF Rows
  <2> QED
    BY <1>1, <2>1, <2>3
<1>5. ASSUME ToPaid(w, o) PROVE order' \in [Orders -> Rows]
  <2>1. CASE UNCHANGED order
    BY <1>1, <2>1
  <2>2. CASE order' = [order EXCEPT ![o].status = "PAID", ![o].paidAt = TRUE,
                                    ![o].trade = job[w].trade, ![o].late = FALSE]
    <3>1. [order[o] EXCEPT !.status = "PAID", !.paidAt = TRUE, !.trade = job[w].trade,
                           !.late = FALSE] \in Rows
      BY <1>1, <1>2 DEF Rows
    <3> QED
      BY <1>1, <2>2, <3>1
  <2> QED
    BY <1>5, <2>1, <2>2 DEF ToPaid
<1> QED
  BY <1>3, <1>4, <1>5

\* Every step keeps the types.
LEMMA NextTypes == ASSUME TypeOK, [Next]_vars PROVE TypeOK'
<1> USE DEF rowVars, grantVars
<1>1. ASSUME NEW w \in Workers, NEW o \in Orders, Start(w, o) PROVE TypeOK'
  <2>1. PICK pc \in {"insert", "query", "confirm", "reset", "lock"},
             flow \in {"create", "cancel", "expire", "verify", "webhook", "retry", "redeem"},
             trade \in BOOLEAN : Fresh(w, o, pc, flow, trade)
    BY <1>1 DEF Start, CreateOrder, StartCancel, StartVerify, Webhook, RetryFulfillment,
                UserRedeems, TypeOK, Rows
  <2>2. pc \in Pcs /\ flow \in Flows
    BY DEF Pcs, Flows, CheckPcs, NotifyPcs, RedeemPcs
  <2>3. job' \in [Workers -> Jobs]
    BY <2>1, <2>2, JobTypes
  <2> QED
    BY <1>1, <2>3 DEF Start, CreateOrder, StartCancel, StartVerify, Webhook,
       RetryFulfillment, UserRedeems, TypeOK
<1>2. ASSUME NEW w \in Workers, NEW o \in Orders, Step(w, o) PROVE TypeOK'
  <2>1. /\ \A pc \in Pcs : Goto(w, pc) => job' \in [Workers -> Jobs]
        /\ \A answer \in Answers :
             Return(w, o, answer) => job' \in [Workers -> Jobs] /\ acked' \in [Orders -> Answers]
        /\ \A pc \in Pcs, err \in BOOLEAN :
             RedeemStep(w, pc, err) => job' \in [Workers -> Jobs]
    BY JobTypes
  <2>2. /\ NotPaid(w, o) => job' \in [Workers -> Jobs] /\ acked' \in [Orders -> Answers]
        /\ \A err \in BOOLEAN : Redeemed(w, o, err) => job' \in [Workers -> Jobs]
    BY ExitTypes
  <2>3. /\ \A s \in Statuses : SetStatus(o, s) => order' \in [Orders -> Rows]
        /\ \A kind : Fault(kind) => faults' \in Nat
        /\ \A out : Write(out) => faults' \in Nat
        /\ NoFault => faults' \in Nat
    BY RowTypes
  <2>4. {"PENDING", "PAID", "RECHARGING", "COMPLETED", "EXPIRED", "CANCELLED", "FAILED"}
          \subseteq Statuses
    BY DEF Statuses
  <2>5. Pcs = {"idle", "insert", "invoke", "lookup", "create", "assign", "complete", "fail",
               "query", "close", "mark", "confirm", "toPaid", "recheck", "reset", "fulfil",
               "claim", "lock", "find", "redeem", "release"}
    BY DEF Pcs, CheckPcs, NotifyPcs, RedeemPcs
  <2>6. {"no", "blind", "yes"} \subseteq Answers
    BY DEF Answers
  <2> USE <2>1, <2>2, <2>3, <2>4, <2>5, <2>6 DEF TypeOK
  <2>11. CASE InsertOrder(w, o)
    <3>1. order' \in [Orders -> Rows]
      BY <2>11, RowWrites
    <3>2. job' \in [Workers -> Jobs] /\ acked' \in [Orders -> Answers] /\ faults' \in Nat
      BY <2>11 DEF InsertOrder
    <3> QED
      BY <2>11, <3>1, <3>2 DEF InsertOrder
  <2>12. CASE InvokeProvider(w, o)
    <3>1. order' \in [Orders -> Rows]
      BY <2>12, RowWrites
    <3>2. job' \in [Workers -> Jobs] /\ acked' \in [Orders -> Answers] /\ faults' \in Nat
      BY <2>12 DEF InvokeProvider
    <3> QED
      BY <2>12, <3>1, <3>2 DEF InvokeProvider, Upstreams
  <2>13. CASE InvokeFails(w, o)
    BY <2>13 DEF InvokeFails
  <2>14. CASE QueryUpstream(w, o)
    BY <2>14 DEF QueryUpstream
  <2>15. CASE ClosePayment(w, o)
    BY <2>15 DEF ClosePayment, Upstreams
  <2>16. CASE MarkCancelled(w, o)
    BY <2>16 DEF MarkCancelled
  <2>17. CASE Confirm(w, o)
    BY <2>17 DEF Confirm
  <2>18. CASE ToPaid(w, o)
    <3>1. order' \in [Orders -> Rows]
      BY <2>18, RowWrites
    <3>2. job' \in [Workers -> Jobs] /\ acked' \in [Orders -> Answers] /\ faults' \in Nat
      BY <2>18 DEF ToPaid
    <3> QED
      BY <2>18, <3>1, <3>2 DEF ToPaid
  <2>19. CASE AlreadyProcessed(w, o)
    BY <2>19 DEF AlreadyProcessed
  <2>20. CASE ResetForRetry(w, o)
    BY <2>20 DEF ResetForRetry
  <2>21. CASE Fulfil(w, o)
    BY <2>21 DEF Fulfil
  <2>22. CASE Claim(w, o)
    BY <2>22 DEF Claim
  <2>23. CASE LookupCode(w, o)
    BY <2>23 DEF LookupCode, RedeemAction, Codes
  <2>24. CASE CreateCode(w, o)
    BY <2>24 DEF CreateCode, Codes
  <2>25. CASE LookupAssignment(w, o)
    BY <2>25 DEF LookupAssignment
  <2>26. CASE Assign(w, o)
    BY <2>26 DEF Assign
  <2>27. CASE AcquireRedeemLock(w, o)
    BY <2>27 DEF AcquireRedeemLock
  <2>28. CASE FindCode(w, o)
    BY <2>28 DEF FindCode
  <2>29. CASE RedeemTx(w, o)
    <3>1. job' \in [Workers -> Jobs]
      <4>1. PICK err \in BOOLEAN : RedeemStep(w, "release", err)
        BY <2>29 DEF RedeemTx
      <4> QED
        BY <4>1
    <3> QED
      BY <2>29, <3>1 DEF RedeemTx, Codes
  <2>30. CASE ReleaseRedeemLock(w, o)
    <3>1. job[w].err \in BOOLEAN
      BY DEF Jobs
    <3> QED
      BY <2>30, <3>1 DEF ReleaseRedeemLock
  <2>31. CASE MarkCompleted(w, o)
    BY <2>31 DEF MarkCompleted
  <2>32. CASE MarkFailed(w, o)
    BY <2>32 DEF MarkFailed
  <2> QED
    BY <1>2, <2>11, <2>12, <2>13, <2>14, <2>15, <2>16, <2>17, <2>18, <2>19, <2>20, <2>21, <2>22, <2>23, <2>24, <2>25, <2>26, <2>27, <2>28, <2>29, <2>30, <2>31, <2>32
    DEF Step
<1>3. ASSUME NEW o \in Orders, Environment(o) PROVE TypeOK'
  <2>1. CASE CustomerPays(o)
    BY <2>1 DEF CustomerPays, TypeOK, Upstreams
  <2>2. CASE GraceElapses(o)
    BY <2>2 DEF GraceElapses, TypeOK, Rows
  <2>3. CASE RedeemLockExpires(o)
    BY <2>3 DEF RedeemLockExpires, TypeOK
  <2>4. CASE DeleteRedeemCode(o)
    <3>1. erased' \in [Orders -> Nat]
      <4>1. erased \in [Orders -> Nat]
        BY DEF TypeOK
      <4>2. erased' = [erased EXCEPT ![o] = IF code[o] = "used" THEN @ + 1 ELSE @]
        BY <2>4 DEF DeleteRedeemCode
      <4> QED
        BY <4>1, <4>2
    <3>2. job' \in [Workers -> Jobs] /\ code' \in [Orders -> Codes] /\ faults' \in Nat
      BY <2>4, RowTypes DEF DeleteRedeemCode, TypeOK, Jobs, Codes
    <3> QED
      BY <2>4, <3>1, <3>2 DEF DeleteRedeemCode, TypeOK
  <2> QED
    BY <1>3, <2>1, <2>2, <2>3, <2>4 DEF Environment
<1>4. ASSUME NEW w \in Workers, Crash(w) PROVE TypeOK'
  <2>1. Idle \in Jobs
    BY DEF Idle, Jobs, Pcs, Flows
  <2> QED
    BY <1>4, <2>1 DEF Crash, Fault, TypeOK
<1>5. CASE UNCHANGED vars
  BY <1>5 DEF vars, TypeOK
<1> QED
  BY <1>1, <1>2, <1>3, <1>4, <1>5 DEF Next

\* The initial states are well typed.
LEMMA InitTypes == Init => TypeOK
BY DEF Init, TypeOK, Rows, Statuses, Upstreams, Answers, Codes, Flows, Kinds, Jobs, Pcs, Idle

\* Type correctness of the order, its provider and redeem state and the jobs.
THEOREM TypeCorrect == Spec => []TypeOK
<1>1. Init => TypeOK
  BY InitTypes
<1>2. TypeOK /\ [Next]_vars => TypeOK'
  BY NextTypes
<1> QED
  BY <1>1, <1>2, PTL DEF Spec

----------------------------------------------------------------------------
(* The inductive invariant *)


\* A step of worker w on order o: nothing else changes.
Touches(w, o) ==
    /\ job[w].pc = "idle" \/ job[w].o = o
    /\ job'[w].pc = "idle" \/ job'[w].o = o
    /\ \A v \in Workers : v # w => job'[v] = job[v]
    /\ \A p \in Orders : p # o =>
         /\ order'[p] = order[p] /\ upstream'[p] = upstream[p] /\ code'[p] = code[p]
         /\ audited'[p] = audited[p] /\ granted'[p] = granted[p]
    /\ erased' = erased
    /\ faults' \in Nat /\ faults' >= faults

\* What a step of w leaves to the other workers on the order.
Keeps(w, o) ==
    /\ order'[o].kind = order[o].kind \/ Status(o) = "NONE"
    /\ order[o].paidAt => order'[o].paidAt
    /\ Status(o) \in Settled => order'[o].status = Status(o)
    /\ upstream[o] = "captured" => upstream'[o] = "captured"
    /\ granted[o] > 0 => granted'[o] > 0
    /\ \A v \in Workers : v # w /\ job[v].o = o =>
         /\ job[v].pc = "insert" \/ Holds(v, o) => order'[o].status = order[o].status
         /\ job[v].pc = "invoke" => /\ upstream'[o] = "none"
                                    /\ order'[o].status \in {"PENDING", "CANCELLED", "EXPIRED"}

\* What a step may never do to a paid or a completed order.
Forward ==
    \A o \in Orders :
      /\ order[o].paidAt => order'[o].paidAt
      /\ Status(o) \in Settled => order'[o].status = Status(o)

\* What is then left to show for Consistent.
Preserves(w, o) ==
    /\ Keeps(w, o)
    /\ RowConsistent(o)'
    /\ GrantConsistent(o)'
    /\ job'[w].pc # "idle" => JobConsistent(w)'
    /\ Creates(w, o)' => Creates(w, o) \/ \A v \in Workers : ~Creates(v, o)
    /\ Holds(w, o)' => Holds(w, o) \/ \A v \in Workers : ~Holds(v, o)

\* The other workers on the order still know what they knew.
LEMMA Bystanders ==
  ASSUME TypeOK, Consistent, NEW w \in Workers, NEW o \in Orders,
         Touches(w, o), Keeps(w, o),
         NEW v \in Workers, v # w, job[v].pc # "idle", job[v].o = o
  PROVE  JobConsistent(v)'
<1>1. job'[v] = job[v] /\ JobConsistent(v) /\ RowConsistent(o)
  BY DEF Touches, Consistent
<1>2. /\ job[v].pc = "insert" \/ Holds(v, o) => order'[o].status = order[o].status
      /\ job[v].pc = "invoke" => /\ upstream'[o] = "none"
                                 /\ order'[o].status \in {"PENDING", "CANCELLED", "EXPIRED"}
      /\ order[o].paidAt => order'[o].paidAt
      /\ upstream[o] = "captured" => upstream'[o] = "captured"
      /\ granted[o] > 0 => granted'[o] > 0
  BY DEF Keeps
<1>3. job[v].pc \in {"assign", "create"} \cup RedeemPcs => order'[o].kind = order[o].kind
  <2>1. job[v].pc \in {"assign", "create"} \cup RedeemPcs => Status(o) # "NONE"
    BY <1>1 DEF JobConsistent, RowConsistent, Holds, RedeemPcs, PaidSide, Settled, RefundStatuses
  <2> QED
    BY <2>1 DEF Keeps
<1>4. Holds(v, o)' <=> Holds(v, o)
  BY <1>1 DEF Holds
<1> QED
  BY <1>1, <1>2, <1>3, <1>4 DEF JobConsistent, Status, IsSubscription, RedeemPcs

\* A step of one worker on one order preserves the invariant once it keeps what
\* that order's columns and that worker say, and Preserves for the others.
LEMMA StepFrame ==
  ASSUME TypeOK, Consistent, NEW w \in Workers, NEW o \in Orders,
         Touches(w, o), Preserves(w, o)
  PROVE  Consistent' /\ Forward
<1>1. ASSUME NEW p \in Orders, p # o PROVE RowConsistent(p)'
  BY <1>1 DEF Consistent, RowConsistent, Touches, Status, IsSubscription
<1>2. ASSUME NEW p \in Orders, p # o PROVE GrantConsistent(p)'
  <2>1. GrantConsistent(p)
    BY DEF Consistent
  <2>2. /\ order'[p] = order[p] /\ code'[p] = code[p] /\ granted'[p] = granted[p]
        /\ faults' \in Nat /\ faults' >= faults /\ faults \in Nat /\ granted[p] \in Nat
        /\ erased' = erased
    BY <1>2 DEF Touches, TypeOK
  <2>3. ASSUME NEW v \in Workers, Completes(v, p) PROVE Completes(v, p)'
    <3>1. v # w
      BY <1>2, <2>3 DEF Completes, Holds, Touches
    <3> QED
      BY <2>3, <3>1 DEF Completes, Holds, Touches
  <2> QED
    BY <2>1, <2>2, <2>3 DEF GrantConsistent, Status, IsSubscription
<1>3. ASSUME NEW v \in Workers, v # w, job'[v].pc # "idle", job[v].o # o PROVE JobConsistent(v)'
  <2>1. job'[v] = job[v] /\ JobConsistent(v) /\ job[v].o \in Orders
    BY <1>3 DEF Touches, Consistent, JobConsistent
  <2> QED
    BY <1>3, <2>1 DEF Touches, JobConsistent, Holds, Status, IsSubscription
<1>4. ASSUME NEW p \in Orders, NEW u \in Workers, NEW v \in Workers, Creates(u, p)', Creates(v, p)'
      PROVE  u = v
  <2>1. \A x \in Workers : x # w => (Creates(x, p)' <=> Creates(x, p))
    BY DEF Creates, Touches
  <2>2. Creates(w, p)' => p = o
    BY DEF Creates, Touches
  <2> QED
    BY <1>4, <2>1, <2>2 DEF Consistent, Preserves
<1>5. ASSUME NEW p \in Orders, NEW u \in Workers, NEW v \in Workers, Holds(u, p)', Holds(v, p)'
      PROVE  u = v
  <2>1. \A x \in Workers : x # w => (Holds(x, p)' <=> Holds(x, p))
    BY DEF Holds, Touches
  <2>2. Holds(w, p)' => p = o
    BY DEF Holds, Touches, RedeemPcs
  <2> QED
    BY <1>5, <2>1, <2>2 DEF Consistent, FulfilmentExclusive, Preserves
<1>6. \A v \in Workers : job'[v].pc # "idle" => JobConsistent(v)'
  BY <1>3, Bystanders DEF Preserves, Touches
<1>7. Forward
  BY DEF Forward, Touches, Preserves, Keeps, Status
<1> QED
  BY <1>1, <1>2, <1>4, <1>5, <1>6, <1>7 DEF Consistent, FulfilmentExclusive, Preserves

\* The account of the grants is kept by a step that grants nothing, uses no
\* code and leaves "complete" only with the order completed or with a failure.
LEMMA GrantKept ==
  ASSUME TypeOK, Consistent, NEW w \in Workers, NEW o \in Orders, Touches(w, o),
         order'[o].kind = order[o].kind, granted'[o] = granted[o],
         code'[o] = "used" <=> code[o] = "used",
         Status(o) \in Settled => order'[o].status \in Settled,
         Completes(w, o) => \/ Completes(w, o)' \/ order'[o].status \in Settled
                            \/ faults' > faults
  PROVE  GrantConsistent(o)'
<1>1. GrantConsistent(o) /\ granted[o] \in Nat /\ faults \in Nat
  BY DEF Consistent, TypeOK
<1>2. faults' \in Nat /\ faults' >= faults /\ erased' = erased
  BY DEF Touches
<1>3. ASSUME NEW v \in Workers, v # w, Completes(v, o) PROVE Completes(v, o)'
  BY <1>3 DEF Completes, Holds, Touches
<1>4. IsSubscription(o)' <=> IsSubscription(o)
  BY DEF IsSubscription
<1>5. /\ erased'[o] <= granted'[o]
      /\ ~IsSubscription(o) => granted'[o] = (IF code'[o] = "used" THEN 1 ELSE 0) + erased'[o]
  BY <1>1, <1>2 DEF GrantConsistent
<1>6. ASSUME IsSubscription(o), granted'[o] > faults'
      PROVE  /\ granted'[o] = faults' + 1
             /\ Status(o)' \in Settled \/ \E v \in Workers : Completes(v, o)'
  <2>1. faults' = faults /\ granted[o] = faults + 1
    BY <1>1, <1>2, <1>6 DEF GrantConsistent
  <2> QED
    BY <1>1, <1>3, <1>6, <2>1 DEF GrantConsistent, Status
<1> QED
  BY <1>4, <1>5, <1>6 DEF GrantConsistent

\* What the steps do to the worker and to the columns of the order, field by field.
Idles(w) == job'[w].pc = "idle"
Moves(w, pc) ==
    /\ job'[w].pc = pc /\ job'[w].o = job[w].o
    /\ job'[w].flow = job[w].flow /\ job'[w].err = job[w].err
Turns(o, s) ==
    /\ order'[o].status = s
    /\ order'[o].kind = order[o].kind /\ order'[o].paidAt = order[o].paidAt
SameRow(o) == Turns(o, Status(o))
SamePay(o) == upstream'[o] = upstream[o]
SameGrant(o) == code'[o] = code[o] /\ granted'[o] = granted[o] /\ audited'[o] = audited[o]
SameOthers(o) == \A p \in Orders : p # o => order'[p] = order[p]

\* The writes of an order read that way.
LEMMA RowMoves ==
  ASSUME order \in [Orders -> Rows], NEW o \in Orders
  PROVE  /\ UNCHANGED order => SameRow(o) /\ SameOthers(o)
         /\ \A s : SetStatus(o, s) => Turns(o, s) /\ SameOthers(o)
         /\ \A kind : order' = [order EXCEPT ![o].kind = kind, ![o].status = "PENDING"] =>
              /\ order'[o].status = "PENDING" /\ order'[o].paidAt = order[o].paidAt
              /\ SameOthers(o)
         /\ \A t : order' = [order EXCEPT ![o].trade = t, ![o].late = FALSE] =>
              SameRow(o) /\ SameOthers(o)
         /\ \A t : order' = [order EXCEPT ![o].status = "PAID", ![o].paidAt = TRUE,
                                          ![o].trade = t, ![o].late = FALSE] =>
              /\ order'[o].status = "PAID" /\ order'[o].paidAt /\ order'[o].kind = order[o].kind
              /\ SameOthers(o)
<1> USE DEF SameRow, Turns, SameOthers, Status, Rows
<1>1. UNCHANGED order => SameRow(o) /\ SameOthers(o)
  OBVIOUS
<1>2. ASSUME NEW s, SetStatus(o, s) PROVE Turns(o, s) /\ SameOthers(o)
  BY <1>2 DEF SetStatus
<1>3. ASSUME NEW kind, order' = [order EXCEPT ![o].kind = kind, ![o].status = "PENDING"]
      PROVE  /\ order'[o].status = "PENDING" /\ order'[o].paidAt = order[o].paidAt
             /\ SameOthers(o)
  BY <1>3
<1>4. ASSUME NEW t, order' = [order EXCEPT ![o].trade = t, ![o].late = FALSE]
      PROVE  SameRow(o) /\ SameOthers(o)
  BY <1>4
<1>5. ASSUME NEW t, order' = [order EXCEPT ![o].status = "PAID", ![o].paidAt = TRUE,
                                           ![o].trade = t, ![o].late = FALSE]
      PROVE  /\ order'[o].status = "PAID" /\ order'[o].paidAt /\ order'[o].kind = order[o].kind
             /\ SameOthers(o)
  BY <1>5
<1> QED
  BY <1>1, <1>2, <1>3, <1>4, <1>5

\* Every step of a worker preserves the invariant.
LEMMA StepConsistent ==
  ASSUME TypeOK, Consistent, NEW w \in Workers, NEW o \in Orders, Step(w, o)
  PROVE  Consistent' /\ Forward
<1>1. /\ RowConsistent(o) /\ GrantConsistent(o)
      /\ \A v \in Workers : job[v].pc # "idle" => JobConsistent(v)
      /\ FulfilmentExclusive
      /\ \A v \in Workers : Creates(v, o) /\ Creates(w, o) => v = w
  BY DEF Consistent
<1>2. /\ job \in [Workers -> Jobs] /\ order \in [Orders -> Rows] /\ faults \in Nat
      /\ granted \in [Orders -> Nat] /\ code \in [Orders -> Codes]
      /\ upstream \in [Orders -> Upstreams] /\ audited \in [Orders -> BOOLEAN]
  BY DEF TypeOK
<1>3. \A s : SetStatus(o, s) =>
        /\ order'[o].status = s
        /\ order'[o].kind = order[o].kind /\ order'[o].paidAt = order[o].paidAt
        /\ \A p \in Orders : p # o => order'[p] = order[p]
  BY <1>2, RowMoves DEF Turns, SameOthers
<1>4. \A kind : order' = [order EXCEPT ![o].kind = kind, ![o].status = "PENDING"] =>
        /\ order'[o].status = "PENDING" /\ order'[o].paidAt = order[o].paidAt
        /\ \A p \in Orders : p # o => order'[p] = order[p]
  BY <1>2, RowMoves DEF SameOthers
<1>5. \A t : order' = [order EXCEPT ![o].status = "PAID", ![o].paidAt = TRUE,
                                    ![o].trade = t, ![o].late = FALSE] =>
        /\ order'[o].status = "PAID" /\ order'[o].paidAt /\ order'[o].kind = order[o].kind
        /\ \A p \in Orders : p # o => order'[p] = order[p]
  BY <1>2, RowMoves DEF SameOthers
<1>11. CASE InsertOrder(w, o)
  <2>1. /\ Touches(w, o)
        /\ job[w].pc = "insert" /\ job[w].o = o
        /\ SamePay(o) /\ SameGrant(o)
        /\ \/ SameRow(o) /\ Idles(w)
           \/ /\ order'[o].status = "PENDING" /\ order'[o].paidAt = order[o].paidAt
              /\ Idles(w) \/ Moves(w, "invoke")
    <3>1. PICK out \in Outcomes :
            /\ Write(out)
            /\ IF Applied(out)
               THEN \E kind \in Kinds :
                      order' = [order EXCEPT ![o].kind = kind, ![o].status = "PENDING"]
               ELSE UNCHANGED order
            /\ IF out = "ok" THEN Goto(w, "invoke") /\ UNCHANGED acked
                             ELSE Return(w, o, "no")
      BY <1>11 DEF InsertOrder
    <3>2. /\ \A p \in Orders : p # o => order'[p] = order[p]
          /\ \/ SameRow(o) /\ out # "ok"
             \/ order'[o].status = "PENDING" /\ order'[o].paidAt = order[o].paidAt
      <4>1. CASE Applied(out)
        BY <1>4, <3>1, <4>1
      <4>2. CASE ~Applied(out)
        BY <3>1, <4>2 DEF Applied, SameRow, Turns, Status
      <4> QED
        BY <4>1, <4>2
    <3>3. /\ \A v \in Workers : v # w => job'[v] = job[v]
          /\ Idles(w) \/ (out = "ok" /\ Moves(w, "invoke"))
          /\ faults' \in Nat /\ faults' >= faults
      BY <1>2, <3>1
      DEF Return, Goto, Idle, Jobs, Idles, Moves, Write, Fault, NoFault, Outcomes
    <3>4. /\ job[w].pc = "insert" /\ job[w].o = o
          /\ UNCHANGED <<upstream, audited, code, granted, erased>>
      BY <1>11 DEF InsertOrder, At, grantVars
    <3> QED
      BY <3>2, <3>3, <3>4 DEF Touches, Idles, Moves, SamePay, SameGrant
  <2>2. Keeps(w, o)
    BY <1>1, <2>1
    DEF Keeps, RowConsistent, JobConsistent, Creates, Holds, Status, RedeemPcs, PaidSide,
        Settled, RefundStatuses, SameRow, SamePay, SameGrant, Turns
  <2>3. RowConsistent(o)'
    BY <1>1, <1>2, <2>1
    DEF RowConsistent, JobConsistent, Holds, Status, IsSubscription, PaidSide,
        Settled, RefundStatuses, SameRow, SamePay, SameGrant, Turns
  <2>4. GrantConsistent(o)'
    <3>1. code[o] # "used" /\ granted[o] = 0
      BY <1>1, <1>2, <2>1 DEF RowConsistent, JobConsistent, Status, PaidSide, Settled, RefundStatuses
    <3>2. granted'[o] = 0 /\ erased'[o] = 0 /\ code'[o] # "used" /\ faults' \in Nat
      <4>1. erased[o] <= granted[o] /\ erased[o] \in Nat
        BY <1>2 DEF Consistent, GrantConsistent, TypeOK
      <4> QED
        BY <2>1, <3>1, <4>1 DEF SameGrant, Touches
    <3> QED
      <4>1. ~(granted'[o] > faults')
        BY <3>2
      <4>2. erased'[o] <= granted'[o]
        BY <3>2
      <4>3. granted'[o] = (IF code'[o] = "used" THEN 1 ELSE 0) + erased'[o]
        BY <3>2
      <4> QED
        BY <4>1, <4>2, <4>3 DEF GrantConsistent
  <2>5. job'[w].pc # "idle" => JobConsistent(w)'
    BY <1>1, <2>1
    DEF RowConsistent, JobConsistent, Holds, Status, IsSubscription, RedeemPcs, SameRow,
        SamePay, SameGrant, Turns, Idles, Moves
  <2>6. /\ Creates(w, o)' => Creates(w, o)
        /\ Holds(w, o)' => Holds(w, o)
    BY <1>1, <2>1 DEF Creates, Holds, RedeemPcs, JobConsistent, Idles, Moves
  <2> QED
    BY <2>1, <2>2, <2>3, <2>4, <2>5, <2>6, StepFrame DEF Preserves
<1>12. CASE InvokeProvider(w, o)
  <2>1. /\ Touches(w, o)
        /\ job[w].pc = "invoke" /\ job[w].o = o
        /\ SameRow(o) /\ upstream'[o] = "open" /\ SameGrant(o)
        /\ Idles(w)
    BY <1>12, <1>2
    DEF InvokeProvider, At, Return, Idle, grantVars, Jobs, Touches, Idles, Moves, SameRow,
        Turns, SamePay, SameGrant, Status
  <2>2. Keeps(w, o)
    BY <1>1, <2>1
    DEF Keeps, RowConsistent, JobConsistent, Creates, Holds, Status, RedeemPcs, PaidSide,
        Settled, RefundStatuses, SameRow, SamePay, SameGrant, Turns
  <2>3. RowConsistent(o)'
    BY <1>1, <1>2, <2>1
    DEF RowConsistent, JobConsistent, Holds, Status, IsSubscription, PaidSide,
        Settled, RefundStatuses, SameRow, SamePay, SameGrant, Turns
  <2>4. GrantConsistent(o)'
    BY <1>2, <2>1, GrantKept
    DEF Completes, Holds, Status, SameRow, SameGrant, Turns, Idles, Moves
  <2>5. job'[w].pc # "idle" => JobConsistent(w)'
    BY <1>1, <2>1
    DEF RowConsistent, JobConsistent, Holds, Status, IsSubscription, RedeemPcs, SameRow,
        SamePay, SameGrant, Turns, Idles, Moves
  <2>6. /\ Creates(w, o)' => Creates(w, o)
        /\ Holds(w, o)' => Holds(w, o)
    BY <1>1, <2>1 DEF Creates, Holds, RedeemPcs, JobConsistent, Idles, Moves
  <2> QED
    BY <2>1, <2>2, <2>3, <2>4, <2>5, <2>6, StepFrame DEF Preserves
<1>13. CASE InvokeFails(w, o)
  <2>1. /\ Touches(w, o)
        /\ job[w].pc = "invoke" /\ job[w].o = o
        /\ SamePay(o) /\ SameGrant(o) /\ Idles(w)
        /\ SameRow(o) \/ Turns(o, "FAILED")
    BY <1>13, <1>2, <1>3
    DEF InvokeFails, At, Fault, Return, Idle, grantVars, Jobs, Touches, Idles, Moves,
        SameRow, Turns, SamePay, SameGrant, Status
  <2>2. Keeps(w, o)
    BY <1>1, <2>1
    DEF Keeps, RowConsistent, JobConsistent, Creates, Holds, Status, RedeemPcs, PaidSide,
        Settled, RefundStatuses, SameRow, SamePay, SameGrant, Turns
  <2>3. RowConsistent(o)'
    BY <1>1, <1>2, <2>1
    DEF RowConsistent, JobConsistent, Holds, Status, IsSubscription, PaidSide,
        Settled, RefundStatuses, SameRow, SamePay, SameGrant, Turns
  <2>4. GrantConsistent(o)'
    BY <1>1, <1>2, <2>1, GrantKept
    DEF Settled, RefundStatuses, JobConsistent, Completes, Holds, Status, SameRow, SameGrant, Turns, Idles, Moves
  <2>5. job'[w].pc # "idle" => JobConsistent(w)'
    BY <1>1, <2>1
    DEF RowConsistent, JobConsistent, Holds, Status, IsSubscription, RedeemPcs, SameRow,
        SamePay, SameGrant, Turns, Idles, Moves
  <2>6. /\ Creates(w, o)' => Creates(w, o)
        /\ Holds(w, o)' => Holds(w, o)
    BY <1>1, <2>1 DEF Creates, Holds, RedeemPcs, JobConsistent, Idles, Moves
  <2> QED
    BY <2>1, <2>2, <2>3, <2>4, <2>5, <2>6, StepFrame DEF Preserves
<1>14. CASE QueryUpstream(w, o)
  <2>1. /\ Touches(w, o)
        /\ job[w].pc = "query" /\ job[w].o = o
        /\ SameRow(o) /\ SamePay(o) /\ SameGrant(o)
        /\ \/ Idles(w) \/ Moves(w, "close") \/ Moves(w, "mark")
           \/ upstream[o] = "captured" /\ Moves(w, "confirm")
    BY <1>14, <1>2
    DEF QueryUpstream, At, Fault, NoFault, Goto, NotPaid, Return, Idle, rowVars, grantVars,
        Jobs, Touches, Idles, Moves, SameRow, Turns, SamePay, SameGrant, Status
  <2>2. Keeps(w, o)
    BY <1>1, <2>1
    DEF Keeps, RowConsistent, JobConsistent, Creates, Holds, Status, RedeemPcs, PaidSide,
        Settled, RefundStatuses, SameRow, SamePay, SameGrant, Turns
  <2>3. RowConsistent(o)'
    BY <1>1, <1>2, <2>1
    DEF RowConsistent, JobConsistent, Holds, Status, IsSubscription, PaidSide,
        Settled, RefundStatuses, SameRow, SamePay, SameGrant, Turns
  <2>4. GrantConsistent(o)'
    BY <1>2, <2>1, GrantKept
    DEF Completes, Holds, Status, SameRow, SameGrant, Turns, Idles, Moves
  <2>5. job'[w].pc # "idle" => JobConsistent(w)'
    BY <1>1, <2>1
    DEF RowConsistent, JobConsistent, Holds, Status, IsSubscription, RedeemPcs, SameRow,
        SamePay, SameGrant, Turns, Idles, Moves
  <2>6. /\ Creates(w, o)' => Creates(w, o)
        /\ Holds(w, o)' => Holds(w, o)
    BY <1>1, <2>1 DEF Creates, Holds, RedeemPcs, JobConsistent, Idles, Moves
  <2> QED
    BY <2>1, <2>2, <2>3, <2>4, <2>5, <2>6, StepFrame DEF Preserves
<1>15. CASE ClosePayment(w, o)
  <2>1. /\ Touches(w, o)
        /\ job[w].pc = "close" /\ job[w].o = o
        /\ SameRow(o) /\ SameGrant(o)
        /\ SamePay(o) \/ (upstream[o] = "open" /\ upstream'[o] = "closed")
        /\ Idles(w) \/ Moves(w, "mark")
    BY <1>15, <1>2
    DEF ClosePayment, At, NotPaid, Goto, Return, Idle, rowVars, grantVars, Jobs, Touches,
        Idles, Moves, SameRow, Turns, SamePay, SameGrant, Status
  <2>2. Keeps(w, o)
    BY <1>1, <2>1
    DEF Keeps, RowConsistent, JobConsistent, Creates, Holds, Status, RedeemPcs, PaidSide,
        Settled, RefundStatuses, SameRow, SamePay, SameGrant, Turns
  <2>3. RowConsistent(o)'
    BY <1>1, <1>2, <2>1
    DEF RowConsistent, JobConsistent, Holds, Status, IsSubscription, PaidSide,
        Settled, RefundStatuses, SameRow, SamePay, SameGrant, Turns
  <2>4. GrantConsistent(o)'
    BY <1>2, <2>1, GrantKept
    DEF Completes, Holds, Status, SameRow, SameGrant, Turns, Idles, Moves
  <2>5. job'[w].pc # "idle" => JobConsistent(w)'
    BY <1>1, <2>1
    DEF RowConsistent, JobConsistent, Holds, Status, IsSubscription, RedeemPcs, SameRow,
        SamePay, SameGrant, Turns, Idles, Moves
  <2>6. /\ Creates(w, o)' => Creates(w, o)
        /\ Holds(w, o)' => Holds(w, o)
    BY <1>1, <2>1 DEF Creates, Holds, RedeemPcs, JobConsistent, Idles, Moves
  <2> QED
    BY <2>1, <2>2, <2>3, <2>4, <2>5, <2>6, StepFrame DEF Preserves
<1>16. CASE MarkCancelled(w, o)
  <2>1. /\ Touches(w, o)
        /\ job[w].pc = "mark" /\ job[w].o = o
        /\ SamePay(o) /\ SameGrant(o) /\ Idles(w)
        /\ \/ SameRow(o)
           \/ Status(o) = "PENDING" /\ (Turns(o, "CANCELLED") \/ Turns(o, "EXPIRED"))
    BY <1>16, <1>2, <1>3
    DEF MarkCancelled, Cancellable, At, Write, Applied, Outcomes, Return, Status, Fault,
        NoFault, Idle, grantVars, Jobs, Touches, Idles, Moves, SameRow, Turns, SamePay,
        SameGrant
  <2>2. Keeps(w, o)
    BY <1>1, <2>1
    DEF Keeps, RowConsistent, JobConsistent, Creates, Holds, Status, RedeemPcs, PaidSide,
        Settled, RefundStatuses, SameRow, SamePay, SameGrant, Turns
  <2>3. RowConsistent(o)'
    BY <1>1, <1>2, <2>1
    DEF RowConsistent, JobConsistent, Holds, Status, IsSubscription, PaidSide,
        Settled, RefundStatuses, SameRow, SamePay, SameGrant, Turns
  <2>4. GrantConsistent(o)'
    BY <1>2, <2>1, GrantKept
    DEF Settled, RefundStatuses, Completes, Holds, Status, SameRow, SameGrant, Turns, Idles, Moves
  <2>5. job'[w].pc # "idle" => JobConsistent(w)'
    BY <1>1, <2>1
    DEF RowConsistent, JobConsistent, Holds, Status, IsSubscription, RedeemPcs, SameRow,
        SamePay, SameGrant, Turns, Idles, Moves
  <2>6. /\ Creates(w, o)' => Creates(w, o)
        /\ Holds(w, o)' => Holds(w, o)
    BY <1>1, <2>1 DEF Creates, Holds, RedeemPcs, JobConsistent, Idles, Moves
  <2> QED
    BY <2>1, <2>2, <2>3, <2>4, <2>5, <2>6, StepFrame DEF Preserves
<1>17. CASE Confirm(w, o)
  <2>1. /\ Touches(w, o)
        /\ job[w].pc = "confirm" /\ job[w].o = o
        /\ SameRow(o) /\ SamePay(o) /\ SameGrant(o)
        /\ Idles(w) \/ Moves(w, "toPaid")
    BY <1>17, <1>2
    DEF Confirm, At, Fault, NoFault, Return, Goto, Idle, rowVars, grantVars, Jobs, Touches,
        Idles, Moves, SameRow, Turns, SamePay, SameGrant, Status
  <2>2. Keeps(w, o)
    BY <1>1, <2>1
    DEF Keeps, RowConsistent, JobConsistent, Creates, Holds, Status, RedeemPcs, PaidSide,
        Settled, RefundStatuses, SameRow, SamePay, SameGrant, Turns
  <2>3. RowConsistent(o)'
    BY <1>1, <1>2, <2>1
    DEF RowConsistent, JobConsistent, Holds, Status, IsSubscription, PaidSide,
        Settled, RefundStatuses, SameRow, SamePay, SameGrant, Turns
  <2>4. GrantConsistent(o)'
    BY <1>2, <2>1, GrantKept
    DEF Completes, Holds, Status, SameRow, SameGrant, Turns, Idles, Moves
  <2>5. job'[w].pc # "idle" => JobConsistent(w)'
    BY <1>1, <2>1
    DEF RowConsistent, JobConsistent, Holds, Status, IsSubscription, RedeemPcs, SameRow,
        SamePay, SameGrant, Turns, Idles, Moves
  <2>6. /\ Creates(w, o)' => Creates(w, o)
        /\ Holds(w, o)' => Holds(w, o)
    BY <1>1, <2>1 DEF Creates, Holds, RedeemPcs, JobConsistent, Idles, Moves
  <2> QED
    BY <2>1, <2>2, <2>3, <2>4, <2>5, <2>6, StepFrame DEF Preserves
<1>18. CASE ToPaid(w, o)
  <2>1. /\ Touches(w, o)
        /\ job[w].pc = "toPaid" /\ job[w].o = o
        /\ SamePay(o) /\ SameGrant(o)
        /\ \/ SameRow(o) /\ (Idles(w) \/ Moves(w, "recheck"))
           \/ /\ Status(o) \in {"PENDING", "CANCELLED", "EXPIRED"}
              /\ order'[o].status = "PAID" /\ order'[o].paidAt /\ order'[o].kind = order[o].kind
              /\ Idles(w) \/ Moves(w, "fulfil")
    <3>1. PICK out \in Outcomes :
            /\ Write(out)
            /\ IF Applied(out) /\ Payable(o)
               THEN order' = [order EXCEPT ![o].status = "PAID", ![o].paidAt = TRUE,
                                           ![o].trade = job[w].trade, ![o].late = FALSE]
               ELSE UNCHANGED order
            /\ IF out # "ok" THEN Return(w, o, "no")
               ELSE Goto(w, IF Payable(o) THEN "fulfil" ELSE "recheck") /\ UNCHANGED acked
      BY <1>18 DEF ToPaid
    <3>2. /\ \A p \in Orders : p # o => order'[p] = order[p]
          /\ \/ SameRow(o) /\ (out = "ok" => ~Payable(o))
             \/ /\ Payable(o)
                /\ order'[o].status = "PAID" /\ order'[o].paidAt /\ order'[o].kind = order[o].kind
      <4>1. CASE Applied(out) /\ Payable(o)
        BY <1>5, <3>1, <4>1
      <4>2. CASE ~(Applied(out) /\ Payable(o))
        BY <3>1, <4>2 DEF Applied, SameRow, Turns, Status
      <4> QED
        BY <4>1, <4>2
    <3>3. /\ \A v \in Workers : v # w => job'[v] = job[v]
          /\ Idles(w) \/ (out = "ok" /\ Moves(w, IF Payable(o) THEN "fulfil" ELSE "recheck"))
          /\ faults' \in Nat /\ faults' >= faults
      BY <1>2, <3>1
      DEF Return, Goto, Idle, Jobs, Idles, Moves, Write, Fault, NoFault, Outcomes
    <3>4. /\ job[w].pc = "toPaid" /\ job[w].o = o
          /\ UNCHANGED <<upstream, audited, code, granted, erased>>
      BY <1>18 DEF ToPaid, At, grantVars
    <3> QED
      BY <3>2, <3>3, <3>4 DEF Touches, Idles, Moves, SamePay, SameGrant, Payable, Status
  <2>2. Keeps(w, o)
    BY <1>1, <2>1
    DEF Keeps, RowConsistent, JobConsistent, Creates, Holds, Status, RedeemPcs, PaidSide,
        Settled, RefundStatuses, SameRow, SamePay, SameGrant, Turns
  <2>3. RowConsistent(o)'
    BY <1>1, <1>2, <2>1
    DEF RowConsistent, JobConsistent, Holds, Status, IsSubscription, PaidSide,
        Settled, RefundStatuses, SameRow, SamePay, SameGrant, Turns
  <2>4. GrantConsistent(o)'
    BY <1>2, <2>1, GrantKept
    DEF Settled, RefundStatuses, Completes, Holds, Status, SameRow, SameGrant, Turns, Idles, Moves
  <2>5. job'[w].pc # "idle" => JobConsistent(w)'
    BY <1>1, <2>1
    DEF RowConsistent, JobConsistent, Holds, Status, IsSubscription, RedeemPcs, SameRow,
        SamePay, SameGrant, Turns, Idles, Moves
  <2>6. /\ Creates(w, o)' => Creates(w, o)
        /\ Holds(w, o)' => Holds(w, o)
    BY <1>1, <2>1 DEF Creates, Holds, RedeemPcs, JobConsistent, Idles, Moves
  <2> QED
    BY <2>1, <2>2, <2>3, <2>4, <2>5, <2>6, StepFrame DEF Preserves
<1>19. CASE AlreadyProcessed(w, o)
  <2>1. /\ Touches(w, o)
        /\ job[w].pc = "recheck" /\ job[w].o = o
        /\ SameRow(o) /\ SamePay(o) /\ SameGrant(o)
        /\ Idles(w) \/ (Status(o) = "FAILED" /\ Moves(w, "fulfil"))
    BY <1>19, <1>2
    DEF AlreadyProcessed, At, Fault, NoFault, Return, Goto, Status, Idle, rowVars,
        grantVars, Jobs, Touches, Idles, Moves, SameRow, Turns, SamePay, SameGrant
  <2>2. Keeps(w, o)
    BY <1>1, <2>1
    DEF Keeps, RowConsistent, JobConsistent, Creates, Holds, Status, RedeemPcs, PaidSide,
        Settled, RefundStatuses, SameRow, SamePay, SameGrant, Turns
  <2>3. RowConsistent(o)'
    BY <1>1, <1>2, <2>1
    DEF RowConsistent, JobConsistent, Holds, Status, IsSubscription, PaidSide,
        Settled, RefundStatuses, SameRow, SamePay, SameGrant, Turns
  <2>4. GrantConsistent(o)'
    BY <1>2, <2>1, GrantKept
    DEF Completes, Holds, Status, SameRow, SameGrant, Turns, Idles, Moves
  <2>5. job'[w].pc # "idle" => JobConsistent(w)'
    BY <1>1, <2>1
    DEF RowConsistent, JobConsistent, Holds, Status, IsSubscription, RedeemPcs, SameRow,
        SamePay, SameGrant, Turns, Idles, Moves
  <2>6. /\ Creates(w, o)' => Creates(w, o)
        /\ Holds(w, o)' => Holds(w, o)
    BY <1>1, <2>1 DEF Creates, Holds, RedeemPcs, JobConsistent, Idles, Moves
  <2> QED
    BY <2>1, <2>2, <2>3, <2>4, <2>5, <2>6, StepFrame DEF Preserves
<1>20. CASE ResetForRetry(w, o)
  <2>1. /\ Touches(w, o)
        /\ job[w].pc = "reset" /\ job[w].o = o
        /\ SamePay(o) /\ SameGrant(o)
        /\ SameRow(o) \/ (Status(o) \in {"FAILED", "PAID"} /\ Turns(o, "PAID"))
        /\ Idles(w) \/ Moves(w, "fulfil")
    BY <1>20, <1>2, <1>3
    DEF ResetForRetry, At, Write, Applied, Outcomes, Return, Goto, Status, Fault, NoFault,
        Idle, grantVars, Jobs, Touches, Idles, Moves, SameRow, Turns, SamePay, SameGrant
  <2>2. Keeps(w, o)
    BY <1>1, <2>1
    DEF Keeps, RowConsistent, JobConsistent, Creates, Holds, Status, RedeemPcs, PaidSide,
        Settled, RefundStatuses, SameRow, SamePay, SameGrant, Turns
  <2>3. RowConsistent(o)'
    BY <1>1, <1>2, <2>1
    DEF RowConsistent, JobConsistent, Holds, Status, IsSubscription, PaidSide,
        Settled, RefundStatuses, SameRow, SamePay, SameGrant, Turns
  <2>4. GrantConsistent(o)'
    BY <1>2, <2>1, GrantKept
    DEF Settled, RefundStatuses, Completes, Holds, Status, SameRow, SameGrant, Turns, Idles, Moves
  <2>5. job'[w].pc # "idle" => JobConsistent(w)'
    BY <1>1, <2>1
    DEF RowConsistent, JobConsistent, Holds, Status, IsSubscription, RedeemPcs, SameRow,
        SamePay, SameGrant, Turns, Idles, Moves
  <2>6. /\ Creates(w, o)' => Creates(w, o)
        /\ Holds(w, o)' => Holds(w, o)
    BY <1>1, <2>1 DEF Creates, Holds, RedeemPcs, JobConsistent, Idles, Moves
  <2> QED
    BY <2>1, <2>2, <2>3, <2>4, <2>5, <2>6, StepFrame DEF Preserves
<1>21. CASE Fulfil(w, o)
  <2>1. /\ Touches(w, o)
        /\ job[w].pc = "fulfil" /\ job[w].o = o
        /\ SameRow(o) /\ SamePay(o) /\ SameGrant(o)
        /\ Idles(w) \/ Moves(w, "claim")
    BY <1>21, <1>2
    DEF Fulfil, At, Fault, NoFault, Return, Goto, Status, Idle, rowVars, grantVars, Jobs,
        Touches, Idles, Moves, SameRow, Turns, SamePay, SameGrant
  <2>2. Keeps(w, o)
    BY <1>1, <2>1
    DEF Keeps, RowConsistent, JobConsistent, Creates, Holds, Status, RedeemPcs, PaidSide,
        Settled, RefundStatuses, SameRow, SamePay, SameGrant, Turns
  <2>3. RowConsistent(o)'
    BY <1>1, <1>2, <2>1
    DEF RowConsistent, JobConsistent, Holds, Status, IsSubscription, PaidSide,
        Settled, RefundStatuses, SameRow, SamePay, SameGrant, Turns
  <2>4. GrantConsistent(o)'
    BY <1>2, <2>1, GrantKept
    DEF Completes, Holds, Status, SameRow, SameGrant, Turns, Idles, Moves
  <2>5. job'[w].pc # "idle" => JobConsistent(w)'
    BY <1>1, <2>1
    DEF RowConsistent, JobConsistent, Holds, Status, IsSubscription, RedeemPcs, SameRow,
        SamePay, SameGrant, Turns, Idles, Moves
  <2>6. /\ Creates(w, o)' => Creates(w, o)
        /\ Holds(w, o)' => Holds(w, o)
    BY <1>1, <2>1 DEF Creates, Holds, RedeemPcs, JobConsistent, Idles, Moves
  <2> QED
    BY <2>1, <2>2, <2>3, <2>4, <2>5, <2>6, StepFrame DEF Preserves
<1>22. CASE Claim(w, o)
  <2>1. /\ Touches(w, o)
        /\ job[w].pc = "claim" /\ job[w].o = o
        /\ SamePay(o) /\ SameGrant(o)
        /\ \/ SameRow(o) /\ Idles(w)
           \/ /\ Status(o) \in {"FAILED", "PAID"} /\ Turns(o, "RECHARGING")
              /\ Idles(w) \/ Moves(w, "lookup")
    BY <1>22, <1>2, <1>3
    DEF Claim, At, Write, Applied, Outcomes, Return, Goto, Claimable, Fault, NoFault,
        Status, Idle, grantVars, Jobs, Touches, Idles, Moves, SameRow, Turns, SamePay,
        SameGrant
  <2>2. Keeps(w, o)
    BY <1>1, <2>1
    DEF Keeps, RowConsistent, JobConsistent, Creates, Holds, Status, RedeemPcs, PaidSide,
        Settled, RefundStatuses, SameRow, SamePay, SameGrant, Turns
  <2>3. RowConsistent(o)'
    BY <1>1, <1>2, <2>1
    DEF RowConsistent, JobConsistent, Holds, Status, IsSubscription, PaidSide,
        Settled, RefundStatuses, SameRow, SamePay, SameGrant, Turns
  <2>4. GrantConsistent(o)'
    BY <1>2, <2>1, GrantKept
    DEF Settled, RefundStatuses, Completes, Holds, Status, SameRow, SameGrant, Turns, Idles, Moves
  <2>5. job'[w].pc # "idle" => JobConsistent(w)'
    BY <1>1, <2>1
    DEF RowConsistent, JobConsistent, Holds, Status, IsSubscription, RedeemPcs, SameRow,
        SamePay, SameGrant, Turns, Idles, Moves
  <2>6. /\ Creates(w, o)' => Creates(w, o)
        /\ Holds(w, o)' => \A v \in Workers : ~Holds(v, o)
    BY <1>1, <2>1 DEF Settled, RefundStatuses, Creates, Holds, RedeemPcs, JobConsistent, Status, Idles, Moves
  <2> QED
    BY <2>1, <2>2, <2>3, <2>4, <2>5, <2>6, StepFrame DEF Preserves
<1>23. CASE LookupCode(w, o)
  <2>1. /\ Touches(w, o)
        /\ job[w].pc = "lookup" /\ job[w].o = o
        /\ SameRow(o) /\ SamePay(o) /\ SameGrant(o)
        /\ ~IsSubscription(o)
        /\ \/ Moves(w, "create") \/ (code[o] = "unused" /\ Moves(w, "lock"))
           \/ code[o] = "used" /\ Moves(w, "complete")
    BY <1>23, <1>2
    DEF LookupCode, RedeemAction, At, Fault, NoFault, Goto, IsSubscription, rowVars,
        grantVars, Jobs, Codes, Touches, Idles, Moves, SameRow, Turns, SamePay, SameGrant,
        Status
  <2>2. Keeps(w, o)
    BY <1>1, <2>1
    DEF Keeps, RowConsistent, JobConsistent, Creates, Holds, Status, RedeemPcs, PaidSide,
        Settled, RefundStatuses, SameRow, SamePay, SameGrant, Turns
  <2>3. RowConsistent(o)'
    BY <1>1, <1>2, <2>1
    DEF RowConsistent, JobConsistent, Holds, Status, IsSubscription, PaidSide,
        Settled, RefundStatuses, SameRow, SamePay, SameGrant, Turns
  <2>4. GrantConsistent(o)'
    BY <1>2, <2>1, GrantKept
    DEF Completes, Holds, Status, SameRow, SameGrant, Turns, Idles, Moves
  <2>5. job'[w].pc # "idle" => JobConsistent(w)'
    BY <1>1, <2>1
    DEF RowConsistent, JobConsistent, Holds, Status, IsSubscription, RedeemPcs, SameRow,
        SamePay, SameGrant, Turns, Idles, Moves
  <2>6. /\ Creates(w, o)' => Creates(w, o)
        /\ Holds(w, o)' => Holds(w, o)
    BY <1>1, <2>1 DEF Creates, Holds, RedeemPcs, JobConsistent, Idles, Moves
  <2> QED
    BY <2>1, <2>2, <2>3, <2>4, <2>5, <2>6, StepFrame DEF Preserves
<1>24. CASE CreateCode(w, o)
  <2>1. /\ Touches(w, o)
        /\ job[w].pc = "create" /\ job[w].o = o
        /\ SameRow(o) /\ SamePay(o) /\ granted'[o] = granted[o] /\ audited'[o] = audited[o]
        /\ code'[o] = code[o] \/ (code[o] = "none" /\ code'[o] = "unused")
        /\ Moves(w, "lock") \/ Moves(w, "fail")
    BY <1>24, <1>2
    DEF CreateCode, At, Write, Applied, Outcomes, Goto, Fault, NoFault, rowVars, Jobs,
        Touches, Idles, Moves, SameRow, Turns, SamePay, SameGrant, Status
  <2>2. Keeps(w, o)
    BY <1>1, <2>1
    DEF Keeps, RowConsistent, JobConsistent, Creates, Holds, Status, RedeemPcs, PaidSide,
        Settled, RefundStatuses, SameRow, SamePay, SameGrant, Turns
  <2>3. RowConsistent(o)'
    BY <1>1, <1>2, <2>1
    DEF RowConsistent, JobConsistent, Holds, Status, IsSubscription, PaidSide,
        Settled, RefundStatuses, SameRow, SamePay, SameGrant, Turns
  <2>4. GrantConsistent(o)'
    BY <1>2, <2>1, GrantKept
    DEF Completes, Holds, Status, SameRow, SameGrant, Turns, Idles, Moves
  <2>5. job'[w].pc # "idle" => JobConsistent(w)'
    BY <1>1, <2>1
    DEF RowConsistent, JobConsistent, Holds, Status, IsSubscription, RedeemPcs, SameRow,
        SamePay, SameGrant, Turns, Idles, Moves
  <2>6. /\ Creates(w, o)' => Creates(w, o)
        /\ Holds(w, o)' => Holds(w, o)
    BY <1>1, <2>1 DEF Creates, Holds, RedeemPcs, JobConsistent, Idles, Moves
  <2> QED
    BY <2>1, <2>2, <2>3, <2>4, <2>5, <2>6, StepFrame DEF Preserves
<1>25. CASE LookupAssignment(w, o)
  <2>1. /\ Touches(w, o)
        /\ job[w].pc = "lookup" /\ job[w].o = o
        /\ SameRow(o) /\ SamePay(o) /\ SameGrant(o)
        /\ IsSubscription(o)
        /\ \/ audited[o] /\ Moves(w, "complete")
           \/ Moves(w, "assign") \/ Moves(w, "fail")
    BY <1>25, <1>2
    DEF LookupAssignment, At, Fault, NoFault, Goto, IsSubscription, rowVars, grantVars,
        Jobs, Touches, Idles, Moves, SameRow, Turns, SamePay, SameGrant, Status
  <2>2. Keeps(w, o)
    BY <1>1, <2>1
    DEF Keeps, RowConsistent, JobConsistent, Creates, Holds, Status, RedeemPcs, PaidSide,
        Settled, RefundStatuses, SameRow, SamePay, SameGrant, Turns
  <2>3. RowConsistent(o)'
    BY <1>1, <1>2, <2>1
    DEF RowConsistent, JobConsistent, Holds, Status, IsSubscription, PaidSide,
        Settled, RefundStatuses, SameRow, SamePay, SameGrant, Turns
  <2>4. GrantConsistent(o)'
    BY <1>2, <2>1, GrantKept
    DEF Completes, Holds, Status, SameRow, SameGrant, Turns, Idles, Moves
  <2>5. job'[w].pc # "idle" => JobConsistent(w)'
    BY <1>1, <2>1
    DEF RowConsistent, JobConsistent, Holds, Status, IsSubscription, RedeemPcs, SameRow,
        SamePay, SameGrant, Turns, Idles, Moves
  <2>6. /\ Creates(w, o)' => Creates(w, o)
        /\ Holds(w, o)' => Holds(w, o)
    BY <1>1, <2>1 DEF Creates, Holds, RedeemPcs, JobConsistent, Idles, Moves
  <2> QED
    BY <2>1, <2>2, <2>3, <2>4, <2>5, <2>6, StepFrame DEF Preserves
<1>26. CASE Assign(w, o)
  <2>1. /\ Touches(w, o)
        /\ job[w].pc = "assign" /\ job[w].o = o
        /\ SameRow(o) /\ SamePay(o) /\ code'[o] = code[o] /\ audited'[o] = audited[o]
        /\ \/ granted'[o] = granted[o] + 1 /\ faults' = faults /\ Moves(w, "complete")
           \/ /\ granted'[o] \in {granted[o], granted[o] + 1}
              /\ faults' = faults + 1 /\ Moves(w, "fail")
    BY <1>26, <1>2
    DEF Assign, At, Write, Applied, Outcomes, Goto, Fault, NoFault, rowVars, Jobs, Touches,
        Idles, Moves, SameRow, Turns, SamePay, SameGrant, Status
  <2>2. Keeps(w, o)
    BY <1>1, <1>2, <2>1
    DEF Keeps, RowConsistent, JobConsistent, Creates, Holds, Status, RedeemPcs, PaidSide,
        Settled, RefundStatuses, SameRow, SamePay, SameGrant, Turns
  <2>3. RowConsistent(o)'
    BY <1>1, <1>2, <2>1
    DEF RowConsistent, JobConsistent, Holds, Status, IsSubscription, PaidSide,
        Settled, RefundStatuses, SameRow, SamePay, SameGrant, Turns
  <2>4. GrantConsistent(o)'
    <3>1. IsSubscription(o) /\ Status(o) = "RECHARGING" /\ IsSubscription(o)'
      BY <1>1, <2>1 DEF JobConsistent, Holds, RedeemPcs, IsSubscription, SameRow, Turns
    <3>2. \A v \in Workers : ~Completes(v, o)
      BY <1>1, <2>1, <3>1
      DEF FulfilmentExclusive, Completes, Holds, JobConsistent, RedeemPcs
    <3>3. granted[o] <= faults
      BY <1>1, <1>2, <3>1, <3>2 DEF Settled, RefundStatuses, GrantConsistent, Status
    <3>4. ASSUME granted'[o] > faults'
          PROVE  granted'[o] = faults' + 1 /\ Completes(w, o)'
      BY <1>1, <1>2, <2>1, <3>3, <3>4 DEF Completes, Holds, Moves, JobConsistent, RedeemPcs
    <3>5. erased'[o] <= granted'[o]
      <4>1. erased[o] <= granted[o] /\ erased[o] \in Nat /\ granted[o] \in Nat
        BY DEF Consistent, GrantConsistent, TypeOK
      <4> QED
        BY <2>1, <4>1 DEF Touches
    <3> QED
      BY <3>1, <3>4, <3>5 DEF GrantConsistent
  <2>5. job'[w].pc # "idle" => JobConsistent(w)'
    BY <1>1, <1>2, <2>1
    DEF RowConsistent, JobConsistent, Holds, Status, IsSubscription, RedeemPcs, SameRow,
        SamePay, SameGrant, Turns, Idles, Moves
  <2>6. /\ Creates(w, o)' => Creates(w, o)
        /\ Holds(w, o)' => Holds(w, o)
    BY <1>1, <2>1 DEF Creates, Holds, RedeemPcs, JobConsistent, Idles, Moves
  <2> QED
    BY <2>1, <2>2, <2>3, <2>4, <2>5, <2>6, StepFrame DEF Preserves
<1>27. CASE AcquireRedeemLock(w, o)
  <2>1. /\ Touches(w, o)
        /\ job[w].pc = "lock" /\ job[w].o = o
        /\ SameRow(o) /\ SamePay(o) /\ SameGrant(o)
        /\ \/ Moves(w, "find") \/ (job[w].flow = "redeem" /\ Idles(w))
           \/ job[w].flow # "redeem" /\ Moves(w, "fail")
    BY <1>27, <1>2
    DEF AcquireRedeemLock, At, Fault, NoFault, Goto, Redeemed, Idle, rowVars, Jobs, Touches,
        Idles, Moves, SameRow, Turns, SamePay, SameGrant, Status
  <2>2. Keeps(w, o)
    BY <1>1, <2>1
    DEF Keeps, RowConsistent, JobConsistent, Creates, Holds, Status, RedeemPcs, PaidSide,
        Settled, RefundStatuses, SameRow, SamePay, SameGrant, Turns
  <2>3. RowConsistent(o)'
    BY <1>1, <1>2, <2>1
    DEF RowConsistent, JobConsistent, Holds, Status, IsSubscription, PaidSide,
        Settled, RefundStatuses, SameRow, SamePay, SameGrant, Turns
  <2>4. GrantConsistent(o)'
    BY <1>2, <2>1, GrantKept
    DEF Completes, Holds, Status, SameRow, SameGrant, Turns, Idles, Moves
  <2>5. job'[w].pc # "idle" => JobConsistent(w)'
    BY <1>1, <2>1
    DEF RowConsistent, JobConsistent, Holds, Status, IsSubscription, RedeemPcs, SameRow,
        SamePay, SameGrant, Turns, Idles, Moves
  <2>6. /\ Creates(w, o)' => Creates(w, o)
        /\ Holds(w, o)' => Holds(w, o)
    BY <1>1, <2>1 DEF Creates, Holds, RedeemPcs, JobConsistent, Idles, Moves
  <2> QED
    BY <2>1, <2>2, <2>3, <2>4, <2>5, <2>6, StepFrame DEF Preserves
<1>28. CASE FindCode(w, o)
  <2>1. /\ Touches(w, o)
        /\ job[w].pc = "find" /\ job[w].o = o
        /\ SameRow(o) /\ SamePay(o) /\ SameGrant(o)
        /\ job'[w].o = o /\ job'[w].flow = job[w].flow
        /\ job'[w].pc = "redeem" \/ (job'[w].pc = "release" /\ job'[w].err)
    BY <1>28, <1>2
    DEF FindCode, At, Fault, NoFault, RedeemStep, rowVars, grantVars, Jobs, Touches, Idles,
        Moves, SameRow, Turns, SamePay, SameGrant, Status
  <2>2. Keeps(w, o)
    BY <1>1, <2>1
    DEF Keeps, RowConsistent, JobConsistent, Creates, Holds, Status, RedeemPcs, PaidSide,
        Settled, RefundStatuses, SameRow, SamePay, SameGrant, Turns
  <2>3. RowConsistent(o)'
    BY <1>1, <1>2, <2>1
    DEF RowConsistent, JobConsistent, Holds, Status, IsSubscription, PaidSide,
        Settled, RefundStatuses, SameRow, SamePay, SameGrant, Turns
  <2>4. GrantConsistent(o)'
    BY <1>2, <2>1, GrantKept
    DEF Completes, Holds, Status, SameRow, SameGrant, Turns, Idles, Moves
  <2>5. job'[w].pc # "idle" => JobConsistent(w)'
    BY <1>1, <2>1
    DEF RowConsistent, JobConsistent, Holds, Status, IsSubscription, RedeemPcs, SameRow,
        SamePay, SameGrant, Turns, Idles, Moves
  <2>6. /\ Creates(w, o)' => Creates(w, o)
        /\ Holds(w, o)' => Holds(w, o)
    BY <1>1, <2>1 DEF Creates, Holds, RedeemPcs, JobConsistent, Idles, Moves
  <2> QED
    BY <2>1, <2>2, <2>3, <2>4, <2>5, <2>6, StepFrame DEF Preserves
<1>29. CASE RedeemTx(w, o)
  <2>1. /\ Touches(w, o)
        /\ job[w].pc = "redeem" /\ job[w].o = o
        /\ SameRow(o) /\ SamePay(o) /\ audited'[o] = audited[o]
        /\ job'[w].pc = "release" /\ job'[w].o = o /\ job'[w].flow = job[w].flow
        /\ \/ code[o] = "unused" /\ code'[o] = "used" /\ granted'[o] = granted[o] + 1
           \/ code'[o] = code[o] /\ granted'[o] = granted[o] /\ job'[w].err
    BY <1>29, <1>2
    DEF RedeemTx, At, Write, Applied, Outcomes, RedeemStep, Usable, Fault, NoFault, rowVars,
        Jobs, Touches, Idles, Moves, SameRow, Turns, SamePay, SameGrant, Status
  <2>2. Keeps(w, o)
    BY <1>1, <1>2, <2>1
    DEF Keeps, RowConsistent, JobConsistent, Creates, Holds, Status, RedeemPcs, PaidSide,
        Settled, RefundStatuses, SameRow, SamePay, SameGrant, Turns
  <2>3. RowConsistent(o)'
    BY <1>1, <1>2, <2>1
    DEF RowConsistent, JobConsistent, Holds, Status, IsSubscription, PaidSide,
        Settled, RefundStatuses, SameRow, SamePay, SameGrant, Turns
  <2>4. GrantConsistent(o)'
    <3>1. ~IsSubscription(o) /\ ~IsSubscription(o)'
      BY <1>1, <2>1 DEF JobConsistent, RedeemPcs, IsSubscription, SameRow, Turns
    <3>2. erased' = erased /\ erased[o] \in Nat /\ granted[o] \in Nat /\ GrantConsistent(o)
      BY <2>1 DEF Touches, Consistent, TypeOK
    <3> QED
      BY <2>1, <3>1, <3>2 DEF GrantConsistent
  <2>5. job'[w].pc # "idle" => JobConsistent(w)'
    BY <1>1, <1>2, <2>1
    DEF RowConsistent, JobConsistent, Holds, Status, IsSubscription, RedeemPcs, SameRow,
        SamePay, SameGrant, Turns, Idles, Moves
  <2>6. /\ Creates(w, o)' => Creates(w, o)
        /\ Holds(w, o)' => Holds(w, o)
    BY <1>1, <2>1 DEF Creates, Holds, RedeemPcs, JobConsistent, Idles, Moves
  <2> QED
    BY <2>1, <2>2, <2>3, <2>4, <2>5, <2>6, StepFrame DEF Preserves
<1>30. CASE ReleaseRedeemLock(w, o)
  <2>1. /\ Touches(w, o)
        /\ job[w].pc = "release" /\ job[w].o = o
        /\ SameRow(o) /\ SamePay(o) /\ SameGrant(o)
        /\ \/ job[w].flow = "redeem" /\ Idles(w)
           \/ job[w].flow # "redeem" /\ job[w].err /\ Moves(w, "fail")
           \/ job[w].flow # "redeem" /\ ~job[w].err /\ Moves(w, "complete")
    BY <1>30, <1>2
    DEF ReleaseRedeemLock, At, Fault, NoFault, Redeemed, Goto, Idle, rowVars, Jobs, Touches,
        Idles, Moves, SameRow, Turns, SamePay, SameGrant, Status
  <2>2. Keeps(w, o)
    BY <1>1, <2>1
    DEF Keeps, RowConsistent, JobConsistent, Creates, Holds, Status, RedeemPcs, PaidSide,
        Settled, RefundStatuses, SameRow, SamePay, SameGrant, Turns
  <2>3. RowConsistent(o)'
    BY <1>1, <1>2, <2>1
    DEF RowConsistent, JobConsistent, Holds, Status, IsSubscription, PaidSide,
        Settled, RefundStatuses, SameRow, SamePay, SameGrant, Turns
  <2>4. GrantConsistent(o)'
    BY <1>2, <2>1, GrantKept
    DEF Completes, Holds, Status, SameRow, SameGrant, Turns, Idles, Moves
  <2>5. job'[w].pc # "idle" => JobConsistent(w)'
    BY <1>1, <2>1
    DEF RowConsistent, JobConsistent, Holds, Status, IsSubscription, RedeemPcs, SameRow,
        SamePay, SameGrant, Turns, Idles, Moves
  <2>6. /\ Creates(w, o)' => Creates(w, o)
        /\ Holds(w, o)' => Holds(w, o)
    BY <1>1, <2>1 DEF Creates, Holds, RedeemPcs, JobConsistent, Idles, Moves
  <2> QED
    BY <2>1, <2>2, <2>3, <2>4, <2>5, <2>6, StepFrame DEF Preserves
<1>31. CASE MarkCompleted(w, o)
  <2>1. /\ Touches(w, o)
        /\ job[w].pc = "complete" /\ job[w].o = o
        /\ SamePay(o) /\ code'[o] = code[o] /\ granted'[o] = granted[o]
        /\ \/ Turns(o, "COMPLETED") /\ Idles(w)
           \/ /\ SameRow(o) \/ Turns(o, "COMPLETED")
              /\ audited'[o] = audited[o] /\ faults' = faults + 1 /\ Moves(w, "fail")
    <3>1. job[w].pc = "complete" /\ job[w].o = o /\ Status(o) = "RECHARGING"
      BY <1>31, <1>1 DEF MarkCompleted, At, JobConsistent, Holds, RedeemPcs
    <3> QED
      BY <1>31, <1>2, <1>3, <3>1
      DEF MarkCompleted, At, Write, Applied, Outcomes, Return, Goto, Status, Fault, NoFault,
          Idle, grantVars, Jobs, Touches, Idles, Moves, SameRow, Turns, SamePay, SameGrant
  <2>2. Keeps(w, o)
    BY <1>1, <2>1
    DEF Keeps, FulfilmentExclusive, RowConsistent, JobConsistent, Creates, Holds, Status,
        RedeemPcs, PaidSide, Settled, RefundStatuses, SameRow, SamePay, SameGrant, Turns
  <2>3. RowConsistent(o)'
    BY <1>1, <1>2, <2>1
    DEF RowConsistent, JobConsistent, Holds, Status, IsSubscription, PaidSide,
        Settled, RefundStatuses, SameRow, SamePay, SameGrant, Turns
  <2>4. GrantConsistent(o)'
    BY <1>2, <2>1, GrantKept
    DEF Settled, RefundStatuses, Completes, Holds, Status, SameRow, SameGrant, Turns, Idles, Moves
  <2>5. job'[w].pc # "idle" => JobConsistent(w)'
    BY <1>1, <2>1
    DEF Settled, RefundStatuses, RowConsistent, JobConsistent, Holds, Status, IsSubscription, RedeemPcs, SameRow,
        SamePay, SameGrant, Turns, Idles, Moves
  <2>6. /\ Creates(w, o)' => Creates(w, o)
        /\ Holds(w, o)' => Holds(w, o)
    BY <1>1, <2>1 DEF Creates, Holds, RedeemPcs, JobConsistent, Idles, Moves
  <2> QED
    BY <2>1, <2>2, <2>3, <2>4, <2>5, <2>6, StepFrame DEF Preserves
<1>32. CASE MarkFailed(w, o)
  <2>1. /\ Touches(w, o)
        /\ job[w].pc = "fail" /\ job[w].o = o
        /\ SamePay(o) /\ SameGrant(o) /\ Idles(w)
        /\ SameRow(o) \/ (Status(o) = "RECHARGING" /\ Turns(o, "FAILED"))
    BY <1>32, <1>2, <1>3
    DEF MarkFailed, At, Write, Applied, Outcomes, Return, Status, Fault, NoFault, Idle,
        grantVars, Jobs, Touches, Idles, Moves, SameRow, Turns, SamePay, SameGrant
  <2>2. Keeps(w, o)
    BY <1>1, <2>1
    DEF Keeps, FulfilmentExclusive, RowConsistent, JobConsistent, Creates, Holds, Status,
        RedeemPcs, PaidSide, Settled, RefundStatuses, SameRow, SamePay, SameGrant, Turns
  <2>3. RowConsistent(o)'
    BY <1>1, <1>2, <2>1
    DEF RowConsistent, JobConsistent, Holds, Status, IsSubscription, PaidSide,
        Settled, RefundStatuses, SameRow, SamePay, SameGrant, Turns
  <2>4. GrantConsistent(o)'
    BY <1>2, <2>1, GrantKept
    DEF Settled, RefundStatuses, Completes, Holds, Status, SameRow, SameGrant, Turns, Idles, Moves
  <2>5. job'[w].pc # "idle" => JobConsistent(w)'
    BY <1>1, <2>1
    DEF RowConsistent, JobConsistent, Holds, Status, IsSubscription, RedeemPcs, SameRow,
        SamePay, SameGrant, Turns, Idles, Moves
  <2>6. /\ Creates(w, o)' => Creates(w, o)
        /\ Holds(w, o)' => Holds(w, o)
    BY <1>1, <2>1 DEF Creates, Holds, RedeemPcs, JobConsistent, Idles, Moves
  <2> QED
    BY <2>1, <2>2, <2>3, <2>4, <2>5, <2>6, StepFrame DEF Preserves
<1> QED
  BY <1>11, <1>12, <1>13, <1>14, <1>15, <1>16, <1>17, <1>18, <1>19, <1>20, <1>21, <1>22,
         <1>23, <1>24, <1>25, <1>26, <1>27, <1>28, <1>29, <1>30, <1>31, <1>32 DEF Step

\* So does every step that takes up new work.
LEMMA StartConsistent ==
  ASSUME TypeOK, Consistent, NEW w \in Workers, NEW o \in Orders, Start(w, o)
  PROVE  Consistent' /\ Forward
<1>1. RowConsistent(o) /\ \A v \in Workers : job[v].pc # "idle" => JobConsistent(v)
  BY DEF Consistent
<1>2. job \in [Workers -> Jobs] /\ faults \in Nat
  BY DEF TypeOK
<1>3. /\ Touches(w, o) /\ SameRow(o) /\ SamePay(o) /\ SameGrant(o)
      /\ job[w].pc = "idle" /\ job'[w].o = o
      /\ \/ /\ job'[w].pc = "insert" /\ job'[w].flow = "create" /\ Status(o) = "NONE"
            /\ \A v \in Workers : job[v].o # o
         \/ job'[w].pc = "query" /\ job'[w].flow \in {"cancel", "expire", "verify"}
         \/ job'[w].pc = "confirm" /\ job'[w].flow = "webhook" /\ upstream[o] = "captured"
         \/ job'[w].pc = "reset" /\ job'[w].flow = "retry" /\ order[o].paidAt
         \/ job'[w].pc = "lock" /\ job'[w].flow = "redeem" /\ code[o] # "none"
  <2>1. UNCHANGED <<order, upstream, code, audited, granted, erased, faults>>
    BY DEF Start, CreateOrder, StartCancel, StartVerify, Webhook, RetryFulfillment,
           UserRedeems, grantVars
  <2>2. PICK pc, flow, trade :
          /\ Fresh(w, o, pc, flow, trade)
          /\ \/ /\ pc = "insert" /\ flow = "create" /\ Status(o) = "NONE"
                /\ \A v \in Workers : job[v].o # o
             \/ pc = "query" /\ flow \in {"cancel", "expire", "verify"}
             \/ pc = "confirm" /\ flow = "webhook" /\ upstream[o] = "captured"
             \/ pc = "reset" /\ flow = "retry" /\ order[o].paidAt
             \/ pc = "lock" /\ flow = "redeem" /\ code[o] # "none"
    BY DEF Start, CreateOrder, StartCancel, StartVerify, Webhook, RetryFulfillment,
           Retryable, UserRedeems
  <2> QED
    BY <1>2, <2>1, <2>2
    DEF Fresh, Touches, SameRow, Turns, SamePay, SameGrant, Status, Jobs
<1>4. Keeps(w, o)
  BY <1>1, <1>3 DEF Keeps, JobConsistent, Status, SameRow, SamePay, SameGrant, Turns
<1>5. RowConsistent(o)'
  BY <1>1, <1>3
  DEF RowConsistent, Status, IsSubscription, SameRow, SamePay, SameGrant, Turns
<1>6. GrantConsistent(o)'
  BY <1>3, GrantKept DEF Completes, Status, SameRow, SameGrant, Turns
<1>7. job'[w].pc # "idle" => JobConsistent(w)'
  BY <1>1, <1>3 DEF RowConsistent, JobConsistent, Holds, Status, IsSubscription, RedeemPcs,
                    SameRow, SamePay, Turns
<1>8. /\ Creates(w, o)' => \A v \in Workers : ~Creates(v, o)
      /\ ~Holds(w, o)'
  BY <1>3 DEF Creates, Holds, RedeemPcs
<1> QED
  BY <1>3, <1>4, <1>5, <1>6, <1>7, <1>8, StepFrame DEF Preserves

\* A step that changes no job but its own fields of the order, and the columns
\* only as the customer, the clock and the lock's expiry do.
LEMMA EnvironmentConsistent ==
  ASSUME TypeOK, Consistent, NEW o \in Orders, Environment(o)
  PROVE  Consistent' /\ Forward
<1>1. /\ \A p \in Orders : RowConsistent(p) /\ GrantConsistent(p)
      /\ \A v \in Workers : job[v].pc # "idle" => JobConsistent(v)
      /\ FulfilmentExclusive
      /\ \A p \in Orders, u, v \in Workers : Creates(u, p) /\ Creates(v, p) => u = v
  BY DEF Consistent
<1>2. /\ job \in [Workers -> Jobs] /\ order \in [Orders -> Rows] /\ faults \in Nat
      /\ granted \in [Orders -> Nat] /\ code \in [Orders -> Codes]
      /\ upstream \in [Orders -> Upstreams] /\ erased \in [Orders -> Nat]
  BY DEF TypeOK
<1>3. CASE CustomerPays(o)
  <2>1. /\ UNCHANGED <<order, code, audited, granted, erased, job, faults>>
        /\ upstream[o] = "open" /\ upstream'[o] = "captured"
        /\ \A p \in Orders : p # o => upstream'[p] = upstream[p]
    BY <1>2, <1>3 DEF CustomerPays, rowVars, grantVars
  <2>2. \A p \in Orders : RowConsistent(p)'
    BY <1>1, <2>1 DEF RowConsistent, Status, IsSubscription
  <2>3. \A v \in Workers : job'[v].pc # "idle" => JobConsistent(v)'
    BY <1>1, <2>1 DEF JobConsistent, Holds, Status, IsSubscription
  <2> QED
    BY <1>1, <2>1, <2>2, <2>3
    DEF Forward, Consistent, GrantConsistent, Completes, FulfilmentExclusive, Creates,
        Holds, Status, IsSubscription
<1>4. CASE GraceElapses(o)
  <2>1. /\ UNCHANGED <<upstream, code, audited, granted, erased, job, faults>>
        /\ \A p \in Orders : /\ order'[p].status = order[p].status
                             /\ order'[p].kind = order[p].kind
                             /\ order'[p].paidAt = order[p].paidAt
    BY <1>2, <1>4 DEF GraceElapses, grantVars, Rows
  <2>2. \A p \in Orders : RowConsistent(p)'
    BY <1>1, <2>1 DEF RowConsistent, Status, IsSubscription
  <2>3. \A v \in Workers : job'[v].pc # "idle" => JobConsistent(v)'
    BY <1>1, <2>1 DEF JobConsistent, Holds, Status, IsSubscription
  <2> QED
    BY <1>1, <2>1, <2>2, <2>3
    DEF Forward, Consistent, GrantConsistent, Completes, FulfilmentExclusive, Creates,
        Holds, Status, IsSubscription
<1>5. CASE RedeemLockExpires(o)
  BY <1>1, <1>5
  DEF RedeemLockExpires, rowVars, Forward, Consistent, RowConsistent, GrantConsistent,
      JobConsistent, Completes, FulfilmentExclusive, Creates, Holds, Status, IsSubscription
<1>6. CASE DeleteRedeemCode(o)
  <2>1. /\ UNCHANGED <<order, upstream, audited, granted>>
        /\ faults' = faults + 1 /\ code[o] # "none" /\ code'[o] = "none"
        /\ erased'[o] = IF code[o] = "used" THEN erased[o] + 1 ELSE erased[o]
        /\ \A p \in Orders : p # o => code'[p] = code[p] /\ erased'[p] = erased[p]
    BY <1>2, <1>6 DEF DeleteRedeemCode, Fault, rowVars
  <2>2. \A v \in Workers : /\ job'[v].pc = job[v].pc /\ job'[v].o = job[v].o
                           /\ job'[v].flow = job[v].flow
                           /\ job'[v].pc = "release" => job'[v].err = job[v].err
    BY <1>2, <1>6 DEF DeleteRedeemCode, At, Jobs
  <2>3. \A p \in Orders : RowConsistent(p)'
    BY <1>1, <2>1 DEF RowConsistent, Status, IsSubscription
  <2>4. ASSUME NEW p \in Orders PROVE GrantConsistent(p)'
    <3>1. GrantConsistent(p) /\ granted'[p] = granted[p] /\ (IsSubscription(p)' <=> IsSubscription(p))
      BY <1>1, <2>1 DEF IsSubscription
    <3>2. granted[p] \in Nat /\ erased[p] \in Nat /\ faults \in Nat
      BY <1>2
    <3>3. erased'[p] <= granted'[p]
      <4>1. CASE p = o /\ code[o] = "used"
        <5>1. ~IsSubscription(o)
          BY <1>1, <4>1 DEF RowConsistent
        <5> QED
          BY <2>1, <3>1, <3>2, <4>1, <5>1 DEF GrantConsistent
      <4>2. CASE ~(p = o /\ code[o] = "used")
        BY <2>1, <3>1, <3>2, <4>2 DEF GrantConsistent
      <4> QED
        BY <4>1, <4>2
    <3>4. ~IsSubscription(p) =>
            granted'[p] = (IF code'[p] = "used" THEN 1 ELSE 0) + erased'[p]
      <4>1. CASE p = o
        BY <2>1, <3>1, <3>2, <4>1 DEF GrantConsistent
      <4>2. CASE p # o
        BY <2>1, <3>1, <4>2 DEF GrantConsistent
      <4> QED
        BY <4>1, <4>2
    <3>5. IsSubscription(p) => granted[p] <= faults'
      BY <2>1, <3>1, <3>2 DEF GrantConsistent
    <3> QED
      BY <2>1, <3>1, <3>2, <3>3, <3>4, <3>5 DEF GrantConsistent
  <2>5. \A v \in Workers : job'[v].pc # "idle" => JobConsistent(v)'
    BY <1>1, <2>1, <2>2 DEF JobConsistent, Holds, Status, IsSubscription, RedeemPcs
  <2> QED
    BY <1>1, <2>1, <2>2, <2>3, <2>4, <2>5
    DEF Forward, Consistent, FulfilmentExclusive, Creates, Holds, Status
<1> QED
  BY <1>3, <1>4, <1>5, <1>6 DEF Environment

\* The death of a worker is a failure that leaves everything else as it is.
LEMMA CrashConsistent ==
  ASSUME TypeOK, Consistent, NEW w \in Workers, Crash(w)
  PROVE  Consistent' /\ Forward
<1>1. PICK o \in Orders : job[w].o = o /\ RowConsistent(o)
  BY DEF Crash, Consistent, JobConsistent
<1>2. job \in [Workers -> Jobs] /\ faults \in Nat
  BY DEF TypeOK
<1>3. /\ Touches(w, o) /\ SameRow(o) /\ SamePay(o) /\ SameGrant(o)
      /\ job'[w].pc = "idle" /\ faults' = faults + 1
  BY <1>1, <1>2
  DEF Crash, Fault, Idle, Jobs, rowVars, grantVars, Touches, SameRow, SamePay, SameGrant,
      Turns, Status
<1>4. Keeps(w, o)
  BY <1>3 DEF Keeps, Consistent, JobConsistent, Status, SameRow, SamePay, SameGrant, Turns
<1>5. RowConsistent(o)'
  BY <1>1, <1>3
  DEF RowConsistent, Status, IsSubscription, SameRow, SamePay, SameGrant, Turns
<1>6. GrantConsistent(o)'
  BY <1>1, <1>2, <1>3, GrantKept DEF Status, SameRow, SameGrant, Turns
<1>7. ~Creates(w, o)' /\ ~Holds(w, o)'
  BY <1>3 DEF Creates, Holds, RedeemPcs
<1> QED
  BY <1>1, <1>3, <1>4, <1>5, <1>6, <1>7, StepFrame DEF Preserves

\* The database is empty and every worker idle.
LEMMA InitConsistent == Init => Consistent
BY DEF Settled, RefundStatuses, Init, Consistent, RowConsistent, GrantConsistent, JobConsistent, FulfilmentExclusive,
       Creates, Holds, Idle, Status, IsSubscription, RedeemPcs

\* The invariant is inductive, and no step takes a paid order back.
LEMMA NextConsistent == TypeOK /\ Consistent /\ [Next]_vars => Consistent' /\ Forward
<1> SUFFICES ASSUME TypeOK, Consistent, [Next]_vars PROVE Consistent' /\ Forward
  OBVIOUS
<1>1. CASE UNCHANGED vars
  BY <1>1
  DEF vars, Forward, Consistent, RowConsistent, GrantConsistent, JobConsistent, Completes,
      FulfilmentExclusive, Creates, Holds, Status, IsSubscription
<1> QED
  BY <1>1, StartConsistent, StepConsistent, EnvironmentConsistent, CrashConsistent DEF Next

\* The rows, the grants and what the workers know of them agree in every
\* reachable state.
THEOREM AlwaysConsistent == Spec => []Consistent
<1>1. Init => Consistent
  BY InitConsistent
<1>2. TypeOK /\ Consistent /\ [Next]_vars => Consistent'
  BY NextConsistent
<1> QED
  BY <1>1, <1>2, TypeCorrect, PTL DEF Spec

\* Two fulfilments of an order are never in progress together.
THEOREM Exclusion == Spec => []FulfilmentExclusive
<1>1. Consistent => FulfilmentExclusive
  BY DEF Consistent
<1> QED
  BY <1>1, AlwaysConsistent, PTL

\* No step takes a paid order back to the unpaid side, or a completed one back.
THEOREM PaidStays == Spec => PaidIsKept
<1>1. TypeOK /\ Consistent /\ Consistent' /\ [Next]_vars =>
        [\A o \in Orders :
           /\ order[o].paidAt => order'[o].paidAt /\ order'[o].status \in PaidSide
           /\ Status(o) = "COMPLETED" => order'[o].status = "COMPLETED"]_vars
  <2> SUFFICES ASSUME TypeOK, Consistent, Consistent', [Next]_vars, NEW o \in Orders
               PROVE  /\ order[o].paidAt => order'[o].paidAt /\ order'[o].status \in PaidSide
                      /\ Status(o) = "COMPLETED" => order'[o].status = "COMPLETED"
    OBVIOUS
  <2>1. Forward
    BY NextConsistent
  <2>2. order'[o].paidAt => order'[o].status \in PaidSide
    BY DEF Consistent, RowConsistent, Status
  <2> QED
    BY <2>1, <2>2 DEF Settled, Forward, Status
<1> QED
  BY <1>1, AlwaysConsistent, TypeCorrect, PTL DEF Spec, PaidIsKept

\* COMPLETED orders have been granted.
THEOREM Completion == Spec => []CompletedIsGranted
<1>1. TypeOK /\ Consistent => CompletedIsGranted
  BY DEF Settled, RefundStatuses, TypeOK, Consistent, RowConsistent, CompletedIsGranted
<1> QED
  BY <1>1, AlwaysConsistent, TypeCorrect, PTL

\* Nothing is granted that the provider has not captured.
THEOREM Capture == Spec => []GrantedIsCaptured
<1>1. Consistent => GrantedIsCaptured
  BY DEF Consistent, RowConsistent, GrantedIsCaptured
<1> QED
  BY <1>1, AlwaysConsistent, PTL

\* A balance order credits at most once, and once more for each of its used
\* codes that an operator has deleted.
THEOREM SingleCredit == Spec => []CreditedOnce
<1>1. TypeOK /\ Consistent => CreditedOnce
  BY DEF TypeOK, Consistent, GrantConsistent, CreditedOnce
<1> QED
  BY <1>1, AlwaysConsistent, TypeCorrect, PTL

----------------------------------------------------------------------------
(* The types of a refund *)

\* A plan that moves or ends keeps its type.
LEMMA PlanTypes ==
  ASSUME RefundTypeOK, NEW a \in Admins
  PROVE  /\ \A pc \in RefundPcs : GotoR(a, pc) => refund' \in [Admins -> Plans]
         /\ ReturnR(a) => refund' \in [Admins -> Plans]
<1>1. NoPlan \in Plans
  BY RefundAssumption DEF NoPlan, Plans, RefundPcs, Statuses
<1>2. refund \in [Admins -> Plans]
  BY DEF RefundTypeOK
<1>3. ASSUME NEW pc \in RefundPcs, GotoR(a, pc) PROVE refund' \in [Admins -> Plans]
  BY <1>2, <1>3 DEF GotoR, Plans
<1> QED
  BY <1>1, <1>2, <1>3 DEF ReturnR

\* A deduction is at most the refund, whatever the balance is.
LEMMA TakeTypes ==
  ASSUME NEW o \in Orders, NEW amt \in 1..Amount, NEW take \in Deductions(o, amt)
  PROVE  take \in 0..Amount
<1>1. Amount \in Nat /\ Amount > 0
  BY RefundAssumption
<1>2. take = 0 \/ take = Amount \/ take \in 1..amt
  BY DEF Deductions
<1> QED
  BY <1>1, <1>2

\* The places of an administrator in its handler.
LEMMA RefundPlaces ==
  RefundPcs = {"idle", "lock", "look", "deduct", "gateway", "rollback", "audit", "failed",
               "restore", "finish"}
BY DEF RefundPcs

\* Every step of an administrator keeps the types.
LEMMA AdminTypes ==
  ASSUME RefundTypeOK, NEW a \in Admins, NEW o \in Orders, RefundStep(a, o)
  PROVE  RefundTypeOK'
<1>1. /\ TypeOK /\ refund \in [Admins -> Plans] /\ refund[a] \in Plans
      /\ deducted \in [Orders -> Int] /\ returned \in [Orders -> 0..Amount]
      /\ revoked \in [Orders -> BOOLEAN] /\ rbFailed \in [Orders -> SUBSET {"row", "lost", "unread"}]
      /\ spent \in 0..MaxSpend /\ Amount \in Nat
  BY RefundAssumption DEF RefundTypeOK
<1>2. /\ \A pc \in RefundPcs : GotoR(a, pc) => refund' \in [Admins -> Plans]
      /\ ReturnR(a) => refund' \in [Admins -> Plans]
  BY PlanTypes
<1>3. /\ \A s \in Statuses : SetStatus(o, s) => order' \in [Orders -> Rows]
      /\ \A out : Write(out) => faults' \in Nat
      /\ \A kind : Fault(kind) => faults' \in Nat
      /\ NoFault => faults' \in Nat
  BY <1>1, RowTypes
<1>4. /\ refund[a].take \in Int /\ refund[a].amt \in Int /\ refund[a].amt >= 0
      /\ deducted[o] \in Int /\ returned[o] \in 0..Amount /\ revoked[o] \in BOOLEAN
      /\ refund[a].seen \in Statuses
  BY <1>1 DEF Plans
\* A step that leaves the order's workers alone keeps TypeOK.
<1>5. ASSUME UNCHANGED <<workVars, grantVars>>, order' \in [Orders -> Rows], faults' \in Nat
      PROVE  TypeOK'
  BY <1>1, <1>5 DEF TypeOK, workVars, grantVars
<1>6. order \in [Orders -> Rows] /\ order[o].trade \in BOOLEAN /\ Status(o) \in Statuses
  BY <1>1 DEF TypeOK, Rows, Status
<1>11. CASE PrepareRefund(a, o)
  <2>1. PICK amt \in 1..Amount : \E take \in Deductions(o, amt) :
           refund' = [refund EXCEPT ![a] = [pc |-> "lock", o |-> o, seen |-> Status(o),
                                            trade |-> order[o].trade, amt |-> amt, take |-> take]]
    BY <1>11 DEF PrepareRefund
  <2>2. PICK take \in Deductions(o, amt) :
           refund' = [refund EXCEPT ![a] = [pc |-> "lock", o |-> o, seen |-> Status(o),
                                            trade |-> order[o].trade, amt |-> amt, take |-> take]]
    BY <2>1
  <2>3. amt \in 0..Amount /\ take \in 0..Amount
    BY <1>1, TakeTypes
  <2>4. [pc |-> "lock", o |-> o, seen |-> Status(o), trade |-> order[o].trade,
         amt |-> amt, take |-> take] \in Plans
    BY <1>6, <2>3 DEF Plans, RefundPcs
  <2>5. refund' \in [Admins -> Plans]
    BY <1>1, <2>2, <2>4
  <2> QED
    BY <1>1, <1>11, <2>5 DEF PrepareRefund, RefundTypeOK, TypeOK, vars, ledger
<1>12. CASE LockRefund(a, o)
  <2>1. "REFUNDING" \in Statuses /\ "look" \in RefundPcs
    BY DEF Statuses, RefundPcs
  <2>2. order' \in [Orders -> Rows] /\ faults' \in Nat /\ refund' \in [Admins -> Plans]
    BY <1>2, <1>3, <1>6, <1>12, <2>1 DEF LockRefund
  <2> QED
    BY <1>1, <1>5, <1>12, <2>2 DEF LockRefund, RefundTypeOK, ledger
<1>13. CASE LookForRollback(a, o)
  <2>1. refund' \in [Admins -> Plans]
    <3>1. [refund[a] EXCEPT !.pc = "gateway", !.take = 0] \in Plans
      <4>1. 0 \in 0..Amount /\ "gateway" \in RefundPcs
        BY <1>1 DEF RefundPcs
      <4> QED
        BY <1>1, <4>1 DEF Plans
    <3>2. "deduct" \in RefundPcs
      BY DEF RefundPcs
    <3>3. \/ GotoR(a, "deduct")
          \/ refund' = [refund EXCEPT ![a] = [refund[a] EXCEPT !.pc = "gateway", !.take = 0]]
      BY <1>1, <1>13 DEF LookForRollback
    <3> QED
      BY <1>1, <1>2, <3>1, <3>2, <3>3
  <2>2. faults' \in Nat
    BY <1>3, <1>13 DEF LookForRollback
  <2>3. rbFailed' \in [Orders -> SUBSET {"row", "lost", "unread"}]
    <3>1. UNCHANGED rbFailed \/ \E x \in {{"unread"}, {}} : rbFailed' = [rbFailed EXCEPT ![o] = rbFailed[o] \cup x]
      BY <1>13 DEF LookForRollback
    <3> QED
      BY <1>1, <3>1
  <2> QED
    BY <1>1, <1>5, <1>6, <1>13, <2>1, <2>2, <2>3 DEF LookForRollback, RefundTypeOK
<1>14. CASE Deduct(a, o)
  <2>1. "gateway" \in RefundPcs /\ "restore" \in RefundPcs
    BY DEF RefundPcs
  <2>2. faults' \in Nat /\ refund' \in [Admins -> Plans]
    BY <1>2, <1>3, <1>14, <2>1 DEF Deduct
  <2>3. deducted' \in [Orders -> Int]
    <3>1. deducted[o] + refund[a].take \in Int
      BY <1>4
    <3>2. deducted' = deducted \/ deducted' = [deducted EXCEPT ![o] = deducted[o] + refund[a].take]
      BY <1>14 DEF Deduct
    <3> QED
      BY <1>1, <3>1, <3>2
  <2>4. revoked' \in [Orders -> BOOLEAN]
    <3>1. UNCHANGED revoked \/ \E x \in BOOLEAN : revoked' = [revoked EXCEPT ![o] = x]
      <4>1. \A gone \in {FALSE, IsSubscription(o)} : (revoked[o] \/ gone) \in BOOLEAN
        BY DEF IsSubscription
      <4> QED
        BY <1>14, <4>1 DEF Deduct
    <3> QED
      BY <1>1, <3>1
  <2> QED
    BY <1>1, <1>5, <1>6, <1>14, <2>2, <2>3, <2>4 DEF Deduct, RefundTypeOK
<1>15. CASE GatewayRefund(a, o)
  <2>1. {"finish", "rollback"} \subseteq RefundPcs
    BY DEF RefundPcs
  <2>2. faults' \in Nat /\ refund' \in [Admins -> Plans]
    BY <1>2, <1>3, <1>15, <2>1 DEF GatewayRefund, AfterGateway
  <2>3. returned' \in [Orders -> 0..Amount]
    <3>1. UNCHANGED returned \/ \E x \in 0..Amount : returned' = [returned EXCEPT ![o] = x]
      <4>1. returned[o] + refund[a].amt <= Amount => returned[o] + refund[a].amt \in 0..Amount
        BY <1>1, <1>4
      <4> QED
        BY <1>4, <1>15, <4>1 DEF GatewayRefund
    <3> QED
      BY <1>1, <3>1
  <2> QED
    BY <1>1, <1>5, <1>6, <1>15, <2>2, <2>3 DEF GatewayRefund, RefundTypeOK
<1>16. CASE Rollback(a, o)
  <2>1. {"restore", "audit"} \subseteq RefundPcs
    BY DEF RefundPcs
  <2>2. faults' \in Nat /\ refund' \in [Admins -> Plans]
    BY <1>2, <1>3, <1>16, <2>1 DEF Rollback
  <2>3. deducted' \in [Orders -> Int]
    <3>1. deducted[o] - refund[a].take \in Int
      BY <1>4
    <3>2. deducted' = deducted \/ deducted' = [deducted EXCEPT ![o] = deducted[o] - refund[a].take]
      BY <1>16 DEF Rollback
    <3> QED
      BY <1>1, <3>1, <3>2
  <2> QED
    BY <1>1, <1>5, <1>6, <1>16, <2>2, <2>3 DEF Rollback, RefundTypeOK
<1>17. CASE AuditRollback(a, o)
  <2>1. "failed" \in RefundPcs
    BY DEF RefundPcs
  <2>2. faults' \in Nat /\ refund' \in [Admins -> Plans]
    BY <1>2, <1>3, <1>17, <2>1 DEF AuditRollback
  <2>3. rbFailed' \in [Orders -> SUBSET {"row", "lost", "unread"}]
    BY <1>1, <1>17 DEF AuditRollback
  <2> QED
    BY <1>1, <1>5, <1>6, <1>17, <2>2, <2>3 DEF AuditRollback, RefundTypeOK
<1>18. ASSUME NEW s \in Statuses, Settle(a, o, s) PROVE RefundTypeOK'
  <2>1. order' \in [Orders -> Rows] /\ faults' \in Nat /\ refund' \in [Admins -> Plans]
    BY <1>2, <1>3, <1>6, <1>18 DEF Settle
  <2> QED
    BY <1>1, <1>5, <1>18, <2>1 DEF Settle, RefundTypeOK, ledger
<1>19. RefundResult(refund[a].amt) \in Statuses /\ {"REFUND_FAILED", "REFUND_REQUESTED", "COMPLETED"} \subseteq Statuses
  BY DEF RefundResult, Statuses
<1> QED
  BY <1>11, <1>12, <1>13, <1>14, <1>15, <1>16, <1>17, <1>18, <1>19
  DEF RefundStep, MarkRefundFailed, RestoreStatus, MarkRefundOk

\* Every step of the composed system keeps the types of the refunds.
LEMMA RefundNextTypes == ASSUME RefundTypeOK, [RefundNext]_allVars PROVE RefundTypeOK'
<1>1. /\ TypeOK /\ order \in [Orders -> Rows] /\ spent \in 0..MaxSpend /\ MaxSpend \in Nat
  BY RefundAssumption DEF RefundTypeOK, TypeOK
<1>2. CASE Next /\ UNCHANGED refundVars
  BY <1>1, <1>2, NextTypes DEF RefundTypeOK, refundVars
<1>3. ASSUME NEW o \in Orders, RequestRefund(o) PROVE RefundTypeOK'
  <2>1. order' \in [Orders -> Rows]
    BY <1>1, <1>3, RowTypes DEF RequestRefund, Statuses
  <2> QED
    BY <1>3, <2>1 DEF RequestRefund, RefundTypeOK, TypeOK, refundVars, workVars, grantVars
<1>4. ASSUME NEW a \in Admins, CrashAdmin(a) PROVE RefundTypeOK'
  <2>1. refund' \in [Admins -> Plans] /\ faults' \in Nat
    BY <1>1, <1>4, PlanTypes, RowTypes DEF CrashAdmin, Fault, TypeOK
  <2> QED
    BY <1>4, <2>1 DEF CrashAdmin, RefundTypeOK, TypeOK, ledger, workVars, grantVars
<1>5. CASE Spend
  <2>1. spent' \in 0..MaxSpend
    BY <1>1, <1>5 DEF Spend
  <2> QED
    BY <1>5, <2>1 DEF Spend, RefundTypeOK, TypeOK, vars
<1>6. CASE UNCHANGED allVars
  BY <1>6 DEF allVars, vars, refundVars, RefundTypeOK, TypeOK
<1> QED
  BY <1>2, <1>3, <1>4, <1>5, <1>6, AdminTypes DEF RefundNext

\* Every variable has the shape the code gives it; no more than the amount of
\* the order is ever asked for, taken at once or paid back.
THEOREM RefundTypeCorrect == RefundSpec => []RefundTypeOK
<1>1. RefundInit => RefundTypeOK
  <2> SUFFICES ASSUME RefundInit PROVE RefundTypeOK
    OBVIOUS
  <2>1. NoPlan \in Plans /\ 0 \in 0..Amount /\ 0 \in 0..MaxSpend
    BY RefundAssumption DEF NoPlan, Plans, RefundPcs, Statuses
  <2> QED
    BY <2>1, InitTypes DEF RefundInit, RefundTypeOK
<1>2. RefundTypeOK /\ [RefundNext]_allVars => RefundTypeOK'
  BY RefundNextTypes
<1> QED
  BY <1>1, <1>2, PTL DEF RefundSpec

----------------------------------------------------------------------------
(* The order while it is refunded *)

\* A failure, or none, lets the count of failures grow.
LEMMA FaultsGrow ==
  ASSUME faults \in Nat
  PROVE  /\ \A out : Write(out) => faults' \in Nat /\ faults' >= faults
         /\ \A kind : Fault(kind) => faults' \in Nat /\ faults' >= faults
         /\ NoFault => faults' \in Nat /\ faults' >= faults
BY DEF Write, Fault, NoFault

\* A refund leaves the workers of the order alone: the invariant of the order
\* survives a change from one status of a fulfilled order to another.
LEMMA RowFrame ==
  ASSUME TypeOK, Consistent,
         UNCHANGED <<workVars, grantVars>>, faults' \in Nat, faults' >= faults,
         \/ UNCHANGED order
         \/ \E o \in Orders : Status(o) \in Settled /\ \E s \in Settled : SetStatus(o, s)
  PROVE  Consistent'
<1>1. /\ order \in [Orders -> Rows] /\ faults \in Nat /\ granted \in [Orders -> Nat]
      /\ UNCHANGED <<upstream, audited, job, code, granted, erased>>
  BY DEF TypeOK, workVars, grantVars
<1>2. \A p \in Orders :
        /\ order'[p].kind = order[p].kind /\ order'[p].paidAt = order[p].paidAt
        /\ \/ order'[p].status = Status(p)
           \/ Status(p) \in Settled /\ order'[p].status \in Settled
  <2>1. CASE UNCHANGED order
    BY <2>1 DEF Status
  <2>2. ASSUME NEW o \in Orders, Status(o) \in Settled, NEW s \in Settled, SetStatus(o, s)
        PROVE  \A p \in Orders :
                 /\ order'[p].kind = order[p].kind /\ order'[p].paidAt = order[p].paidAt
                 /\ \/ order'[p].status = Status(p)
                    \/ Status(p) \in Settled /\ order'[p].status \in Settled
    <3>1. Turns(o, s) /\ SameOthers(o)
      BY <1>1, <2>2, RowMoves
    <3> QED
      BY <2>2, <3>1 DEF Turns, SameOthers, Status
  <2> QED
    BY <2>1, <2>2
<1>3. ASSUME NEW p \in Orders PROVE RowConsistent(p)'
  <2>1. RowConsistent(p)
    BY DEF Consistent
  <2> QED
    BY <1>1, <1>2, <2>1
    DEF RowConsistent, Status, IsSubscription, Settled, RefundStatuses, PaidSide
<1>4. ASSUME NEW p \in Orders PROVE GrantConsistent(p)'
  <2>1. GrantConsistent(p) /\ granted[p] \in Nat
    BY <1>1 DEF Consistent
  <2>2. \A w \in Workers : Completes(w, p)' <=> Completes(w, p)
    BY <1>1 DEF Completes, Holds
  <2>3. IsSubscription(p)' <=> IsSubscription(p)
    BY <1>2 DEF IsSubscription
  <2>4. ASSUME IsSubscription(p), granted[p] > faults'
        PROVE  /\ granted[p] = faults' + 1
               /\ Status(p)' \in Settled \/ \E w \in Workers : Completes(w, p)
    <3>1. granted[p] > faults
      BY <1>1, <2>1, <2>4
    <3>2. granted[p] = faults + 1 /\ (Status(p) \in Settled \/ \E w \in Workers : Completes(w, p))
      BY <2>1, <2>4, <3>1 DEF GrantConsistent
    <3>3. granted[p] = faults' + 1
      <4>1. granted[p] = faults + 1 /\ granted[p] > faults' /\ faults' >= faults
        BY <2>4, <3>2
      <4>2. faults \in Nat /\ faults' \in Nat /\ granted[p] \in Nat
        BY <1>1, <2>1
      <4>3. \A f, g, n \in Nat : n = f + 1 /\ n > g /\ g >= f => n = g + 1
        OBVIOUS
      <4> QED
        BY <4>1, <4>2, <4>3
    <3>4. Status(p) \in Settled => Status(p)' \in Settled
      BY <1>2 DEF Status
    <3> QED
      BY <3>2, <3>3, <3>4
  <2> QED
    BY <1>1, <2>1, <2>2, <2>3, <2>4 DEF GrantConsistent
<1>5. ASSUME NEW w \in Workers, job'[w].pc # "idle" PROVE JobConsistent(w)'
  <2>1. JobConsistent(w) /\ job'[w] = job[w] /\ job[w].o \in Orders
    BY <1>1, <1>5 DEF Consistent, JobConsistent
  <2>2. Holds(w, job[w].o)' <=> Holds(w, job[w].o)
    BY <1>1 DEF Holds
  <2>3. Status(job[w].o) \in Settled => job[w].pc \notin {"insert", "invoke"}
    BY <2>1 DEF JobConsistent, Settled, RefundStatuses
  <2> QED
    BY <1>1, <1>2, <2>1, <2>2, <2>3
    DEF JobConsistent, Status, IsSubscription, Settled, RefundStatuses
<1>6. FulfilmentExclusive' /\ \A p \in Orders, v, w \in Workers : Creates(v, p)' /\ Creates(w, p)' => v = w
  BY <1>1 DEF Consistent, FulfilmentExclusive, Creates, Holds
<1> QED
  BY <1>3, <1>4, <1>5, <1>6 DEF Consistent

----------------------------------------------------------------------------
(* The account of a refund *)

\* The statuses that a locked refund can leave behind for good.
Later == {"REFUNDING", "REFUNDED", "PARTIALLY_REFUNDED"}

\* What the ledger says of an order: a deduction past the amount takes a failed
\* rollback that was not recorded or not read, a deduction that stands takes a refund
\* that was locked or a failed rollback, a payment takes a refund that was locked.
Account(o) ==
    /\ deducted[o] >= 0
    /\ rbFailed[o] \subseteq {"row"} => deducted[o] <= Amount
    /\ rbFailed[o] = {} /\ Status(o) \notin Later => deducted[o] = 0
    /\ returned[o] > 0 => Status(o) \in Later

\* What an administrator knows of the ledger at each point of ExecuteRefund.
Books(a, o) ==
    LET pc == refund[a].pc
        take == refund[a].take
    IN  /\ pc \in {"look", "deduct", "restore"} /\ rbFailed[o] = {} => deducted[o] = 0
        /\ pc = "deduct" => rbFailed[o] # {"row"}
        /\ pc \in {"gateway", "rollback", "finish"} =>
             /\ deducted[o] >= take
             /\ rbFailed[o] = {} => deducted[o] = take
        /\ pc = "failed" => rbFailed[o] # {}
        /\ pc \notin {"idle", "lock", "finish"} => returned[o] = 0

Balanced == \A o \in Orders : Account(o) /\ \A a \in Admins : refund[a].o = o => Books(a, o)

\* A step of administrator a on order o: nothing else changes.
AdminTouches(a, o) ==
    /\ \A b \in Admins : b # a => refund'[b] = refund[b]
    /\ refund[a].pc = "idle" \/ refund[a].o = o
    /\ refund'[a].pc = "idle" \/ refund'[a].o = o
    /\ \A p \in Orders : p # o =>
         /\ order'[p] = order[p] /\ deducted'[p] = deducted[p]
         /\ returned'[p] = returned[p] /\ rbFailed'[p] = rbFailed[p]

SameLedger(o) ==
    /\ order'[o].status = Status(o) /\ deducted'[o] = deducted[o]
    /\ returned'[o] = returned[o] /\ rbFailed'[o] = rbFailed[o]

Alone(a, o) == \A b \in Admins : b # a => ~Refunding(b, o)

\* The other administrators and orders are untouched by such a step.
LEMMA AdminFrame ==
  ASSUME RefundExclusive, NEW a \in Admins, NEW o \in Orders, AdminTouches(a, o),
         Alone(a, o) \/ SameLedger(o),
         Refunding(a, o)' => order'[o].status = "REFUNDING" /\ Alone(a, o)
  PROVE  /\ RefundExclusive'
         /\ Balanced /\ Account(o)' /\ (refund'[a].o = o => Books(a, o)') => Balanced'
<1>1. \A b \in Admins, p \in Orders : b # a => (Refunding(b, p)' <=> Refunding(b, p))
  BY DEF AdminTouches, Refunding
<1>2. \A p \in Orders : Refunding(a, p)' => p = o
  BY DEF AdminTouches, Refunding
<1>3. \A p \in Orders : p # o => ~Refunding(a, p)
  BY DEF AdminTouches, Refunding
<1>4. \A p \in Orders : p # o => order'[p] = order[p]
  BY DEF AdminTouches
<1>5. RefundExclusive'
  <2>1. ASSUME NEW b \in Admins, NEW p \in Orders, Refunding(b, p)'
        PROVE  Status(p)' = "REFUNDING"
    <3>1. CASE b = a
      BY <1>2, <2>1, <3>1 DEF Status
    <3>2. CASE b # a
      BY <1>1, <1>4, <2>1, <3>2 DEF RefundExclusive, Alone, SameLedger, Status
    <3> QED
      BY <3>1, <3>2
  <2>2. ASSUME NEW b \in Admins, NEW c \in Admins, NEW p \in Orders, Refunding(b, p)', Refunding(c, p)'
        PROVE  c = b
    BY <1>1, <1>2, <2>2 DEF RefundExclusive, Alone
  <2> QED
    BY <2>1, <2>2 DEF RefundExclusive
<1>6. ASSUME Balanced, Account(o)', refund'[a].o = o => Books(a, o)', NEW p \in Orders PROVE Account(p)'
  BY <1>6 DEF Balanced, Account, AdminTouches, Status
<1>7. ASSUME Balanced, Account(o)', refund'[a].o = o => Books(a, o)',
             NEW p \in Orders, NEW b \in Admins, refund'[b].o = p
      PROVE  Books(b, p)'
  <2>1. CASE b # a
    <3>1. refund'[b] = refund[b] /\ Books(b, p)
      BY <1>7, <2>1 DEF AdminTouches, Balanced
    <3>2. CASE p # o \/ SameLedger(o)
      BY <1>7, <3>1, <3>2 DEF Books, AdminTouches, SameLedger
    <3>3. CASE ~Refunding(b, p)
      BY <1>7, <3>1, <3>3 DEF Books, Refunding
    <3> QED
      BY <2>1, <3>2, <3>3 DEF Alone
  <2>2. CASE b = a /\ p # o
    BY <1>7, <2>2 DEF AdminTouches, Books
  <2> QED
    BY <1>7, <2>1, <2>2
<1> QED
  BY <1>5, <1>6, <1>7 DEF Balanced

\* What a step of a refund does to the plan and to the order, field by field.
PlanMoves(a, o, pc) ==
    /\ refund'[a].pc = pc /\ refund'[a].o = o /\ refund'[a].take = refund[a].take
    /\ \A b \in Admins : b # a => refund'[b] = refund[b]
PlanEnds(a) ==
    /\ refund'[a].pc = "idle" /\ refund'[a].o = NoOrder
    /\ \A b \in Admins : b # a => refund'[b] = refund[b]
Turned(o, status) ==
    /\ order'[o].status = status
    /\ \A p \in Orders : p # o => order'[p] = order[p]

\* The helpers of the refund move a plan, end it or turn the status, and no more.
LEMMA PlanSteps ==
  ASSUME RefundTypeOK, NEW a \in Admins, NEW o \in Orders
  PROVE  /\ \A pc : GotoR(a, pc) /\ refund[a].o = o => PlanMoves(a, o, pc)
         /\ ReturnR(a) => PlanEnds(a)
         /\ \A status : SetStatus(o, status) => Turned(o, status)
         /\ UNCHANGED order => Turned(o, Status(o))
<1>1. refund \in [Admins -> Plans] /\ order \in [Orders -> Rows]
  BY DEF RefundTypeOK, TypeOK
<1>2. ASSUME NEW pc, GotoR(a, pc), refund[a].o = o PROVE PlanMoves(a, o, pc)
  BY <1>1, <1>2 DEF GotoR, PlanMoves, Plans
<1>3. ASSUME ReturnR(a) PROVE PlanEnds(a)
  BY <1>1, <1>3 DEF ReturnR, PlanEnds, NoPlan
<1>4. ASSUME NEW status, SetStatus(o, status) PROVE Turned(o, status)
  BY <1>1, <1>4, RowMoves DEF Turned, Turns, SameOthers
<1>5. UNCHANGED order => Turned(o, Status(o))
  BY DEF Turned, Status
<1> QED
  BY <1>2, <1>3, <1>4, <1>5

\* The end of a refund, whatever it writes, is the end of a lock.
LEMMA SettleStep ==
  ASSUME RefundTypeOK, Consistent, RefundExclusive, NEW a \in Admins, NEW o \in Orders,
         refund[a].o = o, refund[a].pc \notin {"idle", "lock"},
         NEW status \in Settled, Settle(a, o, status),
         Balanced => /\ status \notin Later => returned[o] = 0
                     /\ rbFailed[o] = {} /\ status \notin Later => deducted[o] = 0
  PROVE  Consistent' /\ RefundExclusive' /\ (Balanced => Balanced')
<1>1. Status(o) = "REFUNDING" /\ Alone(a, o)
  BY DEF RefundExclusive, Refunding, Alone
<1>2. /\ PlanEnds(a) /\ UNCHANGED <<workVars, grantVars, ledger>>
      /\ UNCHANGED order \/ SetStatus(o, status)
      /\ Turned(o, Status(o)) \/ Turned(o, status)
  BY PlanSteps DEF Settle
<1>3. Consistent'
  <2>1. faults' \in Nat /\ faults' >= faults
    BY FaultsGrow DEF Settle, RefundTypeOK, TypeOK
  <2>2. Status(o) \in Settled /\ TypeOK
    BY <1>1 DEF Settled, RefundStatuses, RefundTypeOK
  <2> QED
    BY <1>2, <2>1, <2>2, RowFrame
<1>4. AdminTouches(a, o) /\ refund'[a].pc = "idle" /\ refund'[a].o # o
  BY <1>2, OrdersAssumption DEF AdminTouches, PlanEnds, Turned, ledger
<1>5. ~Refunding(a, o)'
  BY <1>4 DEF Refunding
<1>6. ASSUME Balanced PROVE Account(o)'
  <2>1. Account(o)
    BY <1>6 DEF Balanced
  <2> QED
    BY <1>1, <1>2, <1>6, <2>1 DEF Account, Turned, Status, ledger, Later
<1> QED
  BY <1>1, <1>3, <1>4, <1>5, <1>6, AdminFrame

\* A step of an administrator keeps what is said of the order, of the lock and,
\* unless writes are applied and reported lost, of the account.
LEMMA AdminStep ==
  ASSUME RefundTypeOK, Consistent, RefundExclusive, NEW a \in Admins, NEW o \in Orders,
         RefundStep(a, o)
  PROVE  Consistent' /\ RefundExclusive' /\ ("unknown" \notin FaultKinds /\ Balanced => Balanced')
<1> DEFINE Goal == Consistent' /\ RefundExclusive' /\ ("unknown" \notin FaultKinds /\ Balanced => Balanced')
<1>1. /\ TypeOK /\ faults \in Nat /\ refund \in [Admins -> Plans] /\ order \in [Orders -> Rows]
      /\ deducted \in [Orders -> Int] /\ returned \in [Orders -> 0..Amount]
      /\ rbFailed \in [Orders -> SUBSET {"row", "lost", "unread"}] /\ Amount \in Nat
      /\ refund[a].take \in 0..Amount /\ deducted[o] \in Int /\ returned[o] \in 0..Amount
  BY RefundAssumption DEF RefundTypeOK, TypeOK, Plans
<1>2. /\ \A pc : GotoR(a, pc) /\ refund[a].o = o => PlanMoves(a, o, pc)
      /\ ReturnR(a) => PlanEnds(a)
      /\ \A status : SetStatus(o, status) => Turned(o, status)
      /\ UNCHANGED order => Turned(o, Status(o))
  BY PlanSteps
<1>3. /\ \A out : Write(out) => faults' \in Nat /\ faults' >= faults
      /\ \A kind : Fault(kind) => faults' \in Nat /\ faults' >= faults
      /\ NoFault => faults' \in Nat /\ faults' >= faults
  BY <1>1, FaultsGrow
<1>4. ASSUME UNCHANGED <<order, workVars, grantVars>>, faults' \in Nat, faults' >= faults PROVE Consistent'
  BY <1>1, <1>4, RowFrame
<1>5. ASSUME refund[a].o = o, refund[a].pc \notin {"idle", "lock"}
      PROVE  Status(o) = "REFUNDING" /\ Alone(a, o)
  BY <1>5 DEF RefundExclusive, Refunding, Alone
<1>6. ASSUME "unknown" \notin FaultKinds, NEW out \in Outcomes, Write(out) PROVE Applied(out) <=> out = "ok"
  BY <1>6 DEF Write, Fault, Applied, Outcomes
\* While the refund holds the lock, the rest of the books follows from its own.
<1>7. ASSUME refund[a].o = o, refund[a].pc \notin {"idle", "lock"}, AdminTouches(a, o),
             UNCHANGED <<order, workVars, grantVars>>, faults' \in Nat, faults' >= faults,
             "unknown" \notin FaultKinds /\ Account(o) /\ Books(a, o)
               => Account(o)' /\ (refund'[a].o = o => Books(a, o)')
      PROVE  Goal
  <2>1. Status(o) = "REFUNDING" /\ Alone(a, o) /\ Consistent' /\ order'[o].status = "REFUNDING"
    BY <1>4, <1>5, <1>7 DEF Status
  <2>2. Balanced => Account(o) /\ Books(a, o)
    BY <1>7 DEF Balanced
  <2> QED
    BY <1>7, <2>1, <2>2, AdminFrame
<1>11. CASE PrepareRefund(a, o)
  <2>1. /\ refund[a].pc = "idle" /\ refund'[a].pc = "lock" /\ refund'[a].o = o
        /\ \A b \in Admins : b # a => refund'[b] = refund[b]
        /\ UNCHANGED <<vars, ledger>>
    BY <1>1, <1>11 DEF PrepareRefund
  <2>2. AdminTouches(a, o) /\ SameLedger(o) /\ ~Refunding(a, o)'
    BY <2>1 DEF AdminTouches, SameLedger, Refunding, Status, vars, ledger
  <2>3. Consistent'
    BY <1>1, <1>4, <2>1 DEF vars, workVars, grantVars
  <2>4. Balanced => Account(o)' /\ Books(a, o)'
    BY <2>1 DEF Balanced, Account, Books, Status, vars, ledger
  <2> QED
    BY <2>2, <2>3, <2>4, AdminFrame
<1>12. CASE LockRefund(a, o)
  <2>1. PICK out \in Outcomes :
           /\ Write(out)
           /\ IF Applied(out) /\ Status(o) \in Refundable
              THEN SetStatus(o, "REFUNDING") ELSE UNCHANGED order
           /\ IF out = "ok" /\ Status(o) \in Refundable
              THEN GotoR(a, "look") ELSE ReturnR(a)
    BY <1>12 DEF LockRefund
  <2>2. refund[a].pc = "lock" /\ refund[a].o = o /\ UNCHANGED <<workVars, grantVars, ledger>>
    BY <1>12 DEF LockRefund, Busy
  <2>3. faults' \in Nat /\ faults' >= faults
    BY <1>3, <2>1
  <2>4. CASE Status(o) \in Refundable
    <3>1. Alone(a, o) /\ Status(o) \in Settled /\ Status(o) \notin Later
      BY <2>4 DEF RefundExclusive, Alone, Refundable, Settled, RefundStatuses, Later
    <3>2. Consistent'
      BY <1>1, <2>1, <2>2, <2>3, <3>1, RowFrame DEF Settled, RefundStatuses
    <3>3. /\ Turned(o, Status(o)) \/ Turned(o, "REFUNDING")
          /\ out = "ok" => Turned(o, "REFUNDING") /\ PlanMoves(a, o, "look")
          /\ out # "ok" => PlanEnds(a)
      BY <1>2, <2>1, <2>2, <2>4 DEF Applied
    <3>4. AdminTouches(a, o)
      BY <2>2, <3>3 DEF AdminTouches, Turned, PlanMoves, PlanEnds, ledger
    <3>5. Refunding(a, o)' => order'[o].status = "REFUNDING"
      BY <3>3 DEF Refunding, PlanEnds, Turned
    <3>6. ASSUME Balanced PROVE Account(o)' /\ (refund'[a].o = o => Books(a, o)')
      <4>1. Account(o)
        BY <3>6 DEF Balanced
      <4>2. returned[o] = 0 /\ (rbFailed[o] = {} => deducted[o] = 0)
        BY <1>1, <3>1, <4>1 DEF Account
      <4>3. Account(o)'
        BY <2>2, <4>1, <4>2, <1>1, <3>3 DEF Account, Turned, ledger, Status
      <4> QED
        BY <2>2, <3>3, <4>2, <4>3, OrdersAssumption DEF Books, PlanMoves, PlanEnds, ledger
    <3> QED
      BY <3>1, <3>2, <3>4, <3>5, <3>6, AdminFrame
  <2>5. CASE Status(o) \notin Refundable
    <3>1. UNCHANGED order /\ PlanEnds(a)
      BY <1>2, <2>1, <2>5
    <3>2. Consistent'
      BY <1>4, <2>2, <2>3, <3>1
    <3>3. AdminTouches(a, o) /\ SameLedger(o) /\ ~Refunding(a, o)' /\ refund'[a].o # o
      BY <2>2, <3>1, OrdersAssumption DEF AdminTouches, SameLedger, Refunding, PlanEnds, Status, ledger
    <3>4. Balanced => Account(o)'
      BY <2>2, <3>1 DEF Balanced, Account, Status, ledger
    <3> QED
      BY <3>2, <3>3, <3>4, AdminFrame
  <2> QED
    BY <2>4, <2>5
<1>13. CASE LookForRollback(a, o)
  <2>1. /\ refund[a].pc = "look" /\ refund[a].o = o
        /\ UNCHANGED <<order, workVars, grantVars, deducted, returned>>
    BY <1>13 DEF LookForRollback, Busy
  <2>2. \/ /\ refund'[a].pc = "gateway" /\ refund'[a].o = o /\ refund'[a].take = 0
           /\ \A b \in Admins : b # a => refund'[b] = refund[b]
           /\ UNCHANGED rbFailed
        \/ PlanMoves(a, o, "deduct") /\ "row" \notin rbFailed[o] /\ UNCHANGED rbFailed
        \/ /\ PlanMoves(a, o, "deduct") /\ "row" \in rbFailed[o]
           /\ rbFailed' = [rbFailed EXCEPT ![o] = rbFailed[o] \cup {"unread"}]
    <3>1. CASE GotoR(a, "deduct") /\ UNCHANGED rbFailed /\ ~Taken(o)
      BY <1>2, <2>1, <3>1 DEF Taken
    <3>2. CASE /\ GotoR(a, "deduct")
               /\ rbFailed' = [rbFailed EXCEPT ![o] =
                                 rbFailed[o] \cup (IF Taken(o) THEN {"unread"} ELSE {})]
      <4>1. CASE Taken(o)
        BY <1>2, <2>1, <3>2, <4>1 DEF Taken
      <4>2. CASE ~Taken(o)
        <5>1. UNCHANGED rbFailed
          BY <1>1, <3>2, <4>2
        <5> QED
          BY <1>2, <2>1, <3>2, <4>2, <5>1 DEF Taken
      <4> QED
        BY <4>1, <4>2
    <3>3. CASE refund' = [refund EXCEPT ![a].pc = "gateway", ![a].take = 0] /\ UNCHANGED rbFailed
      BY <1>1, <2>1, <3>3 DEF Plans
    <3> QED
      BY <1>13, <3>1, <3>2, <3>3 DEF LookForRollback
  <2>3. faults' \in Nat /\ faults' >= faults
    BY <1>3, <1>13 DEF LookForRollback
  <2>4. AdminTouches(a, o)
    BY <1>1, <2>1, <2>2 DEF AdminTouches, PlanMoves
  <2>5. ASSUME Account(o), Books(a, o) PROVE Account(o)' /\ Books(a, o)'
    <3>1. returned[o] = 0 /\ (rbFailed[o] = {} => deducted[o] = 0) /\ deducted[o] >= 0
      BY <2>1, <2>5 DEF Account, Books
    <3>2. CASE UNCHANGED rbFailed
      <4>1. Account(o)'
        BY <2>1, <2>5, <3>2 DEF Account, Status
      <4> QED
        BY <1>1, <2>1, <2>2, <3>1, <3>2, <4>1 DEF Books, PlanMoves
    <3>3. CASE /\ PlanMoves(a, o, "deduct") /\ "row" \in rbFailed[o]
               /\ rbFailed' = [rbFailed EXCEPT ![o] = rbFailed[o] \cup {"unread"}]
      <4>1. {"row", "unread"} \subseteq rbFailed'[o]
        BY <1>1, <3>3
      <4> QED
        BY <2>1, <2>5, <3>1, <3>3, <4>1 DEF Account, Books, PlanMoves, Status
    <3> QED
      BY <2>2, <3>2, <3>3
  <2> QED
    BY <1>7, <2>1, <2>3, <2>4, <2>5
<1>14. CASE Deduct(a, o)
  <2>1. PICK out \in Outcomes :
           /\ Write(out)
           /\ IF Applied(out) /\ ~revoked[o]
              THEN deducted' = [deducted EXCEPT ![o] = deducted[o] + refund[a].take]
              ELSE UNCHANGED deducted
           /\ GotoR(a, IF out = "ok" /\ ~revoked[o] THEN "gateway" ELSE "restore")
    BY <1>14 DEF Deduct
  <2>2. /\ refund[a].pc = "deduct" /\ refund[a].o = o
        /\ UNCHANGED <<order, workVars, grantVars, returned, rbFailed>>
    BY <1>14 DEF Deduct, Busy
  <2>3. faults' \in Nat /\ faults' >= faults
    BY <1>3, <2>1
  <2>4. /\ PlanMoves(a, o, IF out = "ok" /\ ~revoked[o] THEN "gateway" ELSE "restore")
        /\ \A p \in Orders : p # o => deducted'[p] = deducted[p]
        /\ IF Applied(out) /\ ~revoked[o]
           THEN deducted'[o] = deducted[o] + refund[a].take ELSE deducted'[o] = deducted[o]
    BY <1>1, <1>2, <2>1, <2>2
  <2>5. AdminTouches(a, o)
    BY <2>2, <2>4 DEF AdminTouches, PlanMoves
  <2>6. ASSUME "unknown" \notin FaultKinds, Account(o), Books(a, o) PROVE Account(o)' /\ Books(a, o)'
    <3>1. rbFailed[o] = {} => deducted[o] = 0
      BY <2>2, <2>6 DEF Books
    <3>2. rbFailed[o] \subseteq {"row"} => rbFailed[o] = {}
      <4>1. rbFailed[o] # {"row"}
        BY <2>2, <2>6 DEF Books
      <4> QED
        BY <4>1
    <3>3. CASE out = "ok" /\ ~revoked[o]
      <4>1. deducted'[o] = deducted[o] + refund[a].take /\ PlanMoves(a, o, "gateway")
        BY <2>4, <3>3 DEF Applied
      <4>2. deducted'[o] >= refund[a].take /\ (rbFailed[o] = {} => deducted'[o] = refund[a].take)
        BY <1>1, <2>6, <3>1, <4>1 DEF Account
      <4>3. deducted'[o] >= 0 /\ (rbFailed[o] \subseteq {"row"} => deducted'[o] <= Amount)
        BY <1>1, <3>2, <4>1, <4>2, <2>6 DEF Account
      <4>4. Account(o)'
        BY <1>5, <2>2, <2>6, <4>3 DEF Account, Later, Status
      <4> QED
        BY <2>2, <2>6, <4>1, <4>2, <4>4 DEF Books, PlanMoves
    <3>4. CASE ~(out = "ok" /\ ~revoked[o])
      <4>1. deducted'[o] = deducted[o] /\ PlanMoves(a, o, "restore")
        BY <1>6, <2>1, <2>4, <2>6, <3>4
      <4> QED
        BY <2>2, <2>6, <3>1, <4>1 DEF Account, Books, PlanMoves, Status
    <3> QED
      BY <3>3, <3>4
  <2> QED
    BY <1>7, <2>2, <2>3, <2>5, <2>6
<1>15. CASE GatewayRefund(a, o)
  <2>1. \/ PlanMoves(a, o, "finish") /\ UNCHANGED returned
        \/ \E out \in {"ok", "provider", "unknown"} :
             /\ Write(out)
             /\ returned' = [returned EXCEPT ![o] = IF out = "provider" THEN returned[o] ELSE returned[o] + refund[a].amt]
             /\ PlanMoves(a, o, IF out = "ok" THEN "finish" ELSE "rollback")
    BY <1>2, <1>15 DEF GatewayRefund, AfterGateway, Busy
  <2>2. /\ refund[a].pc = "gateway" /\ refund[a].o = o
        /\ UNCHANGED <<order, workVars, grantVars, deducted, rbFailed>>
    BY <1>15 DEF GatewayRefund, Busy
  <2>3. faults' \in Nat /\ faults' >= faults
    BY <1>3, <1>15 DEF GatewayRefund
  <2>4. AdminTouches(a, o)
    BY <1>1, <2>1, <2>2 DEF AdminTouches, PlanMoves
  <2>5. ASSUME "unknown" \notin FaultKinds, Account(o), Books(a, o) PROVE Account(o)' /\ Books(a, o)'
    <3>1. /\ refund'[a].o = o /\ refund'[a].take = refund[a].take
          /\ refund'[a].pc \in {"finish", "rollback"}
          /\ refund'[a].pc = "rollback" => returned'[o] = returned[o]
      BY <1>1, <2>1, <2>5 DEF PlanMoves, Write, Fault
    <3>2. Status(o) \in Later
      BY <1>5, <2>2 DEF Later
    <3> QED
      BY <2>2, <2>5, <3>1, <3>2 DEF Account, Books, Status
  <2> QED
    BY <1>7, <2>2, <2>3, <2>4, <2>5
<1>16. CASE Rollback(a, o)
  <2>1. /\ refund[a].pc = "rollback" /\ refund[a].o = o
        /\ UNCHANGED <<order, workVars, grantVars, returned, rbFailed>>
    BY <1>16 DEF Rollback, Busy
  <2>2. faults' \in Nat /\ faults' >= faults
    BY <1>3, <1>16 DEF Rollback
  <2>3. /\ \A p \in Orders : p # o => deducted'[p] = deducted[p]
        /\ \/ refund[a].take = 0 /\ deducted'[o] = deducted[o] /\ PlanMoves(a, o, "restore")
           \/ deducted'[o] = deducted[o] /\ PlanMoves(a, o, "audit")
           \/ deducted'[o] = deducted[o] - refund[a].take /\ (PlanMoves(a, o, "restore") \/ PlanMoves(a, o, "audit"))
    <3>1. \/ refund[a].take = 0 /\ UNCHANGED deducted /\ PlanMoves(a, o, "restore")
          \/ UNCHANGED deducted /\ PlanMoves(a, o, "audit")
          \/ \E out \in Outcomes :
               /\ deducted' = IF Applied(out) THEN [deducted EXCEPT ![o] = deducted[o] - refund[a].take]
                              ELSE deducted
               /\ PlanMoves(a, o, IF out = "ok" THEN "restore" ELSE "audit")
      BY <1>2, <1>16, <2>1 DEF Rollback
    <3>2. ASSUME NEW out \in Outcomes,
                 deducted' = IF Applied(out) THEN [deducted EXCEPT ![o] = deducted[o] - refund[a].take]
                             ELSE deducted,
                 PlanMoves(a, o, IF out = "ok" THEN "restore" ELSE "audit")
          PROVE  /\ \A p \in Orders : p # o => deducted'[p] = deducted[p]
                 /\ \/ deducted'[o] = deducted[o] /\ PlanMoves(a, o, "audit")
                    \/ /\ deducted'[o] = deducted[o] - refund[a].take
                       /\ PlanMoves(a, o, "restore") \/ PlanMoves(a, o, "audit")
      <4>1. CASE out = "lost"
        BY <3>2, <4>1 DEF Applied
      <4>2. CASE out # "lost"
        BY <1>1, <3>2, <4>2 DEF Applied
      <4> QED
        BY <4>1, <4>2
    <3> QED
      BY <3>1, <3>2
  <2>4. AdminTouches(a, o)
    BY <2>1, <2>3 DEF AdminTouches, PlanMoves
  <2>5. ASSUME Account(o), Books(a, o) PROVE Account(o)' /\ Books(a, o)'
    <3>1. deducted[o] >= refund[a].take /\ (rbFailed[o] = {} => deducted[o] = refund[a].take)
      BY <2>1, <2>5 DEF Books
    <3>2. Status(o) \in Later /\ returned[o] = 0
      BY <1>5, <2>1, <2>5 DEF Later, Books
    <3>3. /\ deducted'[o] >= 0 /\ deducted'[o] <= deducted[o] /\ deducted'[o] \in Int
          /\ rbFailed[o] = {} /\ refund'[a].pc = "restore" => deducted'[o] = 0
      BY <1>1, <2>3, <2>5, <3>1 DEF PlanMoves, Account
    <3>4. refund'[a].pc \in {"restore", "audit"}
      BY <2>3 DEF PlanMoves
    <3>5. rbFailed[o] \subseteq {"row"} => deducted'[o] <= Amount
      BY <1>1, <2>5, <3>3 DEF Account
    <3> QED
      BY <2>1, <3>2, <3>3, <3>4, <3>5 DEF Account, Books, Status
  <2> QED
    BY <1>7, <2>1, <2>2, <2>4, <2>5
<1>17. CASE AuditRollback(a, o)
  <2>1. /\ refund[a].pc = "audit" /\ refund[a].o = o /\ PlanMoves(a, o, "failed")
        /\ UNCHANGED <<order, workVars, grantVars, deducted, returned>>
        /\ \E x \in {"row", "lost"} : rbFailed' = [rbFailed EXCEPT ![o] = rbFailed[o] \cup {x}]
    BY <1>2, <1>17 DEF AuditRollback, Busy
  <2>2. faults' \in Nat /\ faults' >= faults
    BY <1>3, <1>17 DEF AuditRollback
  <2>3. /\ \A p \in Orders : p # o => rbFailed'[p] = rbFailed[p]
        /\ rbFailed'[o] # {} /\ rbFailed[o] \subseteq rbFailed'[o]
    BY <1>1, <2>1
  <2>4. AdminTouches(a, o)
    BY <2>1, <2>3 DEF AdminTouches, PlanMoves
  <2>5. ASSUME Account(o), Books(a, o) PROVE Account(o)' /\ Books(a, o)'
    BY <2>1, <2>3, <2>5 DEF Account, Books, PlanMoves, Status
  <2> QED
    BY <1>7, <2>1, <2>2, <2>4, <2>5
<1>18. CASE MarkRefundFailed(a, o)
  <2>1. refund[a].pc = "failed" /\ refund[a].o = o /\ Settle(a, o, "REFUND_FAILED")
    BY <1>18 DEF MarkRefundFailed, Busy
  <2>2. "REFUND_FAILED" \in Settled
    BY DEF Settled, RefundStatuses
  <2>3. Balanced => returned[o] = 0 /\ rbFailed[o] # {}
    BY <2>1 DEF Balanced, Books
  <2> QED
    BY <2>1, <2>2, <2>3, SettleStep
<1>19. CASE RestoreStatus(a, o)
  <2>1. PICK status \in {"REFUND_REQUESTED", "COMPLETED"} : Settle(a, o, status)
    BY <1>19 DEF RestoreStatus
  <2>2. refund[a].pc = "restore" /\ refund[a].o = o /\ status \in Settled
    BY <1>19 DEF RestoreStatus, Busy, Settled, RefundStatuses
  <2>3. Balanced => returned[o] = 0 /\ (rbFailed[o] = {} => deducted[o] = 0)
    BY <2>2 DEF Balanced, Books
  <2> QED
    BY <2>1, <2>2, <2>3, SettleStep
<1>20. CASE MarkRefundOk(a, o)
  <2>1. PICK status \in {"REFUNDED", "PARTIALLY_REFUNDED"} : Settle(a, o, status)
    BY <1>20 DEF MarkRefundOk, RefundResult
  <2>2. refund[a].pc = "finish" /\ refund[a].o = o /\ status \in Settled /\ status \in Later
    BY <1>20 DEF MarkRefundOk, Busy, Settled, RefundStatuses, Later
  <2> QED
    BY <2>1, <2>2, SettleStep
<1> QED
  BY <1>11, <1>12, <1>13, <1>14, <1>15, <1>16, <1>17, <1>18, <1>19, <1>20 DEF RefundStep

----------------------------------------------------------------------------
(* The refund as a whole *)

\* What the fulfilment of an order leaves of a fulfilled one.
LEMMA OrderStep ==
  ASSUME RefundTypeOK, Consistent, RefundExclusive, Next, UNCHANGED refundVars
  PROVE  Consistent' /\ RefundExclusive' /\ (Balanced => Balanced')
<1>1. Consistent' /\ Forward
  BY NextConsistent DEF RefundTypeOK
<1>2. \A o \in Orders : Status(o) \in Settled => Status(o)' = Status(o)
  BY <1>1 DEF Forward, Status
<1>3. RefundExclusive'
  BY <1>2 DEF RefundExclusive, Refunding, refundVars, Settled, RefundStatuses
<1>4. ASSUME Balanced PROVE Balanced'
  BY <1>2, <1>4 DEF Balanced, Account, Books, refundVars, Later, Settled, RefundStatuses
<1> QED
  BY <1>1, <1>3, <1>4

\* Every step keeps the order consistent, the refund exclusive and the account balanced.
LEMMA RefundNextStep ==
  ASSUME RefundTypeOK, Consistent, RefundExclusive, [RefundNext]_allVars
  PROVE  Consistent' /\ RefundExclusive' /\ ("unknown" \notin FaultKinds /\ Balanced => Balanced')
<1>1. TypeOK /\ faults \in Nat /\ refund \in [Admins -> Plans] /\ order \in [Orders -> Rows]
  BY DEF RefundTypeOK, TypeOK
<1>2. ASSUME NEW o \in Orders, RequestRefund(o)
      PROVE  Consistent' /\ RefundExclusive' /\ (Balanced => Balanced')
  <2>1. /\ Status(o) = "COMPLETED" /\ SetStatus(o, "REFUND_REQUESTED")
        /\ UNCHANGED <<workVars, grantVars, faults, refundVars>>
    BY <1>2 DEF RequestRefund
  <2>2. Consistent'
    <3>1. faults' \in Nat /\ faults' >= faults
      BY <1>1, <2>1
    <3> QED
      BY <1>1, <2>1, <3>1, RowFrame DEF Settled, RefundStatuses
  <2>3. \A p \in Orders : Status(p)' = IF p = o THEN "REFUND_REQUESTED" ELSE Status(p)
    BY <1>1, <2>1, RowMoves DEF Turns, SameOthers, Status
  <2>4. RefundExclusive'
    BY <2>1, <2>3 DEF RefundExclusive, Refunding, refundVars
  <2>5. Balanced => Balanced'
    BY <2>1, <2>3 DEF Balanced, Account, Books, refundVars, Later
  <2> QED
    BY <2>2, <2>4, <2>5
<1>3. ASSUME NEW a \in Admins, CrashAdmin(a)
      PROVE  Consistent' /\ RefundExclusive' /\ (Balanced => Balanced')
  <2>1. /\ UNCHANGED <<order, workVars, grantVars, ledger>> /\ Fault("crash")
        /\ refund'[a].pc = "idle" /\ \A b \in Admins : b # a => refund'[b] = refund[b]
    BY <1>1, <1>3 DEF CrashAdmin, ReturnR, NoPlan
  <2>2. Consistent'
    <3>1. faults' \in Nat /\ faults' >= faults
      BY <1>1, <2>1, FaultsGrow
    <3> QED
      BY <1>1, <2>1, <3>1, RowFrame
  <2>3. RefundExclusive'
    BY <2>1 DEF RefundExclusive, Refunding, Status
  <2>4. Balanced => Balanced'
    BY <2>1 DEF Balanced, Account, Books, Status, ledger
  <2> QED
    BY <2>2, <2>3, <2>4
<1>4. ASSUME UNCHANGED <<vars, refund, deducted, returned, revoked, rbFailed>>
      PROVE  Consistent' /\ RefundExclusive' /\ (Balanced => Balanced')
  <2>1. Consistent'
    BY <1>4, NextConsistent, <1>1
  <2>2. RefundExclusive'
    BY <1>4 DEF RefundExclusive, Refunding, Status, vars
  <2>3. Balanced => Balanced'
    BY <1>4 DEF Balanced, Account, Books, Status, vars
  <2> QED
    BY <2>1, <2>2, <2>3
<1>5. CASE Spend
  BY <1>4, <1>5 DEF Spend
<1>6. CASE UNCHANGED allVars
  BY <1>4, <1>6 DEF allVars, refundVars
<1> QED
  BY <1>2, <1>3, <1>5, <1>6, OrderStep, AdminStep DEF RefundNext

\* With refunds going on, what is said of the fulfilment of orders stays true.
THEOREM OrdersStayConsistent == RefundSpec => [](Consistent /\ RefundExclusive)
<1>1. RefundInit => Consistent /\ RefundExclusive
  BY InitConsistent DEF RefundInit, RefundExclusive, Refunding, NoPlan
<1>2. RefundTypeOK /\ Consistent /\ RefundExclusive /\ [RefundNext]_allVars => Consistent' /\ RefundExclusive'
  BY RefundNextStep
<1> QED
  BY <1>1, <1>2, RefundTypeCorrect, PTL DEF RefundSpec

\* Past its lock a refund is alone on its order, which stays REFUNDING, for any
\* failures: the final writes, which are by id, overwrite no other handler's.
THEOREM RefundsExclude == RefundSpec => []RefundExclusive
BY OrdersStayConsistent, PTL

\* The account, where no write is applied and reported lost.
LEMMA AlwaysBalanced ==
  ASSUME "unknown" \notin FaultKinds
  PROVE  RefundSpec => []Balanced
<1>1. RefundInit => Balanced
  <2> SUFFICES ASSUME RefundInit PROVE Balanced
    OBVIOUS
  <2>1. Amount \in Nat
    BY RefundAssumption
  <2>2. ASSUME NEW o \in Orders PROVE Account(o)
    BY <2>1 DEF RefundInit, Account
  <2>3. ASSUME NEW o \in Orders, NEW a \in Admins PROVE Books(a, o)
    BY DEF RefundInit, NoPlan, Books
  <2> QED
    BY <2>2, <2>3 DEF Balanced
<1>2. /\ RefundTypeOK /\ Consistent /\ RefundExclusive /\ Balanced /\ [RefundNext]_allVars
      => Balanced'
  BY RefundNextStep
<1> QED
  BY <1>1, <1>2, RefundTypeCorrect, OrdersStayConsistent, PTL DEF RefundSpec

\* However often a refund is retried, the user is charged at most once, unless the row
\* of a failed rollback was not written, or could not be read by the retry.
THEOREM ChargedOnce ==
  ASSUME "unknown" \notin FaultKinds
  PROVE  RefundSpec => []DeductedOnce
<1>1. RefundTypeOK /\ Balanced => DeductedOnce
  <2> SUFFICES ASSUME RefundTypeOK, Balanced, NEW o \in Orders
               PROVE  /\ deducted[o] >= 0
                      /\ deducted[o] > Amount => rbFailed[o] \cap {"lost", "unread"} # {}
    BY DEF DeductedOnce
  <2>1. Account(o) /\ deducted[o] \in Int /\ Amount \in Nat
    BY RefundAssumption DEF Balanced, RefundTypeOK
  <2>2. rbFailed[o] \cap {"lost", "unread"} = {} => rbFailed[o] \subseteq {"row"}
    BY DEF RefundTypeOK
  <2> QED
    BY <2>1, <2>2 DEF Account
<1> QED
  BY <1>1, AlwaysBalanced, RefundTypeCorrect, PTL

\* A refund that failed and left the order refundable has cost the user nothing,
\* unless its rollback failed.
THEOREM FailureRestores ==
  ASSUME "unknown" \notin FaultKinds
  PROVE  RefundSpec => []FailedRefundRestores
<1>1. Balanced => FailedRefundRestores
  BY DEF Balanced, Account, Later, FailedRefundRestores
<1> QED
  BY <1>1, AlwaysBalanced, PTL

\* Money the provider has paid back is never on an order that can be refunded
\* again, and the order had granted its benefit.
THEOREM ReturnsFinal ==
  ASSUME "unknown" \notin FaultKinds
  PROVE  RefundSpec => []ReturnedIsFinal
<1>1. Balanced /\ Consistent => ReturnedIsFinal
  BY DEF Balanced, Account, Later, Consistent, RowConsistent, Settled, RefundStatuses, ReturnedIsFinal
<1> QED
  BY <1>1, AlwaysBalanced, OrdersStayConsistent, PTL
=============================================================================
