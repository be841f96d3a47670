------------------------- MODULE BillingCacheProofs -------------------------
(***************************************************************************)
(* Proofs about BillingCache for every number of requests and workers, any *)
(* queue size and threshold and any number of credits and faults.          *)
(***************************************************************************)
EXTENDS BillingCache, FiniteSetTheorems, FunctionTheorems, SequenceTheorems, TLAPS

\* A set to a balance is a task, and a deduction is not one.
LEMMA TaskKinds ==
  /\ Deduct \in Tasks /\ Deduct # None
  /\ \A b \in Int : SetTo(b) \in Tasks /\ SetTo(b) # Deduct /\ SetTo(b).balance = b
  /\ \A x \in Tasks : x # None /\ (x # Deduct => x.balance \in Int)
<1>1. \A b \in Int : SetTo(b) \in [kind : {"set"}, balance : Int]
  BY DEF SetTo
<1>2. \A x \in [kind : {"set"}, balance : Int] : x.kind = "set" /\ x.balance \in Int
  OBVIOUS
<1>3. Deduct.kind = "deduct"
  BY DEF Deduct
<1> QED
  BY <1>1, <1>2, <1>3, CacheAssumption DEF Tasks, SetTo

\* The breaker keeps its type through every verdict it gives and learns, and
\* what it learns never leaves it half open.
LEMMA BreakerTypes ==
  ASSUME BreakerOK
  PROVE  /\ Allowed(breaker) /\ breaker' = AfterAllow(breaker) => BreakerOK'
         /\ breaker' = OnFailure(breaker) => BreakerOK' /\ breaker'.state # "halfopen"
         /\ breaker' = OnSuccess(breaker) => BreakerOK' /\ breaker'.state # "halfopen"
<1> USE DEF BreakerOK, Breakers
<1>1. /\ Threshold \in Nat /\ 0 < Threshold /\ HalfOpen \in Nat
      /\ 0 \in 0 .. Threshold /\ 0 \in 0 .. HalfOpen /\ HalfOpen - 1 \in 0 .. HalfOpen
  BY CacheAssumption
<1>2. breaker.failures \in Nat /\ breaker.failures <= Threshold /\ breaker.remaining \in 0 .. HalfOpen
  BY <1>1
<1>3. ASSUME Allowed(breaker), breaker' = AfterAllow(breaker) PROVE BreakerOK'
  <2>1. CASE breaker.state = "closed"
    BY <1>3, <2>1 DEF AfterAllow
  <2>2. CASE breaker.state = "open"
    BY <1>1, <1>3, <2>2 DEF AfterAllow
  <2>3. CASE breaker.state = "halfopen"
    <3>1. breaker.remaining - 1 \in 0 .. HalfOpen
      BY <1>1, <1>2, <1>3, <2>3 DEF Allowed
    <3> QED
      BY <1>3, <2>3, <3>1 DEF AfterAllow
  <2> QED
    BY <2>1, <2>2, <2>3
<1>4. ASSUME breaker' = OnFailure(breaker) PROVE BreakerOK' /\ breaker'.state # "halfopen"
  <2>1. CASE breaker.state = "closed"
    <3>1. breaker.failures + 1 \in 0 .. Threshold
      BY <1>1, <1>2, <2>1
    <3>2. CASE breaker.failures + 1 >= Threshold
      <4>1. breaker' = [Opened(breaker) EXCEPT !.failures = breaker.failures + 1]
        BY <1>4, <2>1, <3>2 DEF OnFailure, Opened
      <4> QED
        BY <1>1, <3>1, <4>1 DEF Opened
    <3>3. CASE ~(breaker.failures + 1 >= Threshold)
      <4>1. breaker' = [breaker EXCEPT !.failures = breaker.failures + 1]
        BY <1>4, <2>1, <3>3 DEF OnFailure
      <4>2. breaker' \in Breakers /\ breaker'.failures = breaker.failures + 1
        BY <3>1, <4>1
      <4> QED
        BY <1>1, <1>2, <2>1, <3>3, <4>1, <4>2
    <3> QED
      BY <3>2, <3>3
  <2>2. CASE breaker.state = "open"
    BY <1>4, <2>2 DEF OnFailure
  <2>3. CASE breaker.state = "halfopen"
    BY <1>1, <1>4, <2>3 DEF OnFailure, Opened
  <2> QED
    BY <2>1, <2>2, <2>3
<1>5. ASSUME breaker' = OnSuccess(breaker) PROVE BreakerOK' /\ breaker'.state # "halfopen"
  BY <1>1, <1>5 DEF OnSuccess
<1> QED
  BY <1>3, <1>4, <1>5

\* A flight that lands leaves nobody leading, and those it brings to p are its
\* leader and requests that waited.
LEMMA Landing ==
  ASSUME FlightOK, NEW r \in Requests, leader = r,
         NEW x \in Int \cup {None}, NEW p \in Pcs \ {"read", "checkset", "send"},
         Land(r, x, p)
  PROVE  /\ FlightOK' /\ pc'[r] = p
         /\ \A q \in Requests : pc'[q] = pc[q] \/ (pc'[q] = p /\ pc[q] \in {"load", pc[r]})
<1>1. PICK joined \in SUBSET {q \in Requests : At(q, "load")} :
        /\ pc' = [q \in Requests |-> IF q \in joined \cup {r} THEN p ELSE pc[q]]
        /\ value' = [q \in Requests |-> IF q \in joined \cup {r} THEN x ELSE value[q]]
  BY DEF Land
<1>2. \A q \in Requests : pc[q] \in {"read", "checkset", "send"} => q = r
  BY DEF FlightOK
<1>3. \A q \in Requests : pc'[q] \notin {"read", "checkset", "send"}
  BY <1>1, <1>2
<1>4. leader' = None
  BY DEF Land
<1>5. pc' \in [Requests -> Pcs] /\ value' \in [Requests -> Int \cup {None}]
  BY <1>1 DEF FlightOK
<1>6. pc'[r] = p /\ \A q \in Requests : pc'[q] = pc[q] \/ (pc'[q] = p /\ pc[q] \in {"load", pc[r]})
  BY <1>1 DEF At
<1> QED
  BY <1>3, <1>4, <1>5, <1>6, CacheAssumption DEF FlightOK

\* Where the steps of a request leave it and the flight.
LEMMA FlightSteps ==
  ASSUME TypeOK, [Next]_vars PROVE FlightOK'
<1> USE DEF TypeOK, DataOK
<1>4. CASE Crash
  <2>1. pc' \in [Requests -> {"idle", "done"}] /\ leader' = None /\ UNCHANGED value
    BY <1>4 DEF Crash
  <2> QED
    BY <2>1, CacheAssumption DEF FlightOK, Pcs
<1>1. ASSUME NEW r \in Requests, Check(r) PROVE FlightOK'
  BY <1>1 DEF Check, Goto, At, Pcs, FlightOK
<1>2. ASSUME NEW r \in Requests, RequestStep(r) PROVE FlightOK'
  <2> DEFINE Landed == \E x \in Int \cup {None}, p \in Pcs \ {"read", "checkset", "send"} :
                         leader = r /\ Land(r, x, p)
  <2>1. Landed => FlightOK'
    BY Landing
  <2>2. {"report", "panicked"} \subseteq Pcs \ {"read", "checkset", "send"}
    BY DEF Pcs
  <2>3. CASE GetUserBalance(r)
    BY <2>3 DEF GetUserBalance, Goto, At, Pcs, FlightOK
  <2>4. CASE Lead(r)
    BY <2>4, CacheAssumption DEF Lead, Goto, At, Pcs, FlightOK
  <2>5. CASE ReadBalance(r)
    <3>1. leader = r
      BY <2>5 DEF ReadBalance, At, FlightOK
    <3>2. CASE Land(r, None, "report")
      BY <2>1, <2>2, <3>1, <3>2
    <3>3. CASE value' = [value EXCEPT ![r] = db] /\ Goto(r, "checkset") /\ UNCHANGED leader
      BY <3>1, <3>3 DEF Goto, Pcs, FlightOK
    <3> QED
      BY <2>5, <3>2, <3>3 DEF ReadBalance
  <2>6. CASE CheckStopped(r)
    <3>1. CASE At(r, "checkset") /\ Land(r, value[r], "report")
      <4>1. leader = r /\ value[r] \in Int
        BY <3>1 DEF At, FlightOK
      <4> QED
        BY <2>1, <2>2, <3>1, <4>1
    <3>2. CASE ~(At(r, "checkset") /\ Land(r, value[r], "report"))
      BY <2>6, <3>2 DEF CheckStopped, Goto, At, Pcs, FlightOK
    <3> QED
      BY <3>1, <3>2
  <2>7. CASE SendSet(r)
    <3>1. leader = r /\ value[r] \in Int
      BY <2>7 DEF SendSet, At, FlightOK
    <3>2. Land(r, None, "panicked") \/ Land(r, value[r], "report")
      BY <2>7 DEF SendSet
    <3> QED
      BY <2>1, <2>2, <3>1, <3>2
  <2>8. CASE Report(r)
    BY <2>8 DEF Report, Goto, At, Pcs, FlightOK
  <2>9. CASE Charge(r)
    BY <2>9 DEF Charge, Goto, At, Pcs, FlightOK
  <2>10. CASE SendDeduct(r)
    BY <2>10 DEF SendDeduct, Goto, At, Pcs, FlightOK, Unqueued
  <2>11. CASE DeductBalanceCache(r)
    BY <2>11 DEF DeductBalanceCache, Goto, At, Pcs, FlightOK
  <2> QED
    BY <1>2, <2>3, <2>4, <2>5, <2>6, <2>7, <2>8, <2>9, <2>10, <2>11 DEF RequestStep
<1>3. CASE UNCHANGED <<pc, value, leader>>
  BY <1>3 DEF FlightOK
<1> QED
  BY <1>1, <1>2, <1>3, <1>4 DEF Next, vars, Take, Write, ResetTimeout, Credit,
     InvalidateUserBalance, Expire, Stop

\* The breaker changes only when it is asked, when it learns, and when its
\* timeout runs out.
LEMMA BreakerSteps ==
  ASSUME TypeOK, [Next]_vars PROVE BreakerOK'
<1> USE DEF TypeOK
<1>1. ASSUME NEW r \in Requests, Check(r) PROVE BreakerOK'
  BY <1>1, BreakerTypes DEF Check, BreakerOK
<1>2. ASSUME NEW r \in Requests, Report(r) PROVE BreakerOK'
  BY <1>2, BreakerTypes DEF Report
<1>3. CASE ResetTimeout
  BY <1>3 DEF ResetTimeout, BreakerOK, Breakers
<1>4. CASE UNCHANGED breaker
  BY <1>4 DEF BreakerOK
<1>5. CASE Crash
  BY <1>5, CacheAssumption DEF Crash, NewBreaker, BreakerOK, Breakers
<1> QED
  BY <1>1, <1>2, <1>3, <1>4, <1>5 DEF Next, vars, Take, Write, Credit, InvalidateUserBalance,
     Expire, Stop, RequestStep, GetUserBalance, Lead, ReadBalance, CheckStopped, SendSet,
     Charge, SendDeduct, DeductBalanceCache

\* What is queued is a task and there is room for it; what a worker takes is one.
LEMMA WriteSteps ==
  ASSUME TypeOK, [Next]_vars PROVE WritesOK'
<1> USE DEF TypeOK
<1>1. ASSUME NEW x \in Tasks, ~Full, queue' = Append(queue, x), UNCHANGED busy PROVE WritesOK'
  <2>1. queue' \in Seq(Tasks) /\ Len(queue') = Len(queue) + 1
    BY <1>1 DEF WritesOK
  <2> QED
    BY <1>1, <2>1, CacheAssumption, LenProperties DEF WritesOK, Full
<1>2. CASE UNCHANGED <<queue, busy>>
  BY <1>2 DEF WritesOK
<1>3. ASSUME NEW r \in Requests, SendSet(r) PROVE WritesOK'
  <2>1. value[r] \in Int
    BY <1>3 DEF SendSet, At, FlightOK
  <2> QED
    BY <1>1, <1>2, <1>3, <2>1, TaskKinds DEF SendSet
<1>4. ASSUME NEW r \in Requests, SendDeduct(r) PROVE WritesOK'
  BY <1>1, <1>2, <1>4, TaskKinds DEF SendDeduct
<1>5. ASSUME NEW w \in Workers, Take(w) PROVE WritesOK'
  <2>1. queue \in Seq(Tasks) /\ queue # <<>>
    BY <1>5 DEF Take, WritesOK
  <2>2. /\ Head(queue) \in Tasks /\ Tail(queue) \in Seq(Tasks)
        /\ Len(queue) \in Nat /\ Len(Tail(queue)) = Len(queue) - 1
    BY <2>1, HeadTailProperties, LenProperties
  <2> QED
    BY <1>5, <2>2, CacheAssumption DEF Take, WritesOK
<1>6. ASSUME NEW w \in Workers, Write(w) PROVE WritesOK'
  BY <1>6 DEF Write, WritesOK
<1>7. CASE Crash
  <2>1. queue' = <<>> /\ busy' \in [Workers -> {None}]
    BY <1>7 DEF Crash
  <2> QED
    BY <2>1, CacheAssumption DEF WritesOK
<1> QED
  BY <1>2, <1>3, <1>4, <1>5, <1>6, <1>7 DEF Next, vars, Check, ResetTimeout, Credit,
     InvalidateUserBalance, Expire, Stop, RequestStep, GetUserBalance, Lead, ReadBalance,
     CheckStopped, Report, Charge, DeductBalanceCache

\* What is pending is a number.
LEMMA PendingType == TypeOK => Pending \in Nat
<1> SUFFICES ASSUME TypeOK PROVE Pending \in Nat
  OBVIOUS
<1>1. IsFiniteSet(DOMAIN queue)
  <2>1. Len(queue) \in Nat /\ DOMAIN queue = 1 .. Len(queue)
    BY LenProperties DEF TypeOK, WritesOK
  <2> QED
    BY <2>1, FS_Interval
<1>2. /\ Cardinality({r \in Requests : pc[r] \in Owed}) \in Nat
      /\ Cardinality({i \in DOMAIN queue : queue[i] = Deduct}) \in Nat
      /\ Cardinality({w \in Workers : busy[w] = Deduct}) \in Nat
  BY <1>1, CacheAssumption, FS_Subset, FS_CardinalityType
<1> QED
  BY <1>2 DEF Pending

\* The balance, its entry and the counters.
LEMMA DataSteps ==
  ASSUME TypeOK, [Next]_vars PROVE DataOK'
<1> USE CacheAssumption DEF TypeOK
<1>8. CASE Crash
  <2>1. missed' \in Nat
    BY <1>8, PendingType DEF Crash, DataOK
  <2>2. /\ credits' \in [made : 0 .. MaxCredits, pending : 0 .. MaxCredits]
        /\ credits'.pending = 0 /\ credits'.made = credits.made /\ credits.made \in Nat
    BY <1>8 DEF Crash, DataOK
  <2>3. /\ UNCHANGED <<db, cache, tainted>> /\ stop' = "running"
        /\ faults' \in 0 .. MaxFaults
    BY <1>8 DEF Crash, Fails, DataOK
  <2> QED
    BY <2>1, <2>2, <2>3 DEF DataOK
<1>1. ASSUME NEW r \in Requests, RequestStep(r) PROVE DataOK'
  <2>1. CASE faults' \in 0 .. MaxFaults /\ UNCHANGED <<db, cache, stop, credits, tainted, missed>>
    BY <2>1 DEF DataOK
  <2>2. CASE Charge(r) \/ SendDeduct(r) \/ DeductBalanceCache(r)
    <3>1. db' \in Int /\ cache' \in Int \cup {None} /\ UNCHANGED <<stop, credits>>
      BY <2>2 DEF DataOK, Charge, SendDeduct, DeductBalanceCache, DeductUserBalance
    <3>2. UNCHANGED tainted /\ missed' \in Nat
      BY <2>2 DEF DataOK, Charge, SendDeduct, DeductBalanceCache, DeductUserBalance, Miss
    <3>3. faults' \in 0 .. MaxFaults
      BY <2>2 DEF DataOK, Charge, SendDeduct, DeductBalanceCache, DeductUserBalance, Fails
    <3> QED
      BY <3>1, <3>2, <3>3 DEF DataOK
  <2>3. CASE GetUserBalance(r) \/ ReadBalance(r)
    BY <2>1, <2>3 DEF GetUserBalance, ReadBalance, Fails, DataOK
  <2> QED
    BY <1>1, <2>1, <2>2, <2>3 DEF RequestStep, Lead, CheckStopped, SendSet, Report, DataOK
<1>2. ASSUME NEW w \in Workers, Write(w) PROVE DataOK'
  <2>1. busy[w] \in Tasks
    BY <1>2 DEF Write, WritesOK
  <2>2. cache' \in Int \cup {None} /\ UNCHANGED <<db, stop, credits>>
    BY <1>2, <2>1, TaskKinds DEF Write, DeductUserBalance, DataOK
  <2>3. tainted' \in BOOLEAN
    BY <1>2 DEF Write, DataOK
  <2>5. missed' \in Nat
    BY <1>2 DEF Write, DeductUserBalance, Miss, DataOK
  <2>4. faults' \in 0 .. MaxFaults
    BY <1>2 DEF Write, DeductUserBalance, Fails, DataOK
  <2> QED
    BY <2>2, <2>3, <2>4, <2>5 DEF DataOK
<1>3. CASE Credit
  <2>1. credits.made + 1 \in 0 .. MaxCredits /\ credits.pending + 1 \in 0 .. MaxCredits
    BY <1>3 DEF Credit, DataOK
  <2> QED
    BY <1>3, <2>1 DEF Credit, DataOK
<1>7. CASE InvalidateUserBalance
  <2>1. credits.pending - 1 \in 0 .. MaxCredits /\ credits.made \in Nat
    BY <1>7 DEF InvalidateUserBalance, DataOK
  <2>2. /\ credits' \in [made : 0 .. MaxCredits, pending : 0 .. MaxCredits]
        /\ credits'.pending = credits.pending - 1 /\ credits'.made = credits.made
    BY <1>7, <2>1 DEF InvalidateUserBalance, DataOK
  <2>3. cache' \in Int \cup {None} /\ faults' \in 0 .. MaxFaults
    BY <1>7 DEF InvalidateUserBalance, Fails, DataOK
  <2>4. UNCHANGED <<db, stop, tainted, missed>>
    BY <1>7 DEF InvalidateUserBalance
  <2> QED
    BY <2>1, <2>2, <2>3, <2>4 DEF DataOK
<1>4. CASE Expire \/ Stop \/ ResetTimeout \/ UNCHANGED vars
  BY <1>4 DEF Expire, Stop, ResetTimeout, vars, Fails, DataOK
<1>5. ASSUME NEW r \in Requests, Check(r) PROVE DataOK'
  BY <1>5 DEF Check, DataOK
<1>6. ASSUME NEW w \in Workers, Take(w) PROVE DataOK'
  BY <1>6 DEF Take, DataOK
<1> QED
  BY <1>1, <1>2, <1>3, <1>4, <1>5, <1>6, <1>7, <1>8 DEF Next

\* Type correctness: every variable has its type, a single flight runs for its
\* leader only, and what it puts in the queue is a balance.
THEOREM TypeCorrect == Spec => []TypeOK
<1>1. Init => TypeOK
  <2> SUFFICES ASSUME Init PROVE TypeOK
    OBVIOUS
  <2>1. FlightOK
    BY CacheAssumption DEF Init, FlightOK, Pcs
  <2>2. BreakerOK
    BY CacheAssumption DEF Init, NewBreaker, BreakerOK, Breakers
  <2>3. WritesOK
    BY CacheAssumption DEF Init, WritesOK
  <2>4. DataOK
    <3>1. 0 \in 0 .. MaxCredits /\ 0 \in 0 .. MaxFaults
      BY CacheAssumption
    <3>2. /\ credits \in [made : 0 .. MaxCredits, pending : 0 .. MaxCredits]
          /\ credits.pending = 0 /\ credits.made = 0
      BY <3>1 DEF Init
    <3>3. db \in Int /\ cache \in Int \cup {None} /\ tainted \in BOOLEAN /\ missed \in Nat
      BY CacheAssumption DEF Init
    <3> QED
      BY <3>1, <3>2, <3>3 DEF Init, DataOK
  <2> QED
    BY <2>1, <2>2, <2>3, <2>4 DEF TypeOK
<1>2. TypeOK /\ [Next]_vars => TypeOK'
  BY FlightSteps, BreakerSteps, WriteSteps, DataSteps DEF TypeOK
<1> QED
  BY <1>1, <1>2, PTL DEF Spec
----------------------------------------------------------------------------
\* Stop returns with no write left in the queue or with a worker, and none comes
\* after it: a channel that is gone takes none.
THEOREM StopDrainsWrites == Spec => []StopDrains
<1>1. Init => StopDrains
  BY DEF Init, StopDrains
<1>2. TypeOK /\ StopDrains /\ [Next]_vars => StopDrains'
  <2> SUFFICES ASSUME TypeOK, StopDrains, [Next]_vars, stop' = "gone"
               PROVE  queue' = <<>> /\ \A w \in Workers : busy'[w] = None
    BY DEF StopDrains
  <2>1. CASE Stop
    BY <2>1 DEF Stop, Drained
  <2>3. CASE Crash
    BY <2>3 DEF Crash
  <2>2. CASE ~Stop /\ ~Crash
    <3>1. stop = "gone" /\ queue = <<>> /\ \A w \in Workers : busy[w] = None
      BY <2>2 DEF StopDrains, Next, vars, Check, Take, Write, ResetTimeout, Credit,
         InvalidateUserBalance, Expire, RequestStep, GetUserBalance, Lead, ReadBalance,
         CheckStopped, SendSet, Report, Charge, SendDeduct, DeductBalanceCache
    <3> QED
      BY <2>2, <3>1 DEF Next, vars, Check, Take, Write, ResetTimeout, Credit, Open,
         InvalidateUserBalance, Expire, RequestStep, GetUserBalance, Lead, ReadBalance,
         CheckStopped, SendSet, Report, Charge, SendDeduct, DeductBalanceCache
  <2> QED
    BY <2>1, <2>2, <2>3
<1> QED
  BY <1>1, <1>2, TypeCorrect, PTL DEF Spec

\* The places of a request that the breaker has let through and that has not
\* reported to it yet.
Probing == {"get", "load", "read", "checkset", "send", "report"}

\* While the service runs, a step takes a request out of these places only by
\* reporting, and the channel is never closed under it.
LEMMA ProbesStay ==
  ASSUME TypeOK, [Next]_vars, ~Crash, stop' = "running", NEW q \in Requests, pc[q] \in Probing
  PROVE  pc'[q] \in Probing \/ Report(q)
<1> USE DEF TypeOK, Probing
<1>1. stop = "running"
  BY DEF Next, vars, Check, Take, Write, ResetTimeout, Credit, Stop,
     InvalidateUserBalance, Expire, RequestStep, GetUserBalance, Lead, ReadBalance,
     CheckStopped, SendSet, Report, Charge, SendDeduct, DeductBalanceCache
<1>2. ASSUME NEW r \in Requests, NEW x \in Int \cup {None}, leader = r, Land(r, x, "report")
      PROVE  pc'[q] \in Probing
  <2>1. "report" \in Pcs \ {"read", "checkset", "send"}
    BY DEF Pcs
  <2> QED
    BY <1>2, <2>1, Landing
<1>3. CASE UNCHANGED pc
  BY <1>3
<1>4. ASSUME NEW r \in Requests, Check(r) PROVE pc'[q] \in Probing
  BY <1>4 DEF Check, Goto, At, FlightOK
<1>5. ASSUME NEW r \in Requests, RequestStep(r), ~Report(q) PROVE pc'[q] \in Probing
  <2>1. CASE GetUserBalance(r) \/ Lead(r)
    BY <2>1 DEF GetUserBalance, Lead, Goto, At, FlightOK
  <2>2. CASE ReadBalance(r)
    <3>1. leader = r
      BY <2>2 DEF ReadBalance, At, FlightOK
    <3> QED
      BY <1>2, <2>2, <3>1 DEF ReadBalance, Goto, FlightOK
  <2>3. CASE CheckStopped(r)
    <3>1. At(r, "checkset") => leader = r /\ value[r] \in Int
      BY DEF At, FlightOK
    <3> QED
      BY <1>2, <2>3, <3>1 DEF CheckStopped, Goto, At, FlightOK
  <2>4. CASE SendSet(r)
    <3>1. leader = r /\ value[r] \in Int /\ Land(r, value[r], "report")
      BY <1>1, <2>4 DEF SendSet, At, FlightOK, Closed
    <3> QED
      BY <1>2, <3>1
  <2>5. CASE Report(r)
    BY <1>5, <2>5 DEF Report, Goto, At, FlightOK
  <2>6. CASE Charge(r) \/ SendDeduct(r) \/ DeductBalanceCache(r)
    BY <2>6 DEF Charge, SendDeduct, DeductBalanceCache, Goto, At, FlightOK
  <2> QED
    BY <1>5, <2>1, <2>2, <2>3, <2>4, <2>5, <2>6 DEF RequestStep
<1> QED
  BY <1>3, <1>4, <1>5 DEF Next, vars, Take, Write, ResetTimeout, Credit,
     InvalidateUserBalance, Expire, Stop

\* A half-open breaker always has a probe on its way that will close or open it.
THEOREM HalfOpenIsProbed == Spec => []HalfOpenHasProbe
<1>1. Init => HalfOpenHasProbe
  BY DEF Init, NewBreaker, HalfOpenHasProbe
<1>2. TypeOK /\ HalfOpenHasProbe /\ [Next]_vars => HalfOpenHasProbe'
  <2> SUFFICES ASSUME TypeOK, HalfOpenHasProbe, [Next]_vars,
                      breaker'.state = "halfopen", stop' = "running"
               PROVE  \E r \in Requests : pc'[r] \in Probing
    BY DEF HalfOpenHasProbe, Probing
  <2>5. ~Crash
    BY DEF Crash, NewBreaker
  <2>1. stop = "running"
    BY <2>5 DEF Next, vars, Check, Take, Write, ResetTimeout, Credit, Stop,
       InvalidateUserBalance, Expire, RequestStep, GetUserBalance, Lead, ReadBalance,
       CheckStopped, SendSet, Report, Charge, SendDeduct, DeductBalanceCache
  <2>2. \A r \in Requests : ~Report(r)
    BY BreakerTypes DEF TypeOK, Report
  <2>3. CASE \E r \in Requests : Check(r) /\ pc'[r] = "get"
    BY <2>3 DEF Probing
  <2>4. CASE ~\E r \in Requests : Check(r) /\ pc'[r] = "get"
    <3>1. breaker.state = "halfopen"
      BY <2>2, <2>4, <2>5 DEF TypeOK, FlightOK, BreakerOK, Breakers, Next, vars, Check, Goto, Take, Write, ResetTimeout,
         Credit, Stop, InvalidateUserBalance, Expire, RequestStep, GetUserBalance, Lead,
         ReadBalance, CheckStopped, SendSet, Charge, SendDeduct, DeductBalanceCache
    <3>2. PICK q \in Requests : pc[q] \in Probing
      BY <2>1, <3>1 DEF HalfOpenHasProbe, Probing
    <3> QED
      BY <2>2, <2>5, <3>2, ProbesStay
  <2> QED
    BY <2>3, <2>4
<1> QED
  BY <1>1, <1>2, TypeCorrect, PTL DEF Spec
----------------------------------------------------------------------------
\* The places of a queue that hold d.
Places(q, d) == {i \in DOMAIN q : q[i] = d}

\* A queue holds finitely many, one more when one is appended and one fewer when
\* one is taken from its head.
LEMMA CountType ==
  ASSUME NEW S, NEW q \in Seq(S), NEW d
  PROVE  IsFiniteSet(Places(q, d)) /\ Cardinality(Places(q, d)) \in Nat
<1>1. Len(q) \in Nat /\ DOMAIN q = 1 .. Len(q)
  BY LenProperties
<1>2. IsFiniteSet(1 .. Len(q)) /\ Places(q, d) \in SUBSET (1 .. Len(q))
  BY <1>1, FS_Interval DEF Places
<1> QED
  BY <1>2, FS_Subset, FS_CardinalityType

\* A queue that takes an element has one more place of that kind and no other.
LEMMA CountAppend ==
  ASSUME NEW S, NEW q \in Seq(S), NEW x \in S, NEW d
  PROVE  /\ x = d => Cardinality(Places(Append(q, x), d)) = Cardinality(Places(q, d)) + 1
         /\ x # d => Cardinality(Places(Append(q, x), d)) = Cardinality(Places(q, d))
<1>1. /\ Len(q) \in Nat /\ DOMAIN q = 1 .. Len(q) /\ DOMAIN Append(q, x) = 1 .. Len(q) + 1
      /\ \A i \in 1 .. Len(q) : Append(q, x)[i] = q[i]
      /\ Append(q, x)[Len(q) + 1] = x
  BY LenProperties
<1>2. IsFiniteSet(Places(q, d)) /\ Cardinality(Places(q, d)) \in Nat
  BY CountType
<1>3. Len(q) + 1 \notin Places(q, d)
  BY <1>1 DEF Places
<1>4. CASE x = d
  <2>1. Places(Append(q, x), d) = Places(q, d) \cup {Len(q) + 1}
    BY <1>1, <1>4 DEF Places
  <2> QED
    BY <1>2, <1>3, <1>4, <2>1, FS_AddElement
<1>5. CASE x # d
  <2>1. Places(Append(q, x), d) = Places(q, d)
    BY <1>1, <1>5 DEF Places
  <2> QED
    BY <1>2, <1>5, <2>1
<1> QED
  BY <1>2, <1>4, <1>5

\* A queue that gives its first element has one place less of that kind.
LEMMA CountTail ==
  ASSUME NEW S, NEW q \in Seq(S), q # <<>>, NEW d
  PROVE  /\ Head(q) = d => Cardinality(Places(q, d)) = Cardinality(Places(Tail(q), d)) + 1
         /\ Head(q) # d => Cardinality(Places(q, d)) = Cardinality(Places(Tail(q), d))
<1>1. /\ Len(q) \in Nat /\ Len(q) > 0 /\ DOMAIN q = 1 .. Len(q) /\ q[1] = Head(q)
      /\ Tail(q) \in Seq(S) /\ DOMAIN Tail(q) = 1 .. Len(q) - 1
      /\ \A i \in 1 .. Len(q) - 1 : Tail(q)[i] = q[i + 1]
  <2>1. Len(q) \in Nat /\ Len(q) > 0 /\ DOMAIN q = 1 .. Len(q)
    BY LenProperties, EmptySeq
  <2>2. Tail(q) \in Seq(S) /\ Len(Tail(q)) = Len(q) - 1
    BY HeadTailProperties
  <2>3. DOMAIN Tail(q) = 1 .. Len(q) - 1
    BY <2>2, LenProperties
  <2> QED
    BY <2>1, <2>2, <2>3, HeadTailProperties
<1> DEFINE Rest == Places(q, d) \ {1}
           f == [i \in Places(Tail(q), d) |-> i + 1]
<1>2. IsFiniteSet(Places(q, d)) /\ IsFiniteSet(Places(Tail(q), d)) /\ Cardinality(Places(q, d)) \in Nat
  BY <1>1, CountType
<1>3. Cardinality(Rest) = Cardinality(Places(Tail(q), d))
  <2>1. f \in [Places(Tail(q), d) -> Rest]
    BY <1>1 DEF Places
  <2>2. \A i, j \in Places(Tail(q), d) : f[i] = f[j] => i = j
    BY <1>1 DEF Places
  <2>3. \A k \in Rest : \E i \in Places(Tail(q), d) : f[i] = k
    <3> SUFFICES ASSUME NEW k \in Rest PROVE k - 1 \in Places(Tail(q), d) /\ f[k - 1] = k
      OBVIOUS
    <3> QED
      BY <1>1 DEF Places
  <2>4. ExistsBijection(Places(Tail(q), d), Rest)
    BY <2>1, <2>2, <2>3, Fun_IsBij DEF ExistsBijection
  <2> QED
    BY <1>2, <2>4, FS_Bijection
<1>4. Cardinality(Rest) = IF 1 \in Places(q, d) THEN Cardinality(Places(q, d)) - 1
                                                ELSE Cardinality(Places(q, d))
  BY <1>2, FS_RemoveElement
<1>5. 1 \in Places(q, d) <=> Head(q) = d
  BY <1>1 DEF Places
<1>6. Cardinality(Rest) \in Nat
  BY <1>2, FS_RemoveElement, FS_CardinalityType
<1> QED
  BY <1>2, <1>3, <1>4, <1>5, <1>6

\* The members of S that f maps into A. One more when the value of one member moves
\* into A, one fewer when it moves out.
Into(f, S, A) == {y \in S : f[y] \in A}

\* When one process changes its place, the number of those in a place changes by it alone.
LEMMA CountMoved ==
  ASSUME NEW S, IsFiniteSet(S), NEW A, NEW f, NEW g, NEW x \in S,
         \A y \in S \ {x} : g[y] \in A <=> f[y] \in A
  PROVE  /\ Cardinality(Into(f, S, A)) \in Nat
         /\ (f[x] \in A <=> g[x] \in A) => Cardinality(Into(g, S, A)) = Cardinality(Into(f, S, A))
         /\ f[x] \notin A /\ g[x] \in A => Cardinality(Into(g, S, A)) = Cardinality(Into(f, S, A)) + 1
         /\ f[x] \in A /\ g[x] \notin A => Cardinality(Into(g, S, A)) = Cardinality(Into(f, S, A)) - 1
<1>1. IsFiniteSet(Into(f, S, A)) /\ Cardinality(Into(f, S, A)) \in Nat
  BY FS_Subset, FS_CardinalityType DEF Into
<1>2. CASE f[x] \in A <=> g[x] \in A
  <2>1. Into(g, S, A) = Into(f, S, A)
    BY <1>2 DEF Into
  <2> QED
    BY <1>1, <1>2, <2>1
<1>3. CASE f[x] \notin A /\ g[x] \in A
  <2>1. Into(g, S, A) = Into(f, S, A) \cup {x} /\ x \notin Into(f, S, A)
    BY <1>3 DEF Into
  <2> QED
    BY <1>1, <1>3, <2>1, FS_AddElement
<1>4. CASE f[x] \in A /\ g[x] \notin A
  <2>1. Into(g, S, A) = Into(f, S, A) \ {x} /\ x \in Into(f, S, A)
    BY <1>4 DEF Into
  <2> QED
    BY <1>1, <1>4, <2>1, FS_RemoveElement
<1> QED
  BY <1>2, <1>3, <1>4

\* What Pending counts, part by part.
OwedBy == Into(pc, Requests, Owed)
Taken == Into(busy, Workers, {Deduct})

\* The charges that are pending are owed, queued or held by a worker.
LEMMA PendingParts ==
  ASSUME TypeOK, TypeOK'
  PROVE  /\ Pending = Cardinality(OwedBy) + Cardinality(Places(queue, Deduct)) + Cardinality(Taken)
         /\ Pending' = Cardinality(OwedBy') + Cardinality(Places(queue', Deduct)) + Cardinality(Taken')
         /\ Cardinality(OwedBy) \in Nat /\ Cardinality(Taken) \in Nat
         /\ Cardinality(Places(queue, Deduct)) \in Nat
<1>1. Taken = {w \in Workers : busy[w] = Deduct} /\ Taken' = {w \in Workers : busy'[w] = Deduct}
  BY DEF Taken, Into
<1>2. IsFiniteSet(OwedBy) /\ IsFiniteSet(Taken)
  BY CacheAssumption, FS_Subset DEF OwedBy, Taken, Into
<1>3. Cardinality(Places(queue, Deduct)) \in Nat
  BY CountType DEF TypeOK, WritesOK
<1> QED
  BY <1>1, <1>2, <1>3, FS_CardinalityType DEF Pending, OwedBy, Places, Into

\* A request that moves on alone changes what is owed by at most itself; a flight
\* that lands moves nobody in or out of the places that owe.
LEMMA OwedMoves ==
  ASSUME TypeOK, NEW r \in Requests, NEW p \in Pcs
  PROVE  /\ Goto(r, p) =>
              /\ (pc[r] \in Owed <=> p \in Owed) => Cardinality(OwedBy') = Cardinality(OwedBy)
              /\ pc[r] \notin Owed /\ p \in Owed => Cardinality(OwedBy') = Cardinality(OwedBy) + 1
              /\ pc[r] \in Owed /\ p \notin Owed => Cardinality(OwedBy') = Cardinality(OwedBy) - 1
         /\ pc[r] \notin Owed /\ p \notin Owed /\ (\E x : Land(r, x, p))
              => Cardinality(OwedBy') = Cardinality(OwedBy)
<1>1. ASSUME Goto(r, p)
      PROVE  /\ (pc[r] \in Owed <=> p \in Owed) => Cardinality(OwedBy') = Cardinality(OwedBy)
             /\ pc[r] \notin Owed /\ p \in Owed => Cardinality(OwedBy') = Cardinality(OwedBy) + 1
             /\ pc[r] \in Owed /\ p \notin Owed => Cardinality(OwedBy') = Cardinality(OwedBy) - 1
  <2>1. pc'[r] = p /\ \A q \in Requests \ {r} : pc'[q] \in Owed <=> pc[q] \in Owed
    BY <1>1 DEF Goto, TypeOK, FlightOK
  <2>2. IsFiniteSet(Requests)
    BY CacheAssumption
  <2> QED
    BY <2>1, <2>2, CountMoved DEF OwedBy
<1>2. ASSUME pc[r] \notin Owed, p \notin Owed, NEW x, Land(r, x, p)
      PROVE  Cardinality(OwedBy') = Cardinality(OwedBy)
  <2>1. \A q \in Requests : pc'[q] \in Owed <=> pc[q] \in Owed
    BY <1>2 DEF Land, At, Owed
  <2> QED
    BY <2>1 DEF OwedBy, Into
<1> QED
  BY <1>1, <1>2

\* The steps that leave the queue and the workers alone: the entry stays right.
LEMMA RightOnRequestSteps ==
  ASSUME TypeOK, TypeOK', RightEntryStaysRight, NEW r \in Requests,
         Check(r) \/ RequestStep(r)
  PROVE  RightEntryStaysRight'
<1> DEFINE Q == Cardinality(Places(queue, Deduct))
<1>1. /\ Pending = Cardinality(OwedBy) + Q + Cardinality(Taken)
      /\ Pending' = Cardinality(OwedBy') + Q' + Cardinality(Taken')
      /\ Cardinality(OwedBy) \in Nat /\ Cardinality(Taken) \in Nat /\ Q \in Nat
  BY PendingParts
<1>2. UNCHANGED busy /\ Taken' = Taken
  BY DEF Taken, Into, RequestStep, Check, GetUserBalance, Lead, ReadBalance, CheckStopped, SendSet,
     Report, Charge, SendDeduct, DeductBalanceCache
<1>3. \A p \in Pcs :
        /\ Goto(r, p) =>
             /\ (pc[r] \in Owed <=> p \in Owed) => Cardinality(OwedBy') = Cardinality(OwedBy)
             /\ pc[r] \notin Owed /\ p \in Owed => Cardinality(OwedBy') = Cardinality(OwedBy) + 1
             /\ pc[r] \in Owed /\ p \notin Owed => Cardinality(OwedBy') = Cardinality(OwedBy) - 1
        /\ pc[r] \notin Owed /\ p \notin Owed /\ (\E x : Land(r, x, p))
             => Cardinality(OwedBy') = Cardinality(OwedBy)
  BY OwedMoves
<1>4. CASE UNCHANGED <<cache, db, queue, tainted, missed>> /\ Cardinality(OwedBy') = Cardinality(OwedBy)
  BY <1>1, <1>2, <1>4 DEF RightEntryStaysRight
<1>5. CASE Check(r) \/ GetUserBalance(r) \/ Lead(r) \/ Report(r)
  <2>1. /\ pc[r] \notin Owed /\ UNCHANGED <<cache, db, queue, tainted, missed>>
        /\ \E p \in Pcs \ Owed : Goto(r, p)
    BY <1>5 DEF Check, GetUserBalance, Lead, Report, At, Owed, Pcs
  <2> QED
    BY <1>3, <1>4, <2>1
<1>6. CASE ReadBalance(r) \/ CheckStopped(r)
  <2>1. /\ UNCHANGED <<cache, db, queue, tainted, missed>>
        /\ \E p \in Pcs : \/ (pc[r] \in Owed <=> p \in Owed) /\ Goto(r, p)
                          \/ pc[r] \notin Owed /\ p \notin Owed /\ \E x : Land(r, x, p)
    BY <1>6 DEF ReadBalance, CheckStopped, At, Owed, Pcs
  <2> QED
    BY <1>3, <1>4, <2>1
<1>7. CASE SendSet(r)
  <2>1. pc[r] \notin Owed /\ UNCHANGED <<cache, db, tainted, missed>> /\ value[r] \in Int
    BY <1>7 DEF SendSet, At, Owed, TypeOK, FlightOK
  <2>2. Cardinality(OwedBy') = Cardinality(OwedBy)
    <3>1. \E p \in Pcs \ Owed : \E x : Land(r, x, p)
      BY <1>7 DEF SendSet, Owed, Pcs
    <3> QED
      BY <1>3, <2>1, <3>1
  <2>3. Q' = Q
    <3>1. CASE queue' = Append(queue, SetTo(value[r]))
      BY <2>1, <3>1, TaskKinds, CountAppend DEF TypeOK, WritesOK
    <3>2. CASE UNCHANGED queue
      BY <3>2
    <3> QED
      BY <1>7, <3>1, <3>2 DEF SendSet
  <2> QED
    BY <1>1, <1>2, <2>1, <2>2, <2>3 DEF RightEntryStaysRight
<1>8. CASE Charge(r)
  <2>1. pc[r] \notin Owed /\ UNCHANGED <<cache, queue, tainted>>
    BY <1>8 DEF Charge, At, Owed
  <2>2. CASE db' = db - 1 /\ Goto(r, "checkdeduct") /\ UNCHANGED missed
    <3>1. Cardinality(OwedBy') = Cardinality(OwedBy) + 1
      BY <1>3, <2>1, <2>2 DEF Owed, Pcs
    <3> QED
      BY <1>1, <1>2, <2>1, <2>2, <3>1 DEF RightEntryStaysRight, TypeOK, DataOK
  <2>3. CASE Goto(r, "done") /\ \/ db' = db - 1 /\ missed' = missed + 1
                                \/ UNCHANGED <<db, missed>>
    <3>1. Cardinality(OwedBy') = Cardinality(OwedBy)
      BY <1>3, <2>1, <2>3 DEF Owed, Pcs
    <3> QED
      BY <1>1, <1>2, <2>1, <2>3, <3>1 DEF RightEntryStaysRight, TypeOK, DataOK
  <2> QED
    BY <1>8, <2>2, <2>3 DEF Charge, Miss
<1>9. CASE SendDeduct(r)
  <2>1. pc[r] \in Owed /\ UNCHANGED <<cache, db, tainted>>
    BY <1>9 DEF SendDeduct, At, Owed
  <2>2. CASE Goto(r, "panicked") /\ missed' = missed + 1 /\ UNCHANGED queue
    <3>1. Cardinality(OwedBy') = Cardinality(OwedBy) - 1
      BY <1>3, <2>1, <2>2 DEF Owed, Pcs
    <3> QED
      BY <1>1, <1>2, <2>1, <2>2, <3>1 DEF RightEntryStaysRight, TypeOK, DataOK
  <2>3. CASE queue' = Append(queue, Deduct) /\ Goto(r, "done") /\ UNCHANGED missed
    <3>1. Cardinality(OwedBy') = Cardinality(OwedBy) - 1
      BY <1>3, <2>1, <2>3 DEF Owed, Pcs
    <3>2. Q' = Q + 1
      BY <2>3, TaskKinds, CountAppend DEF TypeOK, WritesOK
    <3> QED
      BY <1>1, <1>2, <2>1, <2>3, <3>1, <3>2 DEF RightEntryStaysRight
  <2>4. CASE Goto(r, "fallback") /\ UNCHANGED <<queue, missed>>
    <3>1. Cardinality(OwedBy') = Cardinality(OwedBy)
      BY <1>3, <2>1, <2>4 DEF Owed, Pcs
    <3> QED
      BY <1>4, <2>1, <2>4, <3>1
  <2> QED
    BY <1>9, <2>2, <2>3, <2>4 DEF SendDeduct, Unqueued, Miss
<1>10. CASE DeductBalanceCache(r)
  <2>1. /\ pc[r] \in Owed /\ Goto(r, "done") /\ UNCHANGED <<db, queue, tainted>>
        /\ \/ cache' = (IF cache = None THEN None ELSE cache - 1) /\ missed' = missed
           \/ cache' = cache /\ missed' = missed + 1
    BY <1>10 DEF DeductBalanceCache, DeductUserBalance, Miss, At, Owed
  <2>2. Cardinality(OwedBy') = Cardinality(OwedBy) - 1
    BY <1>3, <2>1 DEF Owed, Pcs
  <2> QED
    BY <1>1, <1>2, <2>1, <2>2, CacheAssumption DEF RightEntryStaysRight, TypeOK, DataOK
<1> QED
  BY <1>5, <1>6, <1>7, <1>8, <1>9, <1>10 DEF RequestStep

\* A worker moves a deduction out of the queue and then into the entry, and a
\* balance it sets is compared with what is pending.
LEMMA RightOnWorkerSteps ==
  ASSUME TypeOK, TypeOK', RightEntryStaysRight, NEW w \in Workers, Take(w) \/ Write(w)
  PROVE  RightEntryStaysRight'
<1> DEFINE Q == Cardinality(Places(queue, Deduct))
<1>1. /\ Pending = Cardinality(OwedBy) + Q + Cardinality(Taken)
      /\ Pending' = Cardinality(OwedBy') + Q' + Cardinality(Taken')
      /\ Cardinality(OwedBy) \in Nat /\ Cardinality(Taken) \in Nat /\ Q \in Nat
  BY PendingParts
<1>2. OwedBy' = OwedBy
  BY DEF OwedBy, Take, Write
<1>3. /\ (busy[w] = Deduct <=> busy'[w] = Deduct) => Cardinality(Taken') = Cardinality(Taken)
      /\ busy[w] # Deduct /\ busy'[w] = Deduct => Cardinality(Taken') = Cardinality(Taken) + 1
      /\ busy[w] = Deduct /\ busy'[w] # Deduct => Cardinality(Taken') = Cardinality(Taken) - 1
  <2>1. \A v \in Workers \ {w} : busy'[v] \in {Deduct} <=> busy[v] \in {Deduct}
    BY DEF Take, Write, TypeOK, WritesOK
  <2>2. IsFiniteSet(Workers)
    BY CacheAssumption
  <2>3. \A A : (\A v \in Workers \ {w} : busy'[v] \in A <=> busy[v] \in A) =>
          /\ (busy[w] \in A <=> busy'[w] \in A) =>
               Cardinality(Into(busy', Workers, A)) = Cardinality(Into(busy, Workers, A))
          /\ busy[w] \notin A /\ busy'[w] \in A =>
               Cardinality(Into(busy', Workers, A)) = Cardinality(Into(busy, Workers, A)) + 1
          /\ busy[w] \in A /\ busy'[w] \notin A =>
               Cardinality(Into(busy', Workers, A)) = Cardinality(Into(busy, Workers, A)) - 1
    BY <2>2, CountMoved
  <2> QED
    BY <2>1, <2>3 DEF Taken
<1>4. CASE Take(w)
  <2>1. /\ busy[w] = None /\ busy'[w] = Head(queue) /\ queue' = Tail(queue) /\ queue # <<>>
        /\ UNCHANGED <<cache, db, tainted, missed>>
    BY <1>4 DEF Take, TypeOK, WritesOK
  <2>2. /\ Q' \in Nat
        /\ Head(queue) = Deduct => Q = Q' + 1
        /\ Head(queue) # Deduct => Q = Q'
    BY <2>1, CountTail, CountType DEF TypeOK, WritesOK
  <2> QED
    BY <1>1, <1>2, <1>3, <2>1, <2>2, TaskKinds DEF RightEntryStaysRight
<1>5. CASE Write(w)
  <2>1. busy[w] # None /\ busy'[w] = None /\ UNCHANGED <<db, queue>> /\ Q' = Q
    BY <1>5 DEF Write, TypeOK, WritesOK
  <2>2. CASE busy[w] = Deduct
    <3>1. Pending' = Pending - 1
      BY <1>1, <1>2, <1>3, <2>1, <2>2, TaskKinds
    <3>2. /\ UNCHANGED tainted
          /\ \/ cache' = (IF cache = None THEN None ELSE cache - 1) /\ missed' = missed
             \/ cache' = cache /\ missed' = missed + 1
      BY <1>5, <2>2 DEF Write, DeductUserBalance, Miss
    <3> QED
      BY <1>1, <2>1, <3>1, <3>2, CacheAssumption DEF RightEntryStaysRight, TypeOK, DataOK
  <2>3. CASE busy[w] # Deduct
    <3>1. Pending' = Pending
      BY <1>1, <1>2, <1>3, <2>1, <2>3, TaskKinds
    <3>2. CASE UNCHANGED <<cache, tainted, missed>>
      BY <2>1, <3>1, <3>2 DEF RightEntryStaysRight
    <3>3. CASE /\ cache' = busy[w].balance /\ missed' = 0
               /\ tainted' = (busy[w].balance # db + Pending)
      <4>1. db + Pending \in Int
        BY <1>1 DEF TypeOK, DataOK
      <4>2. ~tainted' => busy[w].balance = db + Pending
        BY <3>3
      <4>3. cache' = busy[w].balance /\ missed' = 0
        BY <3>3
      <4> QED
        BY <2>1, <3>1, <4>1, <4>2, <4>3 DEF RightEntryStaysRight
    <3> QED
      BY <1>5, <2>3, <3>2, <3>3 DEF Write
  <2> QED
    BY <2>2, <2>3
<1> QED
  BY <1>4, <1>5

\* An entry that was right when it was written stays right, whatever order the
\* workers run in: the balance, plus what the deductions under way will take, plus
\* exactly the charges whose deduction an error or a crash took away.
THEOREM EntryStaysRight == Spec => []RightEntryStaysRight
<1>1. Init => RightEntryStaysRight
  BY DEF Init, RightEntryStaysRight
<1>2. TypeOK /\ TypeOK' /\ RightEntryStaysRight /\ [Next]_vars => RightEntryStaysRight'
  <2> SUFFICES ASSUME TypeOK, TypeOK', RightEntryStaysRight, [Next]_vars
               PROVE  RightEntryStaysRight'
    OBVIOUS
  <2>1. CASE UNCHANGED <<pc, queue, busy, cache, db, tainted, missed>>
    BY <2>1 DEF RightEntryStaysRight, Pending
  <2>2. CASE Credit
    BY <2>2 DEF Credit, RightEntryStaysRight
  <2>3. CASE InvalidateUserBalance
    BY <2>1, <2>3 DEF InvalidateUserBalance, RightEntryStaysRight
  <2>4. CASE Expire
    BY <2>4 DEF Expire, RightEntryStaysRight
  <2>5. CASE Crash
    <3>1. Pending \in Nat
      BY PendingType
    <3>2. Pending' = 0
      <4>1. OwedBy' = {}
        BY <2>5 DEF Crash, OwedBy, Into, Owed
      <4>2. Taken' = {}
        BY <2>5, TaskKinds DEF Crash, Taken, Into
      <4>3. Places(queue', Deduct) = {}
        BY <2>5 DEF Crash, Places
      <4> QED
        BY <4>1, <4>2, <4>3, PendingParts, FS_EmptySet
    <3> QED
      BY <2>5, <3>1, <3>2 DEF Crash, RightEntryStaysRight, TypeOK, DataOK
  <2> QED
    BY <2>1, <2>2, <2>3, <2>4, <2>5, RightOnRequestSteps, RightOnWorkerSteps
       DEF Next, vars, ResetTimeout, Stop
<1> QED
  BY <1>1, <1>2, TypeCorrect, PTL DEF Spec
=============================================================================
