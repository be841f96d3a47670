------------------------- MODULE TokenRefreshProofs -------------------------
(***************************************************************************)
(* Proofs about TokenRefresh for every set of instances and any number of  *)
(* retries, tokens and faults.                                             *)
(***************************************************************************)
EXTENDS TokenRefresh, TLAPS

\* The constants, as the proofs use them.
LEMMA Basics ==
  /\ \A w \in Workers : Inst(w) \in Instances /\ w # NoOne
  /\ MaxTokens \in Nat /\ MaxFaults \in Nat
  /\ MaxRetries \in Nat /\ 1 <= MaxRetries /\ 0 \in Tokens /\ 1 \in Attempts
  /\ \A row \in Row : Idle(row) \in Jobs
<1>1. \A w \in Workers : Inst(w) \in Instances /\ w # NoOne
  BY TokenAssumption DEF Inst, Workers
<1>2. MaxRetries \in Nat /\ 1 <= MaxRetries /\ 0 \in Tokens /\ 1 \in Attempts
  BY TokenAssumption DEF Tokens, Attempts
<1>3. ASSUME NEW row \in Row PROVE Idle(row) \in Jobs
  BY <1>2 DEF Idle, Jobs, Pcs, Results
<1> QED
  BY <1>1, <1>2, <1>3, TokenAssumption

\* What a released worker goes on with is a job, and only the mark is set after
\* the last attempt.
LEMMA ReleasedTypes ==
  ASSUME TypeOK, NEW w \in Workers, job[w].pc = "release"
  PROVE  /\ Released(w) \in [Workers -> Jobs]
         /\ \A v \in Workers \ {w} : Released(w)[v] = job[v]
         /\ Released(w)[w].pc \in {"idle", "mutex", "seterror"}
         /\ Released(w)[w].pc = "seterror" => job[w].result = "invalid"
         /\ Released(w)[w].pc # "seterror" => Released(w)[w].attempt <= MaxRetries
         /\ Released(w)[w].result = "none" /\ ~Released(w)[w].held
<1> DEFINE J == IF After(w) = "idle" THEN Idle(account)
                ELSE [Idle(job[w].copy) EXCEPT !.pc = After(w), !.attempt = job[w].attempt + 1]
<1>1. /\ job \in [Workers -> Jobs] /\ account \in Row /\ job[w].copy \in Row
      /\ job[w].attempt \in Nat /\ job[w].attempt <= MaxRetries
  BY DEF TypeOK, Jobs, Attempts
<1>2. /\ After(w) \in {"idle", "mutex", "seterror"}
      /\ After(w) = "seterror" => job[w].result = "invalid"
      /\ After(w) = "mutex" => job[w].attempt < MaxRetries
  BY DEF After
<1>3. Released(w) = [job EXCEPT ![w] = J]
  BY DEF Released
<1>4. CASE After(w) = "idle"
  <2>1. J = Idle(account) /\ J \in Jobs
    BY <1>1, <1>4, Basics
  <2>2. J.pc = "idle" /\ J.attempt = 1 /\ J.result = "none" /\ ~J.held
    BY <2>1 DEF Idle
  <2> QED
    BY <1>1, <1>3, <2>1, <2>2, Basics
<1>5. CASE After(w) # "idle"
  <2>1. J = [Idle(job[w].copy) EXCEPT !.pc = After(w), !.attempt = job[w].attempt + 1]
    BY <1>5
  <2>2. Idle(job[w].copy) \in Jobs /\ After(w) \in Pcs
    BY <1>1, <1>2, Basics DEF Pcs
  <2>3. job[w].attempt + 1 \in Attempts
    BY <1>1, Basics DEF Attempts
  <2>4. J \in Jobs
    BY <2>1, <2>2, <2>3 DEF Jobs
  <2>5. J.pc = After(w) /\ J.attempt = job[w].attempt + 1 /\ J.result = "none" /\ ~J.held
    BY <2>1 DEF Idle
  <2>6. After(w) = "mutex" => job[w].attempt + 1 <= MaxRetries
    BY <1>1, <1>2, Basics
  <2>7. Released(w) \in [Workers -> Jobs] /\ Released(w)[w] = J
    BY <1>1, <1>3, <2>4
  <2>8. J.pc # "seterror" => J.attempt <= MaxRetries
    BY <1>2, <1>5, <2>5, <2>6
  <2> QED
    BY <1>1, <1>2, <1>3, <2>5, <2>7, <2>8
<1> QED
  BY <1>4, <1>5

\* What GetByID makes of a job: the row read, where it goes on, and nothing else.
LEMMA GetByIDJob ==
  ASSUME TypeOK, NEW w \in Workers, GetByID(w)
  PROVE  \E rec \in Jobs :
           /\ job' = [job EXCEPT ![w] = rec]
           /\ rec.pc \in {"refresh", "release"} /\ rec.attempt = job[w].attempt
           /\ rec.held = job[w].held /\ rec.bare = job[w].bare
<1>1. job[w] \in Jobs /\ account \in Row
  BY DEF TypeOK
<1>2. job[w].copy \in Row /\ job[w].result \in Results
  BY <1>1 DEF Jobs
<1>3. PICK failed \in BOOLEAN :
        LET fresh == IF failed THEN job[w].copy ELSE account IN
        job' = [job EXCEPT ![w].pc = IF fresh.expiring THEN "refresh" ELSE "release",
                           ![w].fresh = fresh, ![w].own = failed, ![w].blind = failed,
                           ![w].result = IF fresh.expiring THEN @ ELSE "notneeded"]
  BY DEF GetByID
<1> DEFINE fresh == IF failed THEN job[w].copy ELSE account
           pc == IF fresh.expiring THEN "refresh" ELSE "release"
           result == IF fresh.expiring THEN job[w].result ELSE "notneeded"
           rec == [job[w] EXCEPT !.pc = pc, !.fresh = fresh, !.own = failed, !.blind = failed,
                                 !.result = result]
<1>4. job' = [job EXCEPT ![w] = rec]
  BY <1>3
<1>5. fresh \in Row
  BY <1>1, <1>2
<1>6. pc \in Pcs /\ pc \in {"refresh", "release"}
  BY DEF Pcs
<1>7. result \in Results
  BY <1>2 DEF Results
<1> HIDE DEF fresh, pc, result
<1>8. rec \in Jobs
  BY <1>1, <1>5, <1>6, <1>7 DEF Jobs
<1>9. /\ rec.pc = pc /\ rec.attempt = job[w].attempt
      /\ rec.held = job[w].held /\ rec.bare = job[w].bare
  BY <1>1 DEF Jobs
<1> HIDE DEF rec
<1> QED
  BY <1>4, <1>6, <1>8, <1>9

\* Every step leaves the fields of the jobs typed.
LEMMA JobSteps ==
  ASSUME TypeOK, [Next]_vars PROVE job' \in [Workers -> Jobs]
<1>1. /\ job \in [Workers -> Jobs] /\ account \in Row /\ current \in Tokens
      /\ lock \in Workers \cup {NoOne}
  BY DEF TypeOK
<1>2. {"idle", "mutex", "acquire", "reread", "refresh", "recover", "persist", "release", "seterror"} = Pcs
      /\ {"none", "held", "notneeded", "retryable", "invalid", "refreshed"} = Results
  BY DEF Pcs, Results
<1>3. ASSUME NEW w \in Workers, Start(w) PROVE job' \in [Workers -> Jobs]
  <2>1. [Idle(account) EXCEPT !.pc = "mutex"] \in Jobs
    BY <1>1, <1>2, Basics DEF Jobs
  <2> QED
    BY <1>1, <1>3, <2>1 DEF Start
<1>4. ASSUME NEW w \in Workers, Step(w) PROVE job' \in [Workers -> Jobs]
  <2>1. CASE LockMutex(w)
    BY <1>1, <1>2, <2>1 DEF LockMutex, To, Jobs
  <2>2. CASE AcquireRefreshLock(w)
    BY <1>1, <1>2, <2>2 DEF AcquireRefreshLock, Finish, Jobs
  <2>3. CASE GetByID(w)
    BY <1>1, <2>3, GetByIDJob
  <2>4. CASE Refresh(w)
    <3>1. CASE current < MaxTokens /\ job' = [job EXCEPT ![w].pc = "persist", ![w].got = current + 1]
      <4>1. PICK got \in Tokens : got = current + 1
        BY <1>1, <3>1, Basics DEF Tokens
      <4> DEFINE rec == [job[w] EXCEPT !.pc = "persist", !.got = got]
      <4>2. rec \in Jobs
        <5>1. "persist" \in Pcs /\ job[w] \in Jobs
          BY <1>1, <1>2
        <5> QED
          BY <5>1 DEF Jobs
      <4>3. job' = [job EXCEPT ![w] = rec]
        BY <3>1, <4>1
      <4> QED
        BY <1>1, <4>2, <4>3
    <3>2. CASE Finish(w, "retryable") \/ To(w, "recover")
      BY <1>1, <1>2, <3>2 DEF Finish, To, Jobs
    <3> QED
      BY <2>4, <3>1, <3>2 DEF Refresh
  <2>5. CASE Recover(w)
    BY <1>1, <1>2, <2>5 DEF Recover, Finish, Jobs
  <2>6. CASE Persist(w)
    <3>1. PICK mine \in Row, res \in Results :
            job' = [job EXCEPT ![w].pc = "release", ![w].result = res, ![w].copy = mine]
      <4>1. MergeCredentials(job[w].fresh, job[w].got) \in Row /\ job[w].copy \in Row
        BY <1>1 DEF MergeCredentials, Jobs, Row
      <4> QED
        BY <1>2, <2>6, <4>1 DEF Persist
    <3> QED
      <4> DEFINE rec == [job[w] EXCEPT !.pc = "release", !.result = res, !.copy = mine]
      <4>1. rec \in Jobs
        <5>1. "release" \in Pcs /\ job[w] \in Jobs
          BY <1>1, <1>2
        <5> QED
          BY <5>1 DEF Jobs
      <4>2. job' = [job EXCEPT ![w] = rec]
        BY <3>1
      <4> QED
        BY <1>1, <4>1, <4>2
  <2>7. CASE Release(w)
    <3>1. Released(w) \in [Workers -> Jobs]
      BY <2>7, ReleasedTypes DEF Release
    <3>2. CASE job' = Released(w)
      BY <3>1, <3>2
    <3>3. CASE lock \in Workers /\ job' = [Released(w) EXCEPT ![lock].bare = TRUE]
      BY <3>1, <3>3 DEF Jobs
    <3> QED
      BY <1>1, <2>7, <3>2, <3>3 DEF Release
  <2>8. CASE SetError(w)
    <3>1. account' \in Row
      BY <1>1, <2>8 DEF SetError, Row
    <3> QED
      BY <1>1, <2>8, <3>1, Basics DEF SetError
  <2> QED
    BY <1>4, <2>1, <2>2, <2>3, <2>4, <2>5, <2>6, <2>7, <2>8 DEF Step
<1>5. ASSUME NEW i \in Instances, Crash(i) PROVE job' \in [Workers -> Jobs]
  <2>1. Idle(account) \in Jobs
    BY <1>1, Basics
  <2> QED
    BY <1>1, <1>5, <2>1 DEF Crash
<1>6. CASE LockExpires
  <2>1. CASE UNCHANGED job
    BY <1>1, <2>1
  <2>2. CASE lock \in Workers /\ job' = [job EXCEPT ![lock].bare = TRUE]
    <3>1. [job[lock] EXCEPT !.bare = TRUE] \in Jobs
      BY <1>1, <2>2 DEF Jobs
    <3> QED
      BY <1>1, <2>2, <3>1
  <2> QED
    BY <1>1, <1>6, <2>1, <2>2 DEF LockExpires
<1>7. CASE TimePasses \/ UNCHANGED vars
  BY <1>1, <1>7 DEF TimePasses, vars
<1> QED
  BY <1>3, <1>4, <1>5, <1>6, <1>7 DEF Next

\* How far one step goes: one token of the provider, one fault and one mutex, and
\* no excuse is taken back.
OneStep ==
    /\ UNCHANGED current \/ (current < MaxTokens /\ current' = current + 1)
    /\ UNCHANGED faults \/ Fault
    /\ \/ UNCHANGED mutex
       \/ \E i \in Instances, v \in Workers \cup {NoOne} : mutex' = [mutex EXCEPT ![i] = v]
    /\ lock' \in {lock, NoOne} \cup Workers
    /\ excuse \subseteq excuse' /\ excuse' \subseteq excuse \cup Excuses

LEMMA OneStepAtATime == ASSUME [Next]_vars PROVE OneStep
<1>1. {"lost", "overlap", "blind"} = Excuses /\ \A j : Overlap(j) \subseteq Excuses
  BY DEF Overlap, Excuses
<1>2. ASSUME NEW w \in Workers, Start(w) \/ GetByID(w) \/ SetError(w) PROVE OneStep
  <2>1. UNCHANGED <<current, mutex, lock, excuse>> /\ (UNCHANGED faults \/ Fault)
    BY <1>2 DEF Start, GetByID, SetError
  <2> QED
    BY <2>1 DEF OneStep
<1>3. ASSUME NEW w \in Workers, LockMutex(w) PROVE OneStep
  BY <1>3, Basics DEF OneStep, LockMutex
<1>4. ASSUME NEW w \in Workers, AcquireRefreshLock(w) PROVE OneStep
  <2>1. /\ UNCHANGED <<current, mutex>> /\ (UNCHANGED faults \/ Fault)
        /\ lock' \in {lock, w} /\ excuse' = excuse \cup Overlap(job')
    BY <1>4 DEF AcquireRefreshLock
  <2> QED
    BY <1>1, <2>1 DEF OneStep
<1>5. ASSUME NEW w \in Workers, Refresh(w) PROVE OneStep
  <2>1. /\ UNCHANGED <<mutex, lock>> /\ (UNCHANGED faults \/ Fault)
        /\ UNCHANGED current \/ (current < MaxTokens /\ current' = current + 1)
        /\ excuse' \in {excuse, excuse \cup {"lost"}}
    BY <1>5 DEF Refresh
  <2> QED
    BY <1>1, <2>1 DEF OneStep
<1>6. ASSUME NEW w \in Workers, Recover(w) \/ Persist(w) PROVE OneStep
  <2>1. /\ UNCHANGED <<current, mutex, lock>> /\ (UNCHANGED faults \/ Fault)
        /\ excuse' \in {excuse, excuse \cup {"lost"}, excuse \cup {"blind"}}
    BY <1>6 DEF Recover, Persist
  <2> QED
    BY <1>1, <2>1 DEF OneStep
<1>7. ASSUME NEW w \in Workers, Release(w) PROVE OneStep
  <2>1. /\ UNCHANGED current /\ (UNCHANGED faults \/ Fault)
        /\ lock' \in {lock, NoOne} /\ excuse' = excuse \cup Overlap(job')
    BY <1>7 DEF Release, ReleaseRefreshLock
  <2>2. mutex' = [mutex EXCEPT ![Inst(w)] = NoOne]
    BY <1>7 DEF Release
  <2> QED
    BY <1>1, <2>1, <2>2, Basics DEF OneStep
<1>8. ASSUME NEW i \in Instances, Crash(i) PROVE OneStep
  <2>1. /\ UNCHANGED <<current, lock>> /\ Fault /\ mutex' = [mutex EXCEPT ![i] = NoOne]
        /\ excuse' \in {excuse, excuse \cup {"lost"}}
    BY <1>8 DEF Crash
  <2> QED
    BY <1>1, <2>1 DEF OneStep
<1>9. CASE LockExpires
  <2>1. /\ UNCHANGED <<current, mutex>> /\ (UNCHANGED faults \/ Fault)
        /\ lock' = NoOne /\ excuse' = excuse \cup Overlap(job')
    BY <1>9 DEF LockExpires
  <2> QED
    BY <1>1, <2>1 DEF OneStep
<1>10. CASE TimePasses \/ UNCHANGED vars
  <2>1. UNCHANGED <<current, mutex, lock, excuse, faults>>
    BY <1>10 DEF TimePasses, vars
  <2> QED
    BY <2>1 DEF OneStep
<1> QED
  BY <1>2, <1>3, <1>4, <1>5, <1>6, <1>7, <1>8, <1>9, <1>10 DEF Next, Step

\* The rest of the types: the row, the tokens, the locks and the excuses.
LEMMA DataSteps ==
  ASSUME TypeOK, [Next]_vars
  PROVE  /\ current' \in Tokens /\ account' \in Row
         /\ lock' \in Workers \cup {NoOne} /\ mutex' \in [Instances -> Workers \cup {NoOne}]
         /\ excuse' \subseteq Excuses /\ faults' \in 0 .. MaxFaults
<1>1. current' \in Tokens
  <2>1. UNCHANGED current \/ (current < MaxTokens /\ current' = current + 1)
    BY OneStepAtATime DEF OneStep
  <2> QED
    BY <2>1, Basics DEF TypeOK, Tokens
<1>2. account' \in Row
  <2>1. ASSUME NEW w \in Workers, Persist(w) PROVE account' \in Row
    <3>1. MergeCredentials(job[w].fresh, job[w].got) \in Row
      BY DEF MergeCredentials, TypeOK, Jobs, Row
    <3> QED
      BY <2>1, <3>1 DEF Persist, TypeOK, Row
  <2>2. ASSUME NEW w \in Workers, SetError(w) PROVE account' \in Row
    BY <2>2 DEF SetError, TypeOK, Row
  <2>3. CASE TimePasses
    BY <2>3 DEF TimePasses, TypeOK, Row
  <2>4. ASSUME NEW w \in Workers,
               \/ Start(w) \/ LockMutex(w) \/ AcquireRefreshLock(w) \/ GetByID(w)
               \/ Refresh(w) \/ Recover(w) \/ Release(w)
        PROVE  UNCHANGED account
    BY <2>4 DEF Start, LockMutex, AcquireRefreshLock, GetByID, Refresh, Recover, Release
  <2>5. ASSUME (\E i \in Instances : Crash(i)) \/ LockExpires \/ UNCHANGED vars
        PROVE  UNCHANGED account
    BY <2>5 DEF Crash, LockExpires, vars
  <2>6. account \in Row
    BY DEF TypeOK
  <2> QED
    BY <2>1, <2>2, <2>3, <2>4, <2>5, <2>6 DEF Next, Step
<1>3. lock' \in Workers \cup {NoOne}
  BY OneStepAtATime DEF OneStep, TypeOK
<1>4. mutex' \in [Instances -> Workers \cup {NoOne}]
  <2>1. \/ UNCHANGED mutex
        \/ \E i \in Instances, v \in Workers \cup {NoOne} : mutex' = [mutex EXCEPT ![i] = v]
    BY OneStepAtATime DEF OneStep
  <2> QED
    BY <2>1 DEF TypeOK
<1>5. excuse' \subseteq Excuses
  BY OneStepAtATime DEF OneStep, TypeOK
<1>6. faults' \in 0 .. MaxFaults
  <2>1. UNCHANGED faults \/ Fault
    BY OneStepAtATime DEF OneStep
  <2> QED
    BY <2>1, Basics DEF TypeOK, Fault
<1> QED
  BY <1>1, <1>2, <1>3, <1>4, <1>5, <1>6

\* Who holds the mutex of its process, and how many attempts it has made.
LEMMA MutexSteps ==
  ASSUME TypeOK, [Next]_vars, job' \in [Workers -> Jobs]
  PROVE  \A w \in Workers :
           /\ job'[w].pc \notin {"idle", "mutex", "seterror"} => mutex'[Inst(w)] = w
           /\ job'[w].pc # "seterror" => job'[w].attempt <= MaxRetries
<1> DEFINE OK(w) == /\ job'[w].pc \notin {"idle", "mutex", "seterror"} => mutex'[Inst(w)] = w
                    /\ job'[w].pc # "seterror" => job'[w].attempt <= MaxRetries
<1>1. /\ job \in [Workers -> Jobs] /\ mutex \in [Instances -> Workers \cup {NoOne}]
      /\ \A w \in Workers :
           /\ job[w].pc \notin {"idle", "mutex", "seterror"} => mutex[Inst(w)] = w
           /\ job[w].pc # "seterror" => job[w].attempt <= MaxRetries
  BY DEF TypeOK
<1>2. ASSUME NEW w \in Workers, job[w].pc \notin {"idle", "mutex", "seterror"},
             job'[w].attempt = job[w].attempt, \A v \in Workers \ {w} : job'[v] = job[v],
             UNCHANGED mutex
      PROVE  \A v \in Workers : OK(v)
  BY <1>1, <1>2
<1>3. ASSUME NEW w \in Workers, Start(w) PROVE \A v \in Workers : OK(v)
  <2>1. job'[w].pc = "mutex" /\ job'[w].attempt = 1
    BY <1>1, <1>3 DEF Start, Idle
  <2> QED
    BY <1>1, <1>3, <2>1, Basics DEF Start
<1>4. ASSUME NEW w \in Workers, LockMutex(w) PROVE \A v \in Workers : OK(v)
  <2>1. /\ job'[w].pc = "acquire" /\ job'[w].attempt = job[w].attempt /\ job[w].pc = "mutex"
        /\ \A v \in Workers \ {w} : job'[v] = job[v]
    BY <1>1, <1>4 DEF LockMutex, To, Jobs
  <2>2. /\ mutex'[Inst(w)] = w /\ mutex[Inst(w)] = NoOne
        /\ \A i \in Instances \ {Inst(w)} : mutex'[i] = mutex[i]
    BY <1>1, <1>4, Basics DEF LockMutex
  <2> QED
    BY <1>1, <2>1, <2>2, Basics
<1>5. ASSUME NEW w \in Workers,
             AcquireRefreshLock(w) \/ GetByID(w) \/ Refresh(w) \/ Recover(w) \/ Persist(w)
      PROVE  \A v \in Workers : OK(v)
  <2>1. /\ job[w].pc \notin {"idle", "mutex", "seterror"} /\ UNCHANGED mutex
        /\ \A v \in Workers \ {w} : job'[v] = job[v]
    BY <1>1, <1>5 DEF AcquireRefreshLock, GetByID, Refresh, Recover, Persist, Finish, To
  <2>2. job'[w].attempt = job[w].attempt
    <3>1. CASE AcquireRefreshLock(w) \/ Recover(w)
      BY <1>1, <3>1 DEF AcquireRefreshLock, Recover, Finish, Jobs
    <3>2. CASE GetByID(w)
      BY <1>1, <3>2, GetByIDJob
    <3>3. CASE Refresh(w)
      BY <1>1, <3>3 DEF Refresh, Finish, To, Jobs
    <3>4. CASE Persist(w)
      BY <1>1, <3>4 DEF Persist, Jobs
    <3> QED
      BY <1>5, <3>1, <3>2, <3>3, <3>4
  <2> QED
    BY <1>2, <2>1, <2>2
<1>6. ASSUME NEW w \in Workers, Release(w) PROVE \A v \in Workers : OK(v)
  <2>1. /\ job[w].pc = "release" /\ mutex[Inst(w)] = w /\ Released(w) \in [Workers -> Jobs]
        /\ \A v \in Workers \ {w} : Released(w)[v] = job[v]
        /\ Released(w)[w].pc \in {"idle", "mutex", "seterror"}
        /\ Released(w)[w].pc # "seterror" => Released(w)[w].attempt <= MaxRetries
    BY <1>1, <1>6, ReleasedTypes DEF Release
  <2>2. \A v \in Workers : job'[v].pc = Released(w)[v].pc /\ job'[v].attempt = Released(w)[v].attempt
    BY <1>6, <2>1 DEF Release, Jobs, TypeOK
  <2>3. \A i \in Instances \ {Inst(w)} : mutex'[i] = mutex[i]
    BY <1>1, <1>6 DEF Release
  <2> QED
    BY <1>1, <2>1, <2>2, <2>3, Basics
<1>7. ASSUME NEW w \in Workers, SetError(w) PROVE \A v \in Workers : OK(v)
  <2>1. job'[w].pc = "idle" /\ job'[w].attempt = 1
    BY <1>1, <1>7 DEF SetError, Idle
  <2> QED
    BY <1>1, <1>7, <2>1, Basics DEF SetError
<1>8. ASSUME NEW i \in Instances, Crash(i) PROVE \A v \in Workers : OK(v)
  <2>1. \A v \in Workers : IF Inst(v) = i THEN job'[v].pc = "idle" /\ job'[v].attempt = 1
                                          ELSE job'[v] = job[v]
    BY <1>1, <1>8 DEF Crash, Idle
  <2>2. \A j \in Instances \ {i} : mutex'[j] = mutex[j]
    BY <1>1, <1>8 DEF Crash
  <2> QED
    BY <1>1, <2>1, <2>2, Basics
<1>9. CASE LockExpires
  <2>1. \A v \in Workers : job'[v].pc = job[v].pc /\ job'[v].attempt = job[v].attempt
    BY <1>1, <1>9 DEF LockExpires, Jobs, TypeOK
  <2> QED
    BY <1>1, <1>9, <2>1 DEF LockExpires
<1>10. CASE TimePasses \/ UNCHANGED vars
  BY <1>1, <1>10 DEF TimePasses, vars
<1> QED
  BY <1>3, <1>4, <1>5, <1>6, <1>7, <1>8, <1>9, <1>10 DEF Next, Step

\* The initial states are well typed.
LEMMA TypeCorrectInit == ASSUME Init PROVE TypeOK
<1>1. account \in Row /\ current \in Tokens
  BY Basics DEF Init, Row
<1>2. job \in [Workers -> Jobs] /\ \A w \in Workers : job[w].pc = "idle" /\ job[w].attempt = 1
  BY <1>1, Basics DEF Init, Idle
<1>3. faults \in 0 .. MaxFaults
  BY Basics DEF Init
<1> QED
  BY <1>1, <1>2, <1>3, Basics DEF Init, TypeOK

\* Type correctness: every variable has its type, and a worker inside
\* RefreshIfNeeded holds the mutex of its process.
THEOREM TypeCorrect == Spec => []TypeOK
<1>1. Init => TypeOK
  BY TypeCorrectInit
<1>2. TypeOK /\ [Next]_vars => TypeOK'
  BY JobSteps, DataSteps, MutexSteps DEF TypeOK
<1> QED
  BY <1>1, <1>2, PTL DEF Spec
----------------------------------------------------------------------------
(* Why a marked account has an excuse: the inductive invariant.            *)

\* A worker that took the lock in Redis and has not lost it since is its owner,
\* and a worker inside has taken it or gone on without it.
Inside == {"reread", "refresh", "recover", "persist"}
Known(rec, owner, w) ==
    /\ rec.held /\ ~rec.bare => owner = w
    /\ rec.pc \in Inside => rec.held \/ rec.bare
LocksKnown == \A w \in Workers : Known(job[w], lock, w)

\* Two instances that refresh at once have been noticed.
OverlapExcused == Overlap(job) \subseteq excuse

\* While nothing has gone wrong, the row holds the token the provider accepts but
\* between a refresh and its store, and nobody holds a token for dead that is not.
Sound(rec, token) ==
    /\ rec.result # "invalid" /\ rec.pc # "seterror"
    /\ rec.pc = "persist" => rec.got = token
    /\ rec.pc = "refresh" /\ ~rec.blind => rec.fresh.token = token
    /\ rec.pc = "recover" => rec.blind /\ rec.fresh.token # token
Excused ==
    excuse = {} =>
        /\ ~account.error
        /\ (\A w \in Workers : job[w].pc # "persist") => account.token = current
        /\ \A w \in Workers : Sound(job[w], current)

Inv == TypeOK /\ LocksKnown /\ OverlapExcused /\ Excused

\* While nothing has gone wrong, one worker refreshes at a time.
LEMMA Exclusive ==
  ASSUME TypeOK, LocksKnown, OverlapExcused, excuse = {}, NEW v \in Workers, NEW w \in Workers,
         Refreshing(job, v), Refreshing(job, w)
  PROVE  v = w
<1>1. CASE Inst(v) = Inst(w)
  BY <1>1 DEF TypeOK, Refreshing
<1>2. CASE Inst(v) # Inst(w)
  <2>1. ~job[v].bare /\ ~job[w].bare
    BY <1>2 DEF OverlapExcused, Overlap
  <2> QED
    BY <2>1 DEF LocksKnown, Known, Inside, Refreshing
<1> QED
  BY <1>1, <1>2

\* What is known of the locks of each worker stays known.
LEMMA LockSteps ==
  ASSUME TypeOK, TypeOK', LocksKnown, [Next]_vars PROVE LocksKnown'
<1> DEFINE OK(w) == Known(job'[w], lock', w)
<1>1. /\ job \in [Workers -> Jobs] /\ job' \in [Workers -> Jobs]
      /\ \A w \in Workers : Known(job[w], lock, w)
  BY DEF TypeOK, LocksKnown
<1>2. ASSUME NEW w \in Workers, UNCHANGED lock, \A v \in Workers \ {w} : job'[v] = job[v],
             job'[w].held = job[w].held, job'[w].bare = job[w].bare,
             job'[w].pc \in Inside => job[w].pc \in Inside
      PROVE  \A v \in Workers : OK(v)
  <2>1. OK(w)
    BY <1>1, <1>2 DEF Known
  <2> QED
    BY <1>1, <1>2, <2>1
<1>3. \A rec, owner, w : ~rec.held /\ rec.pc \notin Inside => Known(rec, owner, w)
  BY DEF Known
<1>4. \A rec, owner, w : rec.bare => Known(rec, owner, w)
  BY DEF Known
<1>5. ASSUME NEW w \in Workers, Start(w) PROVE \A v \in Workers : OK(v)
  <2>1. job'[w] = [Idle(account) EXCEPT !.pc = "mutex"]
    BY <1>1, <1>5 DEF Start
  <2>2. ~job'[w].held /\ job'[w].pc \notin Inside
    BY <2>1 DEF Idle, Inside
  <2> QED
    BY <1>1, <1>3, <1>5, <2>2 DEF Start
<1>6. ASSUME NEW w \in Workers, LockMutex(w) \/ Refresh(w) \/ Recover(w) \/ GetByID(w) \/ Persist(w)
      PROVE  \A v \in Workers : OK(v)
  <2>1. UNCHANGED lock /\ \A v \in Workers \ {w} : job'[v] = job[v]
    BY <1>1, <1>6 DEF LockMutex, Refresh, Recover, GetByID, Persist, Finish, To
  <2>2. /\ job'[w].held = job[w].held /\ job'[w].bare = job[w].bare
        /\ job'[w].pc \in Inside => job[w].pc \in Inside
    <3>1. CASE LockMutex(w)
      BY <1>1, <3>1 DEF LockMutex, To, Jobs, Inside
    <3>2. CASE Refresh(w)
      BY <1>1, <3>2 DEF Refresh, Finish, To, Jobs, Inside
    <3>3. CASE Recover(w)
      BY <1>1, <3>3 DEF Recover, Finish, Jobs, Inside
    <3>4. CASE GetByID(w)
      <4>1. job[w].pc = "reread" /\ job[w].pc \in Inside
        BY <3>4 DEF GetByID, Inside
      <4> QED
        BY <1>1, <3>4, <4>1, GetByIDJob
    <3>5. CASE Persist(w)
      BY <1>1, <3>5 DEF Persist, Jobs, Inside
    <3> QED
      BY <1>6, <3>1, <3>2, <3>3, <3>4, <3>5
  <2> QED
    BY <1>2, <2>1, <2>2
<1>7. ASSUME NEW w \in Workers, AcquireRefreshLock(w) PROVE \A v \in Workers : OK(v)
  <2>1. \A v \in Workers \ {w} : job'[v] = job[v]
    BY <1>1, <1>7 DEF AcquireRefreshLock, Finish
  <2>2. CASE lock = NoOne /\ lock' = w /\ job' = [job EXCEPT ![w].pc = "reread", ![w].held = TRUE]
    <3>1. job'[w].held
      BY <1>1, <2>2 DEF Jobs
    <3>2. OK(w)
      BY <2>2, <3>1 DEF Known
    <3>3. \A v \in Workers : Known(job[v], lock', v)
      BY <1>1, <2>2, Basics DEF Known
    <3> QED
      BY <2>1, <3>2, <3>3
  <2>3. CASE Finish(w, "held") /\ UNCHANGED lock
    <3>1. job'[w].pc = "release" /\ job'[w].held = job[w].held /\ job'[w].bare = job[w].bare
      BY <1>1, <2>3 DEF Finish, Jobs
    <3> QED
      BY <1>2, <2>1, <2>3, <3>1 DEF Inside
  <2>4. CASE job' = [job EXCEPT ![w].pc = "reread", ![w].bare = TRUE] /\ UNCHANGED lock
    <3>1. job'[w].bare
      BY <1>1, <2>4 DEF Jobs
    <3> QED
      BY <1>1, <1>4, <2>1, <2>4, <3>1
  <2> QED
    BY <1>7, <2>2, <2>3, <2>4 DEF AcquireRefreshLock
<1>8. ASSUME NEW w \in Workers, Release(w) PROVE \A v \in Workers : OK(v)
  <2>1. /\ Released(w) \in [Workers -> Jobs]
        /\ \A v \in Workers \ {w} : Released(w)[v] = job[v]
        /\ Released(w)[w].pc \notin Inside /\ ~Released(w)[w].held
    BY <1>8, ReleasedTypes DEF Release, Inside
  <2>2. lock' = lock \/ (lock' = NoOne /\ job[w].held)
    BY <1>8 DEF Release, ReleaseRefreshLock
  <2>3. CASE lock \notin {w, NoOne} /\ job[w].held /\ job[w].bare /\ lock' = NoOne
             /\ job' = [Released(w) EXCEPT ![lock].bare = TRUE]
    <3>1. lock \in Workers \ {w}
      BY <2>3 DEF TypeOK
    <3>2. job'[lock].bare
      BY <2>1, <3>1, <2>3 DEF Jobs
    <3>3. \A v \in Workers \ {lock} : job'[v] = Released(w)[v]
      BY <2>1, <3>1, <2>3
    <3>4. \A v \in Workers \ {lock} : Known(job[v], lock', v)
      BY <1>1, <2>3 DEF Known
    <3>5. OK(w)
      BY <1>3, <2>1, <3>1, <3>3
    <3> QED
      BY <1>4, <2>1, <3>2, <3>3, <3>4, <3>5
  <2>4. CASE job' = Released(w) /\ ~(lock \notin {w, NoOne} /\ job[w].held /\ job[w].bare /\ lock' = NoOne)
    <3>1. \A v \in Workers \ {w} : Known(job[v], lock', v)
      BY <1>1, <2>2, <2>4 DEF Known
    <3> QED
      BY <1>3, <2>1, <2>4, <3>1
  <2> QED
    BY <1>8, <2>3, <2>4 DEF Release, ReleaseRefreshLock
<1>9. ASSUME NEW w \in Workers, SetError(w) PROVE \A v \in Workers : OK(v)
  <2>1. job'[w] = Idle(account')
    BY <1>1, <1>9 DEF SetError
  <2>2. ~job'[w].held /\ job'[w].pc \notin Inside
    BY <2>1 DEF Idle, Inside
  <2> QED
    BY <1>1, <1>3, <1>9, <2>2 DEF SetError
<1>10. ASSUME NEW i \in Instances, Crash(i) PROVE \A v \in Workers : OK(v)
  <2>1. ~Idle(account).held /\ Idle(account).pc \notin Inside
    BY DEF Idle, Inside
  <2>2. \A v \in Workers : job'[v] = Idle(account) \/ job'[v] = job[v]
    BY <1>1, <1>10 DEF Crash
  <2> QED
    BY <1>1, <1>3, <1>10, <2>1, <2>2 DEF Crash
<1>11. CASE LockExpires
  <2>1. lock \in Workers /\ lock' = NoOne
    BY <1>11 DEF LockExpires, TypeOK
  <2>2. \A v \in Workers \ {lock} : Known(job[v], lock', v)
    BY <1>1, <2>1 DEF Known
  <2>3. CASE job' = [job EXCEPT ![lock].bare = TRUE]
    <3>1. job'[lock].bare /\ \A v \in Workers \ {lock} : job'[v] = job[v]
      BY <1>1, <2>1, <2>3 DEF Jobs
    <3> QED
      BY <1>4, <2>2, <3>1 DEF LocksKnown
  <2>4. CASE UNCHANGED job /\ ~job[lock].held
    <3>1. Known(job[lock], lock', lock)
      BY <1>1, <2>1, <2>4 DEF Known
    <3> QED
      BY <2>2, <2>4, <3>1 DEF LocksKnown
  <2> QED
    BY <1>11, <2>3, <2>4 DEF LockExpires
<1>12. CASE TimePasses \/ UNCHANGED vars
  BY <1>1, <1>12 DEF TimePasses, vars, LocksKnown
<1> QED
  BY <1>5, <1>6, <1>7, <1>8, <1>9, <1>10, <1>11, <1>12 DEF Next, Step, LocksKnown

\* Two instances come to refresh at once, one without its lock, only in the steps
\* that look for it.
LEMMA OverlapSteps ==
  ASSUME TypeOK, TypeOK', OverlapExcused, [Next]_vars PROVE OverlapExcused'
<1>1. job \in [Workers -> Jobs] /\ job' \in [Workers -> Jobs] /\ excuse \subseteq excuse'
  BY OneStepAtATime DEF OneStep, TypeOK
<1>2. ASSUME \A w \in Workers : Refreshing(job', w) => Refreshing(job, w) /\ job'[w].bare = job[w].bare
      PROVE  OverlapExcused'
  <2>1. Overlap(job') \subseteq Overlap(job)
    BY <1>2 DEF Overlap
  <2> QED
    BY <1>1, <2>1 DEF OverlapExcused
<1>3. ASSUME excuse' = excuse \cup Overlap(job') PROVE OverlapExcused'
  BY <1>3 DEF OverlapExcused
<1>4. ASSUME NEW w \in Workers, Start(w) PROVE OverlapExcused'
  <2>1. ~Refreshing(job', w) /\ \A v \in Workers \ {w} : job'[v] = job[v]
    BY <1>1, <1>4 DEF Start, Idle, Refreshing
  <2> QED
    BY <1>2, <2>1 DEF Refreshing
<1>5. ASSUME NEW w \in Workers, LockMutex(w) \/ Refresh(w) \/ Recover(w) \/ GetByID(w) \/ Persist(w)
      PROVE  OverlapExcused'
  <2>1. \A v \in Workers \ {w} : job'[v] = job[v]
    BY <1>1, <1>5 DEF LockMutex, Refresh, Recover, GetByID, Persist, Finish, To
  <2>2. job'[w].bare = job[w].bare /\ (Refreshing(job', w) => Refreshing(job, w))
    <3>1. CASE LockMutex(w)
      BY <1>1, <3>1 DEF LockMutex, To, Jobs, Refreshing
    <3>2. CASE Refresh(w)
      BY <1>1, <3>2 DEF Refresh, Finish, To, Jobs, Refreshing
    <3>3. CASE Recover(w)
      BY <1>1, <3>3 DEF Recover, Finish, Jobs, Refreshing
    <3>4. CASE GetByID(w)
      <4>1. Refreshing(job, w)
        BY <3>4 DEF GetByID, Refreshing
      <4> QED
        BY <1>1, <3>4, <4>1, GetByIDJob
    <3>5. CASE Persist(w)
      BY <1>1, <3>5 DEF Persist, Jobs, Refreshing
    <3> QED
      BY <1>5, <3>1, <3>2, <3>3, <3>4, <3>5
  <2> QED
    BY <1>2, <2>1, <2>2 DEF Refreshing
<1>6. ASSUME NEW w \in Workers, SetError(w) PROVE OverlapExcused'
  <2>1. ~Refreshing(job', w) /\ \A v \in Workers \ {w} : job'[v] = job[v]
    BY <1>1, <1>6 DEF SetError, Idle, Refreshing
  <2> QED
    BY <1>2, <2>1 DEF Refreshing
<1>7. ASSUME NEW i \in Instances, Crash(i) PROVE OverlapExcused'
  <2>1. Idle(account).pc = "idle"
    BY DEF Idle
  <2>2. \A v \in Workers : job'[v] = Idle(account) \/ job'[v] = job[v]
    BY <1>1, <1>7 DEF Crash
  <2> QED
    BY <1>2, <2>1, <2>2 DEF Refreshing
<1>8. CASE TimePasses \/ UNCHANGED vars
  BY <1>2, <1>8 DEF TimePasses, vars
<1>9. ASSUME NEW w \in Workers, AcquireRefreshLock(w) \/ Release(w) PROVE OverlapExcused'
  BY <1>3, <1>9 DEF AcquireRefreshLock, Release
<1>10. CASE LockExpires
  BY <1>3, <1>10 DEF LockExpires
<1> QED
  BY <1>4, <1>5, <1>6, <1>7, <1>8, <1>9, <1>10 DEF Next, Step

\* Without an excuse nobody is told that a token is dead: the worker that reads the
\* row under the lock reads the token the provider accepts.
LEMMA ExcusedSteps ==
  ASSUME Inv, TypeOK', [Next]_vars PROVE Excused'
<1>1. SUFFICES ASSUME excuse' = {}
      PROVE  /\ ~account'.error
             /\ (\A w \in Workers : job'[w].pc # "persist") => account'.token = current'
             /\ \A w \in Workers : Sound(job'[w], current')
  BY DEF Excused
<1> DEFINE Goal == /\ ~account'.error
                   /\ (\A w \in Workers : job'[w].pc # "persist") => account'.token = current'
                   /\ \A w \in Workers : Sound(job'[w], current')
<1>2. /\ excuse = {} /\ ~account.error
      /\ (\A w \in Workers : job[w].pc # "persist") => account.token = current
      /\ \A w \in Workers : Sound(job[w], current)
  <2>1. excuse \subseteq excuse'
    BY OneStepAtATime DEF OneStep
  <2> QED
    BY <1>1, <2>1 DEF Inv, Excused
<1>3. /\ job \in [Workers -> Jobs] /\ job' \in [Workers -> Jobs] /\ account \in Row
      /\ current \in Tokens /\ current \in Nat
  BY DEF Inv, TypeOK, Tokens
<1>4. \A v, w \in Workers : Refreshing(job, v) /\ Refreshing(job, w) => v = w
  BY <1>2, Exclusive DEF Inv
<1>5. ASSUME NEW w \in Workers, \A v \in Workers \ {w} : job'[v] = job[v], UNCHANGED <<current, account>>,
             job[w].pc # "persist", Sound(job'[w], current)
      PROVE  Goal
  <2>1. (\A v \in Workers : job'[v].pc # "persist") => account.token = current
    BY <1>2, <1>5
  <2>2. \A v \in Workers : Sound(job'[v], current)
    BY <1>2, <1>5
  <2> QED
    BY <1>2, <1>5, <2>1, <2>2
<1> USE DEF Refreshing
<1>6. ASSUME NEW w \in Workers, Start(w) PROVE Goal
  <2>1. job'[w] = [Idle(account) EXCEPT !.pc = "mutex"]
    BY <1>3, <1>6 DEF Start
  <2>2. Sound(job'[w], current)
    BY <2>1 DEF Idle, Sound
  <2> QED
    BY <1>5, <1>6, <2>2 DEF Start
<1>7. ASSUME NEW w \in Workers, LockMutex(w) \/ AcquireRefreshLock(w) PROVE Goal
  <2>1. /\ job'[w].pc \in {"acquire", "reread", "release"} /\ job'[w].result \in {job[w].result, "held"}
    <3>1. CASE LockMutex(w)
      BY <1>3, <3>1 DEF LockMutex, To, Jobs
    <3>2. CASE AcquireRefreshLock(w)
      BY <1>3, <3>2 DEF AcquireRefreshLock, Finish, Jobs
    <3> QED
      BY <1>7, <3>1, <3>2
  <2>2. Sound(job'[w], current)
    BY <1>2, <2>1 DEF Sound
  <2> QED
    BY <1>3, <1>5, <1>7, <2>2 DEF LockMutex, AcquireRefreshLock, Finish, To
<1>8. ASSUME NEW w \in Workers, GetByID(w) PROVE Goal
  <2>1. job[w].pc = "reread" /\ account.token = current
    BY <1>2, <1>4, <1>8 DEF GetByID
  <2>2. PICK failed \in BOOLEAN :
          LET fresh == IF failed THEN job[w].copy ELSE account IN
          job' = [job EXCEPT ![w].pc = IF fresh.expiring THEN "refresh" ELSE "release",
                             ![w].fresh = fresh, ![w].own = failed, ![w].blind = failed,
                             ![w].result = IF fresh.expiring THEN @ ELSE "notneeded"]
    BY <1>8 DEF GetByID
  <2>3. /\ job'[w].pc \in {"refresh", "release"} /\ job'[w].result \in {job[w].result, "notneeded"}
        /\ job'[w].blind = failed /\ (~failed => job'[w].fresh = account)
    <3> DEFINE fresh == IF failed THEN job[w].copy ELSE account
    <3>1. job'[w] = [job[w] EXCEPT !.pc = IF fresh.expiring THEN "refresh" ELSE "release",
                                   !.fresh = fresh, !.own = failed, !.blind = failed,
                                   !.result = IF fresh.expiring THEN @ ELSE "notneeded"]
      BY <1>3, <2>2
    <3>2. ~failed => fresh = account
      OBVIOUS
    <3> HIDE DEF fresh
    <3>3. job[w] \in Jobs
      BY <1>3
    <3> QED
      BY <3>1, <3>2, <3>3 DEF Jobs
  <2>4. Sound(job'[w], current)
    BY <1>2, <2>1, <2>3 DEF Sound
  <2> QED
    BY <1>3, <1>5, <1>8, <2>1, <2>4 DEF GetByID
<1>9. ASSUME NEW w \in Workers, Refresh(w) PROVE Goal
  <2>1. job[w].pc = "refresh" /\ \A v \in Workers \ {w} : job'[v] = job[v] /\ job[v].pc \notin {"reread", "refresh", "recover", "persist"}
    BY <1>3, <1>4, <1>9 DEF Refresh, Finish, To
  <2>2. CASE current' = current + 1 /\ job' = [job EXCEPT ![w].pc = "persist", ![w].got = current + 1]
    <3>1. job'[w].pc = "persist" /\ job'[w].got = current' /\ job'[w].result = job[w].result
      BY <1>3, <2>2 DEF Jobs
    <3>2. \A v \in Workers : Sound(job'[v], current')
      BY <1>2, <2>1, <3>1 DEF Sound
    <3> QED
      BY <1>2, <1>9, <3>1, <3>2 DEF Refresh
  <2>3. CASE job[w].fresh.token # current /\ To(w, "recover") /\ UNCHANGED current
    <3>1. /\ job'[w].pc = "recover" /\ job'[w].result = job[w].result
          /\ job'[w].blind = job[w].blind /\ job'[w].fresh = job[w].fresh
      BY <1>3, <2>3 DEF To, Jobs
    <3>2. Sound(job'[w], current)
      BY <1>2, <2>1, <2>3, <3>1 DEF Sound
    <3> QED
      BY <1>5, <1>9, <2>1, <2>3, <3>2 DEF Refresh
  <2>4. CASE Finish(w, "retryable") /\ UNCHANGED current
    <3>1. job'[w].pc = "release" /\ job'[w].result = "retryable"
      BY <1>3, <2>4 DEF Finish, Jobs
    <3>2. Sound(job'[w], current)
      BY <3>1 DEF Sound
    <3> QED
      BY <1>5, <1>9, <2>1, <2>4, <3>2 DEF Refresh
  <2>5. CASE excuse' = excuse \cup {"lost"}
    BY <1>1, <2>5
  <2> QED
    BY <1>9, <2>2, <2>3, <2>4, <2>5 DEF Refresh
<1>10. ASSUME NEW w \in Workers, Recover(w) PROVE Goal
  <2>1. job[w].pc = "recover" /\ account.token = current /\ job[w].blind /\ job[w].fresh.token # current
    BY <1>2, <1>4, <1>10 DEF Recover, Sound
  <2>2. Finish(w, "notneeded")
    BY <1>1, <1>10, <2>1 DEF Recover
  <2>3. job'[w].pc = "release" /\ job'[w].result = "notneeded"
    BY <1>3, <2>2 DEF Finish, Jobs
  <2>4. Sound(job'[w], current)
    BY <2>3 DEF Sound
  <2> QED
    BY <1>3, <1>5, <1>10, <2>1, <2>2, <2>4 DEF Recover, Finish
<1>11. ASSUME NEW w \in Workers, Persist(w) PROVE Goal
  <2>1. job[w].pc = "persist" /\ job[w].got = current /\ \A v \in Workers \ {w} : job'[v] = job[v]
    BY <1>2, <1>3, <1>11 DEF Persist, Sound
  <2>2. account' = [account EXCEPT !.token = MergeCredentials(job[w].fresh, job[w].got).token,
                                   !.expiring = MergeCredentials(job[w].fresh, job[w].got).expiring]
    BY <1>1, <1>11 DEF Persist
  <2>3. MergeCredentials(job[w].fresh, job[w].got).token = current
    BY <1>3, <2>1 DEF MergeCredentials, Jobs, Row
  <2>4. account'.token = current /\ account'.error = account.error /\ UNCHANGED current
    BY <1>3, <1>11, <2>2, <2>3 DEF Persist, Row
  <2>5. job'[w].pc = "release" /\ job'[w].result \in {"refreshed", "retryable"}
    BY <1>3, <1>11 DEF Persist, Jobs
  <2>6. \A v \in Workers : Sound(job'[v], current')
    BY <1>2, <2>1, <2>4, <2>5 DEF Sound
  <2> QED
    BY <1>2, <2>4, <2>6
<1>12. ASSUME NEW w \in Workers, Release(w) PROVE Goal
  <2>1. /\ Released(w) \in [Workers -> Jobs] /\ job[w].pc = "release"
        /\ \A v \in Workers \ {w} : Released(w)[v] = job[v]
        /\ Released(w)[w].pc \in {"idle", "mutex"} /\ Released(w)[w].result = "none"
    BY <1>2, <1>12, ReleasedTypes DEF Release, Inv, Sound
  <2>2. \A v \in Workers : Sound(Released(w)[v], current)
    BY <1>2, <2>1 DEF Sound
  <2>3. \A v \in Workers : Released(w)[v].pc = "persist" <=> job[v].pc = "persist"
    BY <2>1
  <2>4. \A v \in Workers :
          /\ job'[v].pc = Released(w)[v].pc /\ job'[v].result = Released(w)[v].result
          /\ job'[v].got = Released(w)[v].got /\ job'[v].blind = Released(w)[v].blind
          /\ job'[v].fresh = Released(w)[v].fresh
    BY <1>12, <2>1 DEF Release, Jobs
  <2>5. UNCHANGED <<current, account>>
    BY <1>12 DEF Release
  <2>6. \A v \in Workers : Sound(job'[v], current')
    BY <2>2, <2>4, <2>5 DEF Sound
  <2> QED
    BY <1>2, <2>3, <2>4, <2>5, <2>6
<1>13. ASSUME NEW w \in Workers, SetError(w) PROVE Goal
  BY <1>2, <1>13 DEF SetError, Sound
<1>14. ASSUME NEW i \in Instances, Crash(i) PROVE Goal
  <2>1. \A v \in Workers : Inst(v) = i => job[v].pc # "persist"
    BY <1>1, <1>14 DEF Crash
  <2>2. /\ \A v \in Workers : job'[v] = IF Inst(v) = i THEN Idle(account) ELSE job[v]
        /\ UNCHANGED <<current, account>>
    BY <1>14 DEF Crash
  <2>3. Idle(account).pc = "idle" /\ Sound(Idle(account), current)
    BY DEF Idle, Sound
  <2>4. \A v \in Workers : Sound(job'[v], current)
    BY <1>2, <2>2, <2>3
  <2>5. \A v \in Workers : Sound(job'[v], current')
    BY <2>2, <2>4 DEF Sound
  <2> QED
    BY <1>2, <2>1, <2>2, <2>3, <2>5
<1>15. CASE TimePasses
  <2>1. account'.token = account.token /\ account'.error = account.error /\ UNCHANGED <<current, job>>
    BY <1>3, <1>15 DEF TimePasses, Row
  <2> QED
    BY <1>2, <2>1 DEF Sound
<1>16. CASE LockExpires
  <2>1. \A v \in Workers :
          /\ job'[v].pc = job[v].pc /\ job'[v].result = job[v].result /\ job'[v].got = job[v].got
          /\ job'[v].blind = job[v].blind /\ job'[v].fresh = job[v].fresh
    BY <1>3, <1>16 DEF LockExpires, Jobs
  <2>2. UNCHANGED <<current, account>>
    BY <1>16 DEF LockExpires
  <2>3. \A v \in Workers : Sound(job'[v], current')
    BY <1>2, <2>1, <2>2 DEF Sound
  <2> QED
    BY <1>2, <2>1, <2>2, <2>3
<1>17. CASE UNCHANGED vars
  BY <1>2, <1>17 DEF vars, Sound
<1> QED
  BY <1>6, <1>7, <1>8, <1>9, <1>10, <1>11, <1>12, <1>13, <1>14, <1>15, <1>16, <1>17 DEF Next, Step

\* The inductive invariant of the locks and the tokens.
THEOREM AlwaysInv == Spec => []Inv
<1>1. Init => Inv
  <2> SUFFICES ASSUME Init PROVE LocksKnown /\ OverlapExcused /\ Excused
    BY TypeCorrectInit DEF Inv
  <2>1. \A w \in Workers : job[w] = Idle(account)
    BY DEF Init
  <2>2. LocksKnown
    BY <2>1 DEF LocksKnown, Known, Inside, Idle
  <2>3. OverlapExcused
    BY <2>1 DEF OverlapExcused, Overlap, Refreshing, Idle
  <2>4. Excused
    BY <2>1 DEF Init, Excused, Sound, Idle
  <2> QED
    BY <2>2, <2>3, <2>4
<1>2. Inv /\ TypeOK' /\ [Next]_vars => Inv'
  BY LockSteps, OverlapSteps, ExcusedSteps DEF Inv
<1> QED
  BY <1>1, <1>2, TypeCorrect, PTL DEF Spec

\* An account is taken out of service only after an answer was lost, two instances
\* refreshed at once without a lock, or the account could not be read.
THEOREM MarkedOnlyDead == Spec => []MarkedIsDead
<1>1. Inv => MarkedIsDead
  BY DEF Inv, Excused, MarkedIsDead
<1> QED
  BY <1>1, AlwaysInv, PTL
=============================================================================
