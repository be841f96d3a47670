------------------------ MODULE UsageBillingProofs -------------------------
(***************************************************************************)
(* Proofs about UsageBilling, for any tasks, keys, rows, costs and limits: *)
(* type correctness, that the transactions implement the ledger, that keys *)
(* are marked exhausted exactly at their quota, that the window of a key   *)
(* counts the charges made in it, and that no group of transactions waits  *)
(* in a circle.                                                            *)
(***************************************************************************)
EXTENDS UsageBilling, FiniteSetTheorems, WellFoundedInduction, TLAPS

Answers == {"none", "applied", "duplicate", "conflict", "error"}

\* The assumptions on the constants, as the proofs use them.
LEMMA Bounds ==
  /\ \A t \in Tasks : KeyOf[t] \in Keys /\ PrintOf[t] \in Prints /\ PrintOf[t] # NoPrint
  /\ \A t \in Tasks : \A k \in Kinds : Target[t][k] \in Rows /\ Cost[t][k] \in Nat
  /\ \A t \in Tasks : Target[t]["quota"] = Target[t]["rate"]
  /\ \A t, u \in Tasks : \A j, k \in Kinds : Target[t][j] = Target[u][k] => SameTable(j, k)
  /\ \A r \in Rows : Limit[r] \in Nat
  /\ \A t \in Tasks : Limit[Target[t]["subscription"]] = 0 /\ Limit[Target[t]["balance"]] = 0
  /\ MaxClock \in Nat /\ MaxFaults \in Nat
BY BillingAssumption DEF Prints

\* A transaction that has written nothing holds no row.
LEMMA NothingWritten == DOMAIN <<>> = {}
OBVIOUS

----------------------------------------------------------------------------
(* The sum of the rate charges of a finite set of tasks *)

\* What a task costs the rate limit of its key.
RateOf(u) == Cost[u]["rate"]
Pick(s) == CHOOSE x \in s : TRUE
RateSum(S) == MapThenSumSet(LAMBDA u : RateOf(u), S)

\* The function by which the community modules define the sum over S, and one
\* they choose.
Summing(S, g) ==
    g = [s \in SUBSET S |-> IF s = {} THEN 0 ELSE RateOf(Pick(s)) + g[s \ {Pick(s)}]]
Summed(S) == CHOOSE g : Summing(S, g)

\* Their sum is the value of that function.
LEMMA SumIsSummed == \A S : RateSum(S) = Summed(S)[S]
BY DEF RateSum, MapThenSumSet, MapThenFoldSet, Summed, Summing, Pick

\* Of finite sets, some has no other as a subset: the induction of this section.
LEMMA Smallest ==
  ASSUME NEW F, F # {}, \A S \in F : IsFiniteSet(S)
  PROVE  \E S \in F : \A T \in F : T \subseteq S => T = S
<1> DEFINE U == UNION F
           R == StrictSubsetOrdering(U)
<1>1. F \subseteq FiniteSubsetsOf(U)
  BY DEF FiniteSubsetsOf
<1>2. IsWellFoundedOn(R, FiniteSubsetsOf(U))
  BY FS_StrictSubsetOrderingWellFounded
<1>3. \A S, T \in SUBSET U : S \subseteq T /\ S # T => <<S, T>> \in R
  BY DEF StrictSubsetOrdering
<1>4. \A S \in F : S \in SUBSET U
  OBVIOUS
<1> HIDE DEF R, U
<1>5. PICK S \in F : \A T \in F : ~(<<T, S>> \in R)
  BY <1>1, <1>2, WFMin
<1> QED
  BY <1>3, <1>4, <1>5

\* Two such functions agree wherever both are defined.
LEMMA SummedUnique ==
  ASSUME NEW S, NEW T, NEW g, NEW h, Summing(S, g), Summing(T, h),
         NEW s, s \subseteq S, s \subseteq T, IsFiniteSet(s)
  PROVE  g[s] = h[s]
<1> DEFINE F == {r \in SUBSET s : g[r] # h[r]}
<1>1. SUFFICES ASSUME F # {} PROVE FALSE
  OBVIOUS
<1>2. \A r \in F : IsFiniteSet(r)
  BY FS_Subset
<1> HIDE DEF F
<1>3. PICK r \in F : \A q \in F : q \subseteq r => q = r
  BY <1>1, <1>2, Smallest
<1>4. r \subseteq s /\ g[r] # h[r] /\ \A q \in SUBSET s : q \subseteq r /\ q # r => g[q] = h[q]
  BY <1>3 DEF F
<1>5. r \in SUBSET S /\ r \in SUBSET T
  BY <1>4
<1>6. /\ g[r] = IF r = {} THEN 0 ELSE RateOf(Pick(r)) + g[r \ {Pick(r)}]
      /\ h[r] = IF r = {} THEN 0 ELSE RateOf(Pick(r)) + h[r \ {Pick(r)}]
  BY <1>5 DEF Summing
<1>7. r # {}
  BY <1>4, <1>6
<1>8. Pick(r) \in r
  BY <1>7 DEF Pick
<1>9. g[r \ {Pick(r)}] = h[r \ {Pick(r)}]
  BY <1>4, <1>8
<1> QED
  BY <1>4, <1>6, <1>9

\* There is one for every finite set: the values of smaller sets make the next.
LEMMA SummedExists ==
  ASSUME NEW S, IsFiniteSet(S) PROVE Summing(S, Summed(S))
<1> DEFINE F == {r \in SUBSET S : ~ \E g : Summing(r, g)}
<1>1. SUFFICES ASSUME F # {} PROVE FALSE
  BY DEF Summed
<1>2. \A r \in F : IsFiniteSet(r)
  BY FS_Subset
<1> HIDE DEF F
<1>3. PICK r \in F : \A q \in F : q \subseteq r => q = r
  BY <1>1, <1>2, Smallest
<1>4. r \subseteq S /\ ~ \E g : Summing(r, g)
  BY <1>3 DEF F
<1>5. ASSUME NEW s \in SUBSET r, s # r PROVE Summing(s, Summed(s)) /\ IsFiniteSet(s)
  <2>1. \E g : Summing(s, g)
    BY <1>3, <1>4, <1>5 DEF F
  <2> QED
    BY <1>4, <2>1, FS_Subset DEF Summed
<1>6. r # {}
  <2>1. Summing({}, [s \in SUBSET {} |-> 0])
    BY DEF Summing
  <2> QED
    BY <1>4, <2>1
<1> DEFINE g == [s \in SUBSET r |-> IF s = r THEN RateOf(Pick(r)) + Summed(r \ {Pick(r)})[r \ {Pick(r)}]
                                    ELSE Summed(s)[s]]
<1>7. ASSUME NEW s \in SUBSET r
      PROVE  g[s] = IF s = {} THEN 0 ELSE RateOf(Pick(s)) + g[s \ {Pick(s)}]
  <2>1. CASE s = r
    <3>1. Pick(r) \in r
      BY <1>6 DEF Pick
    <3> QED
      BY <1>6, <2>1, <3>1
  <2>2. CASE s # r
    <3>1. Summing(s, Summed(s)) /\ g[s] = Summed(s)[s]
      BY <1>5, <2>2
    <3>2. Summed(s)[s] = IF s = {} THEN 0 ELSE RateOf(Pick(s)) + Summed(s)[s \ {Pick(s)}]
      BY <3>1 DEF Summing
    <3>3. CASE s # {}
      <4> DEFINE q == s \ {Pick(s)}
      <4>1. q \in SUBSET r /\ q # r /\ q \subseteq s
        BY <2>2
      <4>2. Summing(q, Summed(q)) /\ IsFiniteSet(q) /\ g[q] = Summed(q)[q]
        BY <1>5, <4>1
      <4>3. Summed(s)[q] = Summed(q)[q]
        BY <3>1, <4>1, <4>2, SummedUnique
      <4> QED
        BY <3>1, <3>2, <3>3, <4>2, <4>3
    <3> QED
      BY <3>1, <3>2, <3>3
  <2> QED
    BY <2>1, <2>2
<1>8. Summing(r, g)
  <2>1. g = [s \in SUBSET r |-> g[s]]
    OBVIOUS
  <2> HIDE DEF g
  <2>2. [s \in SUBSET r |-> g[s]]
          = [s \in SUBSET r |-> IF s = {} THEN 0 ELSE RateOf(Pick(s)) + g[s \ {Pick(s)}]]
    BY <1>7
  <2> QED
    BY <2>1, <2>2 DEF Summing
<1> QED
  BY <1>4, <1>8

\* The sum over no task is 0, and any other starts with the task picked.
LEMMA SumStep ==
  ASSUME NEW S, IsFiniteSet(S)
  PROVE  /\ S = {} => RateSum(S) = 0
         /\ S # {} => Pick(S) \in S /\ RateSum(S) = RateOf(Pick(S)) + RateSum(S \ {Pick(S)})
<1>1. Summing(S, Summed(S))
  BY SummedExists
<1>2. Summed(S)[S] = IF S = {} THEN 0 ELSE RateOf(Pick(S)) + Summed(S)[S \ {Pick(S)}]
  BY <1>1 DEF Summing
<1>3. CASE S # {}
  <2> DEFINE q == S \ {Pick(S)}
  <2>1. IsFiniteSet(q) /\ q \subseteq S
    BY FS_Subset
  <2>2. Summing(q, Summed(q))
    BY <2>1, SummedExists
  <2>3. Summed(S)[q] = Summed(q)[q]
    BY <1>1, <2>1, <2>2, SummedUnique
  <2>4. Pick(S) \in S
    BY <1>3 DEF Pick
  <2> QED
    BY <1>2, <1>3, <2>3, <2>4, SumIsSummed
<1> QED
  BY <1>2, <1>3, SumIsSummed

\* The charges are numbers.
LEMMA RateType == \A u \in Tasks : RateOf(u) \in Nat
BY Bounds DEF RateOf, Kinds

\* The sum is a number.
LEMMA SumType ==
  ASSUME NEW S, S \subseteq Tasks, IsFiniteSet(S) PROVE RateSum(S) \in Nat
<1> DEFINE F == {r \in SUBSET S : RateSum(r) \notin Nat}
<1>1. SUFFICES ASSUME F # {} PROVE FALSE
  OBVIOUS
<1>2. \A r \in F : IsFiniteSet(r)
  BY FS_Subset
<1> HIDE DEF F
<1>3. PICK r \in F : \A q \in F : q \subseteq r => q = r
  BY <1>1, <1>2, Smallest
<1>4. r \subseteq S /\ RateSum(r) \notin Nat /\ \A q \in SUBSET S : q \subseteq r /\ q # r => RateSum(q) \in Nat
  BY <1>3 DEF F
<1>5. r # {} /\ Pick(r) \in r /\ RateSum(r) = RateOf(Pick(r)) + RateSum(r \ {Pick(r)})
  <2>1. IsFiniteSet(r)
    BY <1>2, <1>3
  <2>2. r = {} => RateSum(r) = 0
    BY <2>1, SumStep
  <2>3. r # {}
    BY <1>4, <2>2
  <2> QED
    BY <2>1, <2>3, SumStep
<1>6. RateSum(r \ {Pick(r)}) \in Nat
  BY <1>4, <1>5
<1>7. RateOf(Pick(r)) \in Nat
  BY <1>4, <1>5, RateType
<1> QED
  BY <1>4, <1>5, <1>6, <1>7

\* Any task of the set can be taken out of the sum, whichever is picked first.
LEMMA SumRemove ==
  ASSUME NEW S, S \subseteq Tasks, IsFiniteSet(S), NEW x \in S
  PROVE  RateSum(S) = RateOf(x) + RateSum(S \ {x})
<1> DEFINE F == {r \in SUBSET S : \E y \in r : RateSum(r) # RateOf(y) + RateSum(r \ {y})}
<1>1. SUFFICES ASSUME F # {} PROVE FALSE
  OBVIOUS
<1>2. \A r \in F : IsFiniteSet(r)
  BY FS_Subset
<1> HIDE DEF F
<1>3. PICK r \in F : \A q \in F : q \subseteq r => q = r
  BY <1>1, <1>2, Smallest
<1>4. r \subseteq S /\ \A q \in SUBSET S : q \subseteq r /\ q # r =>
                         \A y \in q : RateSum(q) = RateOf(y) + RateSum(q \ {y})
  BY <1>3 DEF F
<1>5. PICK y \in r : RateSum(r) # RateOf(y) + RateSum(r \ {y})
  BY <1>3 DEF F
<1> DEFINE p == Pick(r)
<1>6. p \in r /\ RateSum(r) = RateOf(p) + RateSum(r \ {p})
  BY <1>2, <1>3, <1>5, SumStep
<1> HIDE DEF p
<1>7. p # y
  BY <1>5, <1>6
<1>8. RateSum(r \ {p}) = RateOf(y) + RateSum((r \ {p}) \ {y})
  <2>1. r \ {p} \in SUBSET S /\ r \ {p} # r /\ y \in r \ {p}
    BY <1>4, <1>6, <1>7
  <2> QED
    BY <1>4, <2>1
<1>9. RateSum(r \ {y}) = RateOf(p) + RateSum((r \ {y}) \ {p})
  <2>1. r \ {y} \in SUBSET S /\ r \ {y} # r /\ p \in r \ {y}
    BY <1>4, <1>6, <1>7
  <2> QED
    BY <1>4, <2>1
<1>10. (r \ {p}) \ {y} = (r \ {y}) \ {p}
  OBVIOUS
<1>11. RateSum((r \ {y}) \ {p}) \in Nat
  <2>1. (r \ {y}) \ {p} \subseteq r
    OBVIOUS
  <2>2. IsFiniteSet((r \ {y}) \ {p})
    BY <1>2, <1>3, <2>1, FS_Subset
  <2> QED
    BY <1>4, <2>1, <2>2, SumType
<1>12. RateOf(p) \in Nat /\ RateOf(y) \in Nat
  BY <1>4, <1>6, RateType
<1>13. \A a, b, c \in Nat : a + (b + c) = b + (a + c)
  OBVIOUS
<1>14. RateSum(r) = RateOf(p) + (RateOf(y) + RateSum((r \ {y}) \ {p}))
  BY <1>6, <1>8, <1>10
<1>15. RateOf(y) + RateSum(r \ {y}) = RateOf(y) + (RateOf(p) + RateSum((r \ {y}) \ {p}))
  BY <1>9
<1> QED
  BY <1>5, <1>11, <1>12, <1>13, <1>14, <1>15

\* A set whose further tasks charge nothing has the smaller sum.
LEMMA SumMonotone ==
  ASSUME NEW S, NEW T, S \subseteq Tasks, T \subseteq Tasks, IsFiniteSet(S), IsFiniteSet(T),
         \A x \in S \ T : RateOf(x) = 0
  PROVE  RateSum(S) <= RateSum(T)
<1> DEFINE OK(r) == \A q \in SUBSET T : (\A x \in r \ q : RateOf(x) = 0) => RateSum(r) <= RateSum(q)
           F == {r \in SUBSET S : ~OK(r)}
<1>1. SUFFICES ASSUME F # {} PROVE FALSE
  OBVIOUS
<1>2. \A r \in F : IsFiniteSet(r)
  BY FS_Subset
<1> HIDE DEF F
<1>3. PICK r \in F : \A q \in F : q \subseteq r => q = r
  BY <1>1, <1>2, Smallest
<1>4. r \subseteq S /\ ~OK(r) /\ \A q \in SUBSET S : q \subseteq r /\ q # r => OK(q)
  BY <1>3 DEF F
<1>5. PICK q \in SUBSET T : (\A x \in r \ q : RateOf(x) = 0) /\ ~(RateSum(r) <= RateSum(q))
  BY <1>4
<1>6. IsFiniteSet(q) /\ q \subseteq Tasks /\ RateSum(q) \in Nat
  BY FS_Subset, SumType
<1>7. r # {}
  <2>1. r = {} => RateSum(r) = 0
    BY <1>2, <1>3, SumStep
  <2> QED
    BY <1>5, <1>6, <2>1
<1>8. PICK x \in r : TRUE
  BY <1>7
<1>9. /\ RateSum(r) = RateOf(x) + RateSum(r \ {x}) /\ RateOf(x) \in Nat
      /\ RateSum(r \ {x}) \in Nat
  <2>1. r \subseteq Tasks /\ IsFiniteSet(r) /\ IsFiniteSet(r \ {x})
    BY <1>2, <1>3, <1>4, FS_Subset
  <2> QED
    BY <2>1, SumRemove, SumType, RateType
<1>10. OK(r \ {x})
  BY <1>4, <1>8
<1>11. CASE x \in q
  <2>1. RateSum(q) = RateOf(x) + RateSum(q \ {x})
    BY <1>6, <1>11, SumRemove
  <2>2. RateSum(r \ {x}) <= RateSum(q \ {x})
    <3>1. q \ {x} \in SUBSET T /\ \A y \in (r \ {x}) \ (q \ {x}) : RateOf(y) = 0
      BY <1>5
    <3> QED
      BY <1>10, <3>1
  <2>3. RateSum(q \ {x}) \in Nat
    <3>1. IsFiniteSet(q \ {x}) /\ q \ {x} \subseteq Tasks
      BY <1>6, FS_Subset
    <3> QED
      BY <3>1, SumType
  <2> QED
    BY <1>5, <1>9, <2>1, <2>2, <2>3
<1>12. CASE x \notin q
  <2>1. RateOf(x) = 0
    BY <1>5, <1>12
  <2>2. RateSum(r \ {x}) <= RateSum(q)
    BY <1>5, <1>10
  <2> QED
    BY <1>5, <1>9, <2>1, <2>2
<1> QED
  BY <1>11, <1>12
----------------------------------------------------------------------------
(* What a step does to the record of a transaction *)

Others(t) ==
    \A u \in Tasks \ {t} : tx'[u] = tx[u] /\ wrote'[u] = wrote[u] /\ answer'[u] = answer[u]
Keeps(t) ==
    /\ tx'[t].left = tx[t].left /\ tx'[t].exhausted = tx[t].exhausted
    /\ tx'[t].event = tx[t].event
Shaped == tx' \in [Tasks -> Transaction] /\ DOMAIN wrote' = Tasks

\* Begin, Claim and LookupArchive move on and change nothing else.
Advances(t) ==
    /\ Keeps(t) /\ UNCHANGED <<tables, wrote, answer, charged, clock, faults>>
    /\ \/ At(t, "idle") /\ tx'[t].pc = "claim" /\ tx'[t].claimed = tx[t].claimed
       \/ /\ At(t, "claim") /\ tx'[t].pc = "lookup" /\ tx'[t].claimed
          /\ dedup[KeyOf[t]] = NoPrint
          /\ \A u \in Tasks \ {t} : KeyOf[u] = KeyOf[t] => ~tx[u].claimed
       \/ At(t, "claim") /\ tx'[t].pc = "compare" /\ tx'[t].claimed = tx[t].claimed
       \/ /\ At(t, "lookup") /\ tx'[t].pc = "effects" /\ tx'[t].claimed = tx[t].claimed
          /\ archive[KeyOf[t]] = NoPrint

\* A transaction that is rolled back, with the answer it gives.
Drops(t, a) ==
    /\ Keeps(t) /\ tx'[t].pc = "ended" /\ ~tx'[t].claimed
    /\ wrote'[t] = <<>> /\ answer'[t] = a
    /\ UNCHANGED <<tables, charged, clock>>

\* Effect k is done on the row as t sees it.
Performs(t, k) ==
    LET r == Target[t][k]
        row == Seen(t, r)
        copy == Charged(r, row, k, Cost[t][k], tx[t].now)
    IN  /\ At(t, "effects") /\ tx'[t].pc = "effects" /\ tx'[t].claimed = tx[t].claimed
        /\ NextEffect(t, k) /\ ~LockedFor(t, r)
        /\ tx'[t].left = tx[t].left \ {k} /\ tx'[t].now = tx[t].now
        /\ tx'[t].exhausted = (tx[t].exhausted \/ (k = "quota" /\ Crosses(r, row, Cost[t][k])))
        /\ tx'[t].event = (tx[t].event \/ (k = "account" /\ Crosses(r, row, Cost[t][k])))
        /\ DOMAIN wrote'[t] = DOMAIN wrote[t] \cup {r}
        /\ wrote'[t][r] = copy
        /\ \A s \in DOMAIN wrote[t] \ {r} : wrote'[t][s] = wrote[t][s]
        /\ UNCHANGED <<tables, answer, charged, clock, faults>>

Commits(t) ==
    /\ At(t, "effects") /\ tx[t].left = {}
    /\ Keeps(t) /\ tx'[t].pc = "ended" /\ ~tx'[t].claimed /\ wrote'[t] = <<>>
    /\ tx'[t].now = tx[t].now
    /\ dedup' = [dedup EXCEPT ![KeyOf[t]] = PrintOf[t]] /\ archive' = archive
    /\ rows' = [r \in Rows |-> Seen(t, r)]
    /\ outbox' = (IF tx[t].event THEN outbox \cup {t} ELSE outbox)
    /\ charged' = charged \cup {t}
    /\ answer'[t] \in {"applied", "error"}
    /\ clock' = clock

\* What an answer that is no error says about the table or its archive.
Told(t, a) ==
    \/ a = "error"
    \/ \E p \in {dedup[KeyOf[t]], archive[KeyOf[t]]} : p # NoPrint /\ a = Verdict(t, p)

\* A rollback gives up the claim and the rows written.
LEMMA RollbackDrops ==
  ASSUME TypeOK, NEW t \in Tasks, NEW a \in Answers, Rollback(t, a), clock' = clock
  PROVE  Others(t) /\ Shaped /\ Drops(t, a)
<1>1. tx \in [Tasks -> Transaction] /\ DOMAIN wrote = Tasks /\ tx[t] \in Transaction
      /\ answer \in [Tasks -> Answers]
  BY DEF TypeOK, Answers
<1> DEFINE q == [tx[t] EXCEPT !.pc = "ended", !.claimed = FALSE]
<1>2. /\ q \in Transaction /\ q.pc = "ended" /\ ~q.claimed
      /\ q.left = tx[t].left /\ q.exhausted = tx[t].exhausted /\ q.event = tx[t].event
  BY <1>1 DEF Transaction
<1>3. tx' = [tx EXCEPT ![t] = q]
  BY DEF Rollback
<1> HIDE DEF q
<1>4. tx' \in [Tasks -> Transaction] /\ tx'[t] = q /\ \A u \in Tasks \ {t} : tx'[u] = tx[u]
  BY <1>1, <1>2, <1>3
<1>5. /\ DOMAIN wrote' = Tasks /\ wrote'[t] = <<>> /\ \A u \in Tasks \ {t} : wrote'[u] = wrote[u]
  BY <1>1 DEF Rollback
<1>6. answer'[t] = a /\ \A u \in Tasks \ {t} : answer'[u] = answer[u]
  BY <1>1 DEF Rollback
<1> QED
  BY <1>2, <1>4, <1>5, <1>6 DEF Rollback, Others, Shaped, Drops, Keeps

\* Whether a charge crosses a limit is a question with an answer.
LEMMA CrossesType == \A r, row, n : Crosses(r, row, n) \in BOOLEAN
BY DEF Crosses

\* The statement of an effect adds its amount, and marks a key at its limit.
LEMMA ChargedRow ==
  ASSUME NEW r \in Rows, NEW row \in Row, NEW k \in Kinds, NEW n \in Nat, NEW now \in Nat
  PROVE  LET copy == Charged(r, row, k, n, now)
         IN  /\ copy \in Row /\ copy.live = row.live
             /\ copy.spent = row.spent + (IF k = "rate" THEN 0 ELSE n)
             /\ copy.status = (IF k = "quota" /\ Crosses(r, row, n) /\ row.status = "active"
                               THEN "quota_exhausted" ELSE row.status)
<1>1. row.spent \in Nat /\ row.usage \in Nat /\ row.window \in Nat \cup {NoWindow}
      /\ row.status \in {"active", "quota_exhausted"} /\ row.live \in BOOLEAN
      /\ row.spent + n \in Nat /\ row.usage + n \in Nat
  BY DEF Row
<1>2. CASE k = "rate"
  <2> DEFINE use == IF Expired(row, now) THEN n ELSE row.usage + n
             start == IF row.window = NoWindow \/ Expired(row, now) THEN now ELSE row.window
  <2>1. use \in Nat /\ start \in Nat \cup {NoWindow}
    BY <1>1
  <2>2. Charged(r, row, k, n, now) = [row EXCEPT !.usage = use, !.window = start]
    BY <1>2 DEF Charged
  <2> HIDE DEF use, start
  <2> DEFINE c == [row EXCEPT !.usage = use, !.window = start]
  <2>3. c \in Row /\ c.live = row.live /\ c.spent = row.spent /\ c.status = row.status
    BY <1>1, <2>1 DEF Row
  <2>4. Charged(r, row, k, n, now) = c
    BY <2>2
  <2> HIDE DEF c
  <2>5. row.spent = row.spent + 0 /\ k # "quota"
    BY <1>1, <1>2
  <2> QED
    BY <1>2, <2>3, <2>4, <2>5
<1>3. CASE k = "quota"
  <2> DEFINE mark == IF Crosses(r, row, n) /\ row.status = "active" THEN "quota_exhausted" ELSE row.status
  <2>1. mark \in {"active", "quota_exhausted"}
    BY <1>1
  <2>2. Charged(r, row, k, n, now) = [row EXCEPT !.spent = row.spent + n, !.status = mark]
    BY <1>3 DEF Charged
  <2> HIDE DEF mark
  <2>3. /\ Charged(r, row, k, n, now) \in Row /\ Charged(r, row, k, n, now).live = row.live
        /\ Charged(r, row, k, n, now).spent = row.spent + n
        /\ Charged(r, row, k, n, now).status = mark
    BY <1>1, <2>1, <2>2 DEF Row
  <2> QED
    BY <1>3, <2>3 DEF mark
<1>4. CASE k \notin {"rate", "quota"}
  <2>1. Charged(r, row, k, n, now) = [row EXCEPT !.spent = row.spent + n]
    BY <1>4 DEF Charged
  <2> QED
    BY <1>1, <1>4, <2>1 DEF Row
<1> QED
  BY <1>2, <1>3, <1>4

\* Each transaction works on rows, whether it has written them or not.
LEMMA SeenRow ==
  ASSUME TypeOK, NEW t \in Tasks, NEW r \in Rows
  PROVE  Seen(t, r) \in Row
BY DEF TypeOK, Seen

\* A statement on a row performs one effect, or fails and drops the transaction.
LEMMA EffectSteps ==
  ASSUME TypeOK, NEW t \in Tasks, Effect(t)
  PROVE  /\ Others(t) /\ Shaped
         /\ \/ \E k \in Kinds : Performs(t, k)
            \/ At(t, "effects") /\ Drops(t, "error") /\ faults' = faults
<1>1. PICK k \in Kinds :
        LET r == Target[t][k]
            row == Seen(t, r)
            crosses == Crosses(r, row, Cost[t][k])
         IN  /\ NextEffect(t, k) /\ ~LockedFor(t, r)
             /\ \/ /\ row.live
                   /\ wrote' = [wrote EXCEPT ![t] = With(@, r, Charged(r, row, k, Cost[t][k], tx[t].now))]
                   /\ tx' = [tx EXCEPT ![t].left = @ \ {k},
                                       ![t].exhausted = @ \/ (k = "quota" /\ crosses),
                                       ![t].event = @ \/ (k = "account" /\ crosses)]
                   /\ UNCHANGED <<tables, answer, charged>>
                \/ ~row.live /\ Rollback(t, "error")
  BY DEF Effect
<1>2. At(t, "effects") /\ clock' = clock /\ faults' = faults
  BY DEF Effect
<1>3. CASE Rollback(t, "error")
  BY <1>2, <1>3, RollbackDrops DEF Answers
<1>4. CASE /\ wrote' = [wrote EXCEPT ![t] =
                With(@, Target[t][k], Charged(Target[t][k], Seen(t, Target[t][k]), k, Cost[t][k], tx[t].now))]
           /\ tx' = [tx EXCEPT ![t].left = @ \ {k},
                       ![t].exhausted = @ \/ (k = "quota" /\ Crosses(Target[t][k], Seen(t, Target[t][k]), Cost[t][k])),
                       ![t].event = @ \/ (k = "account" /\ Crosses(Target[t][k], Seen(t, Target[t][k]), Cost[t][k]))]
           /\ UNCHANGED <<tables, answer, charged>>
  <2> DEFINE r == Target[t][k]
             c == Crosses(r, Seen(t, r), Cost[t][k])
             copy == Charged(r, Seen(t, r), k, Cost[t][k], tx[t].now)
             e == tx[t].exhausted \/ (k = "quota" /\ c)
             v == tx[t].event \/ (k = "account" /\ c)
             q == [tx[t] EXCEPT !.left = tx[t].left \ {k}, !.exhausted = e, !.event = v]
  <2>1. tx \in [Tasks -> Transaction] /\ DOMAIN wrote = Tasks /\ tx[t] \in Transaction
    BY DEF TypeOK
  <2>2. e \in BOOLEAN /\ v \in BOOLEAN
    BY <2>1 DEF Transaction
  <2>3. tx' = [tx EXCEPT ![t] = q]
    BY <1>4
  <2>4. wrote' = [wrote EXCEPT ![t] = With(wrote[t], r, copy)]
    BY <1>4
  <2>5. UNCHANGED <<tables, answer, charged>> /\ NextEffect(t, k) /\ ~LockedFor(t, r)
    BY <1>1, <1>4
  <2>6. q \in Transaction /\ q.pc = tx[t].pc /\ q.claimed = tx[t].claimed
        /\ q.left = tx[t].left \ {k} /\ q.exhausted = e /\ q.event = v /\ q.now = tx[t].now
    <3> HIDE DEF e, v
    <3> QED
      BY <2>1, <2>2 DEF Transaction
  <2>7. tx' \in [Tasks -> Transaction] /\ tx'[t] = q /\ \A u \in Tasks \ {t} : tx'[u] = tx[u]
    <3> HIDE DEF q
    <3> QED
      BY <2>1, <2>3, <2>6
  <2>8. /\ DOMAIN wrote' = Tasks /\ wrote'[t] = With(wrote[t], r, copy)
        /\ \A u \in Tasks \ {t} : wrote'[u] = wrote[u]
    <3> HIDE DEF copy, r
    <3> QED
      BY <2>1, <2>4
  <2>9. /\ DOMAIN wrote'[t] = DOMAIN wrote[t] \cup {r} /\ wrote'[t][r] = copy
        /\ \A s \in DOMAIN wrote[t] \ {r} : wrote'[t][s] = wrote[t][s]
    <3> HIDE DEF copy, r
    <3> QED
      BY <2>8 DEF With
  <2> QED
    BY <1>2, <2>5, <2>6, <2>7, <2>8, <2>9 DEF Others, Shaped, Performs, At
<1> QED
  BY <1>1, <1>3, <1>4

\* What the first statements of a transaction have in common.
LEMMA Advancing ==
  ASSUME TypeOK, NEW t \in Tasks, \/ Begin(t) \/ Claim(t) \/ (LookupArchive(t) /\ tx'[t].pc = "effects")
  PROVE  Others(t) /\ Shaped /\ Advances(t)
<1>1. tx \in [Tasks -> Transaction] /\ DOMAIN wrote = Tasks /\ tx[t] \in Transaction /\ clock \in Nat
  BY Bounds DEF TypeOK
<1>2. ASSUME NEW q \in Transaction, tx' = [tx EXCEPT ![t] = q], UNCHANGED <<wrote, answer>>
      PROVE  Others(t) /\ Shaped /\ tx'[t] = q
  BY <1>1, <1>2 DEF Others, Shaped
<1>3. CASE Begin(t)
  <2> DEFINE q == [tx[t] EXCEPT !.pc = "claim", !.now = clock]
  <2>1. /\ q \in Transaction /\ q.pc = "claim" /\ q.claimed = tx[t].claimed
        /\ q.left = tx[t].left /\ q.exhausted = tx[t].exhausted /\ q.event = tx[t].event
    BY <1>1 DEF Transaction
  <2>2. tx' = [tx EXCEPT ![t] = q]
    BY <1>3 DEF Begin
  <2> HIDE DEF q
  <2>3. Others(t) /\ Shaped /\ tx'[t] = q
    BY <1>2, <1>3, <2>1, <2>2 DEF Begin
  <2> QED
    BY <1>3, <2>1, <2>3 DEF Begin, Advances, Keeps
<1>4. CASE Claim(t) /\ dedup[KeyOf[t]] = NoPrint
  <2> DEFINE q == [tx[t] EXCEPT !.pc = "lookup", !.claimed = TRUE]
  <2>1. /\ q \in Transaction /\ q.pc = "lookup" /\ q.claimed = TRUE
        /\ q.left = tx[t].left /\ q.exhausted = tx[t].exhausted /\ q.event = tx[t].event
    BY <1>1 DEF Transaction
  <2>2. tx' = [tx EXCEPT ![t] = q]
    BY <1>4 DEF Claim
  <2> HIDE DEF q
  <2>3. Others(t) /\ Shaped /\ tx'[t] = q
    BY <1>2, <1>4, <2>1, <2>2 DEF Claim
  <2> QED
    BY <1>4, <2>1, <2>3 DEF Claim, Advances, Keeps
<1>5. CASE Claim(t) /\ dedup[KeyOf[t]] # NoPrint
  <2> DEFINE q == [tx[t] EXCEPT !.pc = "compare"]
  <2>1. /\ q \in Transaction /\ q.pc = "compare" /\ q.claimed = tx[t].claimed
        /\ q.left = tx[t].left /\ q.exhausted = tx[t].exhausted /\ q.event = tx[t].event
    BY <1>1 DEF Transaction
  <2>2. tx' = [tx EXCEPT ![t] = q]
    BY <1>5 DEF Claim, Goto
  <2> HIDE DEF q
  <2>3. Others(t) /\ Shaped /\ tx'[t] = q
    BY <1>2, <1>5, <2>1, <2>2 DEF Claim
  <2> QED
    BY <1>5, <2>1, <2>3 DEF Claim, Advances, Keeps
<1>6. CASE LookupArchive(t) /\ tx'[t].pc = "effects"
  <2> DEFINE q == [tx[t] EXCEPT !.pc = "effects"]
  <2>1. /\ q \in Transaction /\ q.pc = "effects" /\ q.claimed = tx[t].claimed
        /\ q.left = tx[t].left /\ q.exhausted = tx[t].exhausted /\ q.event = tx[t].event
    BY <1>1 DEF Transaction
  <2>2. ASSUME NEW a \in Answers, Rollback(t, a) PROVE FALSE
    BY <1>6, <2>2, RollbackDrops DEF Drops, LookupArchive
  <2>3. Archived(t) = NoPrint /\ Goto(t, "effects") /\ UNCHANGED <<tables, wrote, answer, charged>>
    BY <1>6, <2>2 DEF LookupArchive, Verdict, Answers
  <2>4. tx' = [tx EXCEPT ![t] = q]
    BY <2>3 DEF Goto
  <2> HIDE DEF q
  <2>5. Others(t) /\ Shaped /\ tx'[t] = q
    BY <1>2, <2>1, <2>3, <2>4
  <2> QED
    BY <1>6, <2>1, <2>3, <2>5 DEF LookupArchive, Archived, Advances, Keeps
<1> QED
  BY <1>3, <1>4, <1>5, <1>6

\* What the ways to give up a transaction have in common.
LEMMA Dropping ==
  ASSUME TypeOK, NEW t \in Tasks,
         \/ Compare(t) \/ Abort(t) \/ (LookupArchive(t) /\ tx'[t].pc # "effects")
  PROVE  /\ Others(t) /\ Shaped
         /\ \E a \in Answers : /\ Drops(t, a) /\ Told(t, a)
                               /\ tx[t].pc \in {"claim", "compare", "lookup", "effects"}
         /\ faults' = faults \/ Fails
<1>1. \A p : Verdict(t, p) \in Answers /\ "error" \in Answers
  BY DEF Verdict, Answers
<1>2. CASE Compare(t)
  <2> DEFINE p == dedup[KeyOf[t]]
             a == IF p = NoPrint THEN "error" ELSE Verdict(t, p)
  <2>1. Rollback(t, a) /\ clock' = clock /\ faults' = faults /\ a \in Answers /\ Told(t, a)
        /\ At(t, "compare")
    BY <1>1, <1>2 DEF Compare, Told
  <2> HIDE DEF a
  <2> QED
    BY <2>1, RollbackDrops DEF At
<1>3. CASE Abort(t)
  <2>1. /\ Rollback(t, "error") /\ clock' = clock /\ Told(t, "error") /\ Fails
        /\ tx[t].pc \notin {"idle", "ended"} /\ tx[t] \in Transaction
    BY <1>3 DEF Abort, Told, TypeOK
  <2>2. tx[t].pc \in {"claim", "compare", "lookup", "effects"}
    BY <2>1 DEF Transaction
  <2> QED
    BY <1>1, <2>1, <2>2, RollbackDrops
<1>4. CASE LookupArchive(t) /\ tx'[t].pc # "effects"
  <2> DEFINE a == Verdict(t, archive[KeyOf[t]])
  <2>1. ~(Goto(t, "effects"))
    <3> SUFFICES ASSUME Goto(t, "effects") PROVE FALSE
      OBVIOUS
    <3>1. tx \in [Tasks -> Transaction] /\ tx[t] \in Transaction
      BY DEF TypeOK
    <3>2. [tx[t] EXCEPT !.pc = "effects"].pc = "effects"
      BY <3>1 DEF Transaction
    <3>3. tx'[t] = [tx[t] EXCEPT !.pc = "effects"]
      BY <3>1 DEF Goto
    <3> QED
      BY <1>4, <3>2, <3>3
  <2>2. /\ Rollback(t, a) /\ clock' = clock /\ faults' = faults /\ a \in Answers /\ Told(t, a)
        /\ At(t, "lookup")
    BY <1>1, <1>4, <2>1 DEF LookupArchive, Archived, Told
  <2> HIDE DEF a
  <2> QED
    BY <2>2, RollbackDrops DEF At
<1> QED
  BY <1>2, <1>3, <1>4

\* What a commit does, whether or not its answer comes back.
LEMMA Committing ==
  ASSUME TypeOK, NEW t \in Tasks, Commit(t)
  PROVE  Others(t) /\ Shaped /\ Commits(t) /\ (faults' = faults \/ Fails)
<1>1. tx \in [Tasks -> Transaction] /\ DOMAIN wrote = Tasks /\ tx[t] \in Transaction
      /\ answer \in [Tasks -> Answers]
  BY DEF TypeOK, Answers
<1> DEFINE q == [tx[t] EXCEPT !.pc = "ended", !.claimed = FALSE]
<1>2. /\ q \in Transaction /\ q.pc = "ended" /\ ~q.claimed
      /\ q.left = tx[t].left /\ q.exhausted = tx[t].exhausted /\ q.event = tx[t].event
      /\ q.now = tx[t].now
  BY <1>1 DEF Transaction
<1>3. tx' = [tx EXCEPT ![t] = q]
  BY DEF Commit
<1> HIDE DEF q
<1>4. tx' \in [Tasks -> Transaction] /\ tx'[t] = q /\ \A u \in Tasks \ {t} : tx'[u] = tx[u]
  BY <1>1, <1>2, <1>3
<1>5. /\ DOMAIN wrote' = Tasks /\ wrote'[t] = <<>> /\ \A u \in Tasks \ {t} : wrote'[u] = wrote[u]
  BY <1>1 DEF Commit
<1>6. answer'[t] \in {"applied", "error"} /\ \A u \in Tasks \ {t} : answer'[u] = answer[u]
  BY <1>1 DEF Commit
<1> QED
  BY <1>2, <1>4, <1>5, <1>6 DEF Commit, Others, Shaped, Commits, Keeps

Moves(t) ==
    \/ Begin(t) \/ Claim(t) \/ Compare(t) \/ LookupArchive(t)
    \/ Effect(t) \/ Commit(t) \/ Abort(t)

\* A transaction that ends without a commit, with an answer that is true.
Ends(t) ==
    /\ tx[t].pc \in {"claim", "compare", "lookup", "effects"}
    /\ \E a \in Answers \ {"none", "applied"} : Drops(t, a) /\ Told(t, a)

\* Every step of a transaction goes on, does an effect, ends or commits.
LEMMA TxSteps ==
  ASSUME TypeOK, NEW t \in Tasks, Moves(t)
  PROVE  /\ Others(t) /\ Shaped /\ clock' = clock /\ (faults' = faults \/ Fails)
         /\ Advances(t) \/ (\E k \in Kinds : Performs(t, k)) \/ Ends(t) \/ Commits(t)
<1>1. \A a \in Answers : Told(t, a) => a \in Answers \ {"none", "applied"}
  BY DEF Told, Verdict, Answers
<1>2. CASE \/ Begin(t) \/ Claim(t) \/ (LookupArchive(t) /\ tx'[t].pc = "effects")
  BY <1>2, Advancing DEF Advances
<1>3. CASE \/ Compare(t) \/ Abort(t) \/ (LookupArchive(t) /\ tx'[t].pc # "effects")
  BY <1>1, <1>3, Dropping DEF Ends, Drops
<1>4. CASE Effect(t)
  BY <1>1, <1>4, EffectSteps DEF Ends, Drops, Performs, At, Told, Answers
<1>5. CASE Commit(t)
  BY <1>5, Committing DEF Commits
<1>6. CASE LookupArchive(t)
  BY <1>2, <1>3, <1>6
<1> QED
  BY <1>2, <1>3, <1>4, <1>5, <1>6 DEF Moves

\* Resets and deletions touch neither what was spent nor the status of a key.
LEMMA RowSteps ==
  ASSUME TypeOK, NEW r \in Rows, ResetRateLimitWindows(r) \/ Delete(r)
  PROVE  /\ rows' \in [Rows -> Row]
         /\ \A s \in Rows : rows'[s].spent = rows[s].spent /\ rows'[s].status = rows[s].status
         /\ UNCHANGED <<dedup, archive, outbox, tx, wrote, answer, charged, clock>>
         /\ faults' = faults \/ Fails
<1>1. rows \in [Rows -> Row] /\ rows[r] \in Row /\ clock \in Nat
  BY Bounds DEF TypeOK
<1>2. ASSUME NEW row \in Row, row.spent = rows[r].spent, row.status = rows[r].status,
             rows' = [rows EXCEPT ![r] = row]
      PROVE  /\ rows' \in [Rows -> Row]
             /\ \A s \in Rows : rows'[s].spent = rows[s].spent /\ rows'[s].status = rows[s].status
  BY <1>1, <1>2
<1>3. CASE Delete(r)
  <2> DEFINE row == [rows[r] EXCEPT !.live = FALSE]
  <2>1. row \in Row /\ row.spent = rows[r].spent /\ row.status = rows[r].status
    BY <1>1 DEF Row
  <2>2. rows' = [rows EXCEPT ![r] = row]
    BY <1>3 DEF Delete
  <2> HIDE DEF row
  <2> QED
    BY <1>2, <1>3, <2>1, <2>2 DEF Delete
<1>4. CASE ResetRateLimitWindows(r)
  <2>1. PICK now \in 0 .. clock : rows' = [rows EXCEPT ![r] = Reset(@, now)]
    BY <1>4 DEF ResetRateLimitWindows
  <2> DEFINE row == Reset(rows[r], now)
  <2>2. now \in Nat
    BY <1>1
  <2>3. row \in Row /\ row.spent = rows[r].spent /\ row.status = rows[r].status
    BY <1>1, <2>2 DEF Row, Reset
  <2>4. rows' = [rows EXCEPT ![r] = row]
    BY <2>1
  <2> HIDE DEF row
  <2> QED
    BY <1>2, <1>4, <2>3, <2>4 DEF ResetRateLimitWindows
<1> QED
  BY <1>3, <1>4

\* The archive job moves keys, and every fingerprint stays in one of the tables.
LEMMA CleanupSteps ==
  ASSUME TypeOK, CleanupUsageBillingDedup
  PROVE  /\ dedup' \in [Keys -> Prints] /\ archive' \in [Keys -> Prints]
         /\ UNCHANGED <<rows, outbox, tx, wrote, answer, charged, clock, faults>>
         /\ \A k \in Keys : /\ dedup'[k] \in {dedup[k], NoPrint}
                            /\ archive'[k] \in {dedup[k], archive[k]}
                            /\ dedup[k] = NoPrint => archive'[k] = archive[k]
                            /\ archive[k] # NoPrint => archive'[k] = archive[k]
                            /\ dedup[k] # NoPrint => dedup'[k] # NoPrint \/ archive'[k] # NoPrint
<1>1. dedup \in [Keys -> Prints] /\ archive \in [Keys -> Prints] /\ NoPrint \in Prints
  BY DEF TypeOK, Prints
<1>2. PICK ks \in SUBSET {k \in Keys : dedup[k] # NoPrint} :
        /\ archive' = ArchivedKeys(ks)
        /\ dedup' = [k \in Keys |-> IF k \in ks THEN NoPrint ELSE dedup[k]]
        /\ UNCHANGED <<rows, outbox, tx, wrote, answer, charged, clock, faults>>
  BY DEF CleanupUsageBillingDedup
<1> QED
  BY <1>1, <1>2 DEF ArchivedKeys

----------------------------------------------------------------------------
(* Types *)

\* Every step keeps the types.
LEMMA TypeSteps == ASSUME TypeOK, [Next]_vars PROVE TypeOK'
<1>1. /\ dedup \in [Keys -> Prints] /\ archive \in [Keys -> Prints]
      /\ rows \in [Rows -> Row] /\ answer \in [Tasks -> Answers]
      /\ outbox \subseteq charged /\ charged \subseteq Tasks
      /\ clock \in 0 .. MaxClock /\ faults \in 0 .. MaxFaults
      /\ \A u \in Tasks : /\ DOMAIN wrote[u] \subseteq Rows
                          /\ \A r \in DOMAIN wrote[u] : wrote[u][r] \in Row
                          /\ At(u, "ended") => wrote[u] = <<>>
  BY DEF TypeOK, Answers
<1>2. faults' = faults \/ Fails => faults' \in 0 .. MaxFaults
  BY <1>1, Bounds DEF Fails
<1>3. ASSUME NEW t \in Tasks, Moves(t) PROVE TypeOK'
  <2>1. /\ Others(t) /\ Shaped /\ clock' = clock /\ faults' \in 0 .. MaxFaults
        /\ Advances(t) \/ (\E k \in Kinds : Performs(t, k)) \/ Ends(t) \/ Commits(t)
    BY <1>2, <1>3, TxSteps
  <2>2. answer' \in [Tasks -> Answers]
    BY <1>1, <1>3 DEF Moves, Begin, Claim, Compare, LookupArchive, Effect, Commit, Abort, Rollback,
       tables, Verdict, Answers
  <2>3. /\ dedup' \in [Keys -> Prints] /\ archive' \in [Keys -> Prints]
        /\ outbox' \subseteq charged' /\ charged' \subseteq Tasks
    BY <1>1, <2>1, Bounds DEF Advances, Performs, Ends, Drops, Commits, tables
  <2>4. rows' \in [Rows -> Row]
    BY <1>1, <2>1, SeenRow DEF Advances, Performs, Ends, Drops, Commits, tables
  <2>5. /\ DOMAIN wrote'[t] \subseteq Rows /\ \A r \in DOMAIN wrote'[t] : wrote'[t][r] \in Row
        /\ tx'[t].pc = "ended" => wrote'[t] = <<>>
    <3>1. CASE Advances(t)
      BY <1>1, <3>1 DEF Advances
    <3>2. CASE wrote'[t] = <<>>
      BY <3>2, NothingWritten
    <3>3. ASSUME NEW k \in Kinds, Performs(t, k)
          PROVE  /\ DOMAIN wrote'[t] \subseteq Rows /\ tx'[t].pc # "ended"
                 /\ \A r \in DOMAIN wrote'[t] : wrote'[t][r] \in Row
      <4>1. /\ Target[t][k] \in Rows /\ Cost[t][k] \in Nat /\ tx[t].now \in Nat
            /\ Seen(t, Target[t][k]) \in Row
        BY Bounds, SeenRow DEF TypeOK, Transaction
      <4>2. wrote'[t][Target[t][k]] \in Row
        BY <3>3, <4>1, ChargedRow DEF Performs
      <4> QED
        BY <1>1, <3>3, <4>1, <4>2 DEF Performs
    <3> QED
      BY <2>1, <3>1, <3>2, <3>3 DEF Ends, Drops, Commits
  <2>6. ASSUME NEW u \in Tasks
        PROVE  /\ DOMAIN wrote'[u] \subseteq Rows /\ \A r \in DOMAIN wrote'[u] : wrote'[u][r] \in Row
               /\ tx'[u].pc = "ended" => wrote'[u] = <<>>
    BY <1>1, <2>1, <2>5 DEF Others, At
  <2> QED
    BY <1>1, <2>1, <2>2, <2>3, <2>4, <2>6 DEF TypeOK, Shaped, At, Answers
<1>4. CASE CleanupUsageBillingDedup
  BY <1>1, <1>4, CleanupSteps DEF TypeOK, At
<1>5. ASSUME NEW r \in Rows, ResetRateLimitWindows(r) \/ Delete(r) PROVE TypeOK'
  BY <1>1, <1>2, <1>5, RowSteps DEF TypeOK, At
<1>6. CASE Tick
  BY <1>1, <1>6, Bounds DEF Tick, TypeOK, At, tables
<1>7. CASE Finished \/ UNCHANGED vars
  BY <1>7 DEF Finished, vars, TypeOK, At
<1> QED
  BY <1>3, <1>4, <1>5, <1>6, <1>7 DEF Next, Moves

\* Every reachable state is well typed: rows, records of transactions, the copies
\* they hold locked, and answers; an ended transaction holds no lock.
THEOREM TypeCorrect == Spec => []TypeOK
<1>1. Init => TypeOK
  <2> SUFFICES ASSUME Init PROVE TypeOK
    OBVIOUS
  <2>1. \A t \in Tasks : NoTransaction(t) \in Transaction /\ NoTransaction(t).pc = "idle"
    BY Bounds DEF NoTransaction, Transaction, Effects
  <2>2. [spent |-> 0, usage |-> 0, window |-> NoWindow, status |-> "active", live |-> TRUE] \in Row
    BY DEF Row
  <2> QED
    BY <2>1, <2>2, Bounds, NothingWritten DEF Init, TypeOK, Prints, At
<1> QED
  BY <1>1, TypeSteps, PTL DEF Spec

\* What happens to the use and the window of a row that nobody charges: only an
\* expired window of a row that nobody holds is opened anew.
RateKept(r) == rows'[r].usage = rows[r].usage /\ rows'[r].window = rows[r].window
RateReset(r) ==
    /\ Unlocked(r)
    /\ \E now \in Nat : Expired(rows[r], now) /\ rows'[r].usage = 0 /\ rows'[r].window = now

\* The update of the windows and the deletion of a key, row by row.
LEMMA RateSteps ==
  ASSUME TypeOK, NEW r \in Rows, ResetRateLimitWindows(r) \/ Delete(r), NEW s \in Rows
  PROVE  RateKept(s) \/ RateReset(s)
<1>1. rows \in [Rows -> Row] /\ rows[r] \in Row /\ clock \in Nat
  BY Bounds DEF TypeOK
<1>2. CASE Delete(r)
  <2>1. rows' = [rows EXCEPT ![r] = [rows[r] EXCEPT !.live = FALSE]]
    BY <1>2 DEF Delete
  <2>2. [rows[r] EXCEPT !.live = FALSE].usage = rows[r].usage
        /\ [rows[r] EXCEPT !.live = FALSE].window = rows[r].window
    BY <1>1 DEF Row
  <2> QED
    BY <1>1, <2>1, <2>2 DEF RateKept
<1>3. CASE ResetRateLimitWindows(r)
  <2>1. Unlocked(r)
    BY <1>3 DEF ResetRateLimitWindows
  <2>2. PICK now \in 0 .. clock : rows' = [rows EXCEPT ![r] = Reset(rows[r], now)]
    BY <1>3 DEF ResetRateLimitWindows
  <2>3. now \in Nat
    BY <1>1
  <2>4. CASE Expired(rows[r], now)
    <3>1. /\ Reset(rows[r], now).usage = 0 /\ Reset(rows[r], now).window = now
      BY <1>1, <2>4 DEF Reset, Row
    <3> QED
      BY <1>1, <2>1, <2>2, <2>4, <2>3, <3>1 DEF RateKept, RateReset
  <2>5. CASE ~Expired(rows[r], now)
    <3>1. Reset(rows[r], now) = rows[r]
      BY <2>5 DEF Reset
    <3> QED
      BY <1>1, <2>2, <3>1 DEF RateKept
  <2> QED
    BY <2>4, <2>5
<1> QED
  BY <1>2, <1>3

\* Every other step leaves the transactions and the totals as they are.
Rests ==
    /\ UNCHANGED <<tx, wrote, answer, charged, outbox>>
    /\ \A r \in Rows : rows'[r].spent = rows[r].spent /\ rows'[r].status = rows[r].status
    /\ \A r \in Rows : RateKept(r) \/ RateReset(r)
    /\ UNCHANGED <<dedup, archive>> \/ CleanupUsageBillingDedup

\* A step is that of one transaction, or a job or a clock beside all of them.
LEMMA AllSteps ==
  ASSUME TypeOK, [Next]_vars
  PROVE  Rests \/ \E t \in Tasks : Moves(t)
<1>1. CASE CleanupUsageBillingDedup
  BY <1>1 DEF CleanupUsageBillingDedup, Rests, RateKept
<1>2. ASSUME NEW r \in Rows, ResetRateLimitWindows(r) \/ Delete(r) PROVE Rests
  BY <1>2, RowSteps, RateSteps DEF Rests
<1>3. CASE Tick \/ Finished \/ UNCHANGED vars
  BY <1>3 DEF Tick, Finished, vars, tables, Rests, RateKept
<1> QED
  BY <1>1, <1>2, <1>3 DEF Next, Moves

----------------------------------------------------------------------------
(* A request id is charged once *)

Open(t) == tx[t].pc \in {"lookup", "effects"}

\* The unique index: an uncommitted claim keeps every other of its key away, and
\* neither its key nor an older one of the archive comes to light meanwhile.
KeysHeld ==
    \A t \in Tasks :
      /\ tx[t].claimed <=> Open(t)
      /\ tx[t].claimed => dedup[KeyOf[t]] = NoPrint
      /\ At(t, "effects") => archive[KeyOf[t]] = NoPrint
      /\ \A u \in Tasks : tx[t].claimed /\ tx[u].claimed /\ KeyOf[u] = KeyOf[t] => u = t

\* The table and its archive hold the keys that were charged, and no others.
Recorded(p, k) == p # NoPrint => \E u \in charged : KeyOf[u] = k /\ PrintOf[u] = p
ChargesKnown ==
    /\ \A t \in charged : /\ At(t, "ended")
                          /\ dedup[KeyOf[t]] # NoPrint \/ archive[KeyOf[t]] # NoPrint
    /\ \A k \in Keys : Recorded(dedup[k], k) /\ Recorded(archive[k], k)
    /\ \A t \in Tasks : answer[t] = "none" <=> ~At(t, "ended")

\* One transaction at a time holds a claim that is not committed.
LEMMA KeySteps == ASSUME TypeOK, KeysHeld, [Next]_vars PROVE KeysHeld'
<1>1. \A t \in Tasks : KeyOf[t] \in Keys /\ tx[t].claimed \in BOOLEAN /\ tx'[t].claimed \in BOOLEAN
  BY Bounds, TypeSteps DEF TypeOK, Transaction
<1>2. CASE Rests
  <2>1. CASE UNCHANGED <<dedup, archive>>
    BY <1>2, <2>1 DEF Rests, KeysHeld, Open, At
  <2>2. CASE CleanupUsageBillingDedup
    <3>1. \A k \in Keys : /\ dedup[k] = NoPrint => dedup'[k] = NoPrint /\ archive'[k] = archive[k]
      BY <2>2, CleanupSteps
    <3> QED
      BY <1>1, <1>2, <3>1 DEF Rests, KeysHeld, Open, At
  <2> QED
    BY <1>2, <2>1, <2>2 DEF Rests
<1>3. ASSUME NEW t \in Tasks, Moves(t) PROVE KeysHeld'
  <2>1. /\ Others(t)
        /\ Advances(t) \/ (\E k \in Kinds : Performs(t, k)) \/ Ends(t) \/ Commits(t)
    BY <1>3, TxSteps
  <2>2. CASE Advances(t)
    <3>1. UNCHANGED <<dedup, archive>>
      BY <2>2 DEF Advances, tables
    <3>2. /\ tx'[t].claimed <=> tx'[t].pc \in {"lookup", "effects"}
          /\ tx'[t].claimed => dedup[KeyOf[t]] = NoPrint
          /\ tx'[t].pc = "effects" => archive[KeyOf[t]] = NoPrint
          /\ tx'[t].claimed => \A u \in Tasks \ {t} : KeyOf[u] = KeyOf[t] => ~tx[u].claimed
      BY <1>1, <2>2 DEF Advances, KeysHeld, Open, At
    <3> QED
      BY <1>1, <2>1, <3>1, <3>2 DEF KeysHeld, Others, Open, At
  <2>3. ASSUME NEW k \in Kinds, Performs(t, k) PROVE KeysHeld'
    <3>1. UNCHANGED <<dedup, archive>> /\ tx'[t].pc = tx[t].pc /\ tx'[t].claimed = tx[t].claimed
      BY <2>3 DEF Performs, tables, At
    <3> QED
      BY <1>1, <2>1, <3>1 DEF KeysHeld, Others, Open, At
  <2>4. CASE Ends(t)
    <3>1. UNCHANGED <<dedup, archive>> /\ tx'[t].pc = "ended" /\ ~tx'[t].claimed
      BY <2>4 DEF Ends, Drops, tables
    <3> QED
      BY <1>1, <2>1, <3>1 DEF KeysHeld, Others, Open, At
  <2>5. CASE Commits(t)
    <3>1. /\ tx'[t].pc = "ended" /\ ~tx'[t].claimed /\ archive' = archive /\ tx[t].claimed
          /\ \A k \in Keys \ {KeyOf[t]} : dedup'[k] = dedup[k]
      BY <1>1, <2>5 DEF Commits, TypeOK, KeysHeld, Open, At
    <3>2. \A u \in Tasks \ {t} : tx[u].claimed => KeyOf[u] # KeyOf[t]
      BY <3>1 DEF KeysHeld
    <3> QED
      BY <1>1, <2>1, <3>1, <3>2 DEF KeysHeld, Others, Open, At
  <2> QED
    BY <2>1, <2>2, <2>3, <2>4, <2>5
<1> QED
  BY <1>2, <1>3, AllSteps

\* The table and its archive hold the charged commands and no others.
LEMMA ChargeSteps == ASSUME TypeOK, KeysHeld, ChargesKnown, [Next]_vars PROVE ChargesKnown'
<1>1. \A t \in Tasks : KeyOf[t] \in Keys /\ PrintOf[t] # NoPrint
  BY Bounds
<1>2. charged \subseteq Tasks
  BY DEF TypeOK
<1>3. CASE Rests
  <2>1. CASE UNCHANGED <<dedup, archive>>
    BY <1>3, <2>1 DEF Rests, ChargesKnown, Recorded, At
  <2>2. CASE CleanupUsageBillingDedup
    <3>1. \A k \in Keys : /\ dedup'[k] \in {dedup[k], NoPrint} /\ archive'[k] \in {dedup[k], archive[k]}
                          /\ dedup[k] # NoPrint => dedup'[k] # NoPrint \/ archive'[k] # NoPrint
                          /\ archive[k] # NoPrint => archive'[k] = archive[k]
      BY <2>2, CleanupSteps
    <3>2. \A k \in Keys : Recorded(dedup'[k], k) /\ Recorded(archive'[k], k)
      BY <3>1 DEF ChargesKnown, Recorded
    <3> QED
      BY <1>1, <1>2, <1>3, <3>1, <3>2 DEF Rests, ChargesKnown, Recorded, At
  <2> QED
    BY <1>3, <2>1, <2>2 DEF Rests
<1>4. ASSUME NEW t \in Tasks, Moves(t) PROVE ChargesKnown'
  <2>1. /\ Others(t)
        /\ Advances(t) \/ (\E k \in Kinds : Performs(t, k)) \/ Ends(t) \/ Commits(t)
    BY <1>4, TxSteps
  <2>2. ASSUME UNCHANGED <<dedup, archive, charged>>, ~At(t, "ended"),
               answer'[t] = "none" <=> tx'[t].pc # "ended"
        PROVE  ChargesKnown'
    <3>1. t \notin charged
      BY <2>2 DEF ChargesKnown
    <3> QED
      BY <1>2, <2>1, <2>2, <3>1 DEF ChargesKnown, Recorded, Others, At
  <2>3. answer[t] = "none" <=> ~At(t, "ended")
    BY DEF ChargesKnown
  <2>4. CASE Advances(t)
    BY <2>2, <2>3, <2>4 DEF Advances, tables, At
  <2>5. ASSUME NEW k \in Kinds, Performs(t, k) PROVE ChargesKnown'
    BY <2>2, <2>3, <2>5 DEF Performs, tables, At
  <2>6. CASE Ends(t)
    BY <2>2, <2>3, <2>6 DEF Ends, Drops, tables, At
  <2>7. CASE Commits(t)
    <3>1. /\ charged' = charged \cup {t} /\ archive' = archive /\ dedup \in [Keys -> Prints]
          /\ dedup' = [dedup EXCEPT ![KeyOf[t]] = PrintOf[t]]
          /\ tx'[t].pc = "ended" /\ answer'[t] \in {"applied", "error"}
      BY <2>7 DEF Commits, TypeOK
    <3>2. /\ dedup'[KeyOf[t]] = PrintOf[t]
          /\ \A k \in Keys \ {KeyOf[t]} : dedup'[k] = dedup[k]
      BY <1>1, <3>1
    <3>3. ASSUME NEW k \in Keys PROVE (Recorded(dedup[k], k) /\ Recorded(archive[k], k))'
      BY <3>1, <3>2 DEF ChargesKnown, Recorded
    <3>4. ASSUME NEW u \in charged'
          PROVE  (At(u, "ended") /\ (dedup[KeyOf[u]] # NoPrint \/ archive[KeyOf[u]] # NoPrint))'
      BY <1>1, <1>2, <2>1, <3>1, <3>2, <3>4 DEF ChargesKnown, Others, At
    <3>5. ASSUME NEW u \in Tasks PROVE (answer[u] = "none" <=> ~At(u, "ended"))'
      BY <2>1, <3>1 DEF ChargesKnown, Others, At
    <3> QED
      BY <3>3, <3>4, <3>5 DEF ChargesKnown
  <2> QED
    BY <2>1, <2>4, <2>5, <2>6, <2>7
<1> QED
  BY <1>3, <1>4, AllSteps

----------------------------------------------------------------------------
(* Locks are taken in the order of the effects *)

Added(t, k) == k \in Effects(t) \ tx[t].left

\* What transaction t has done is what it holds locked, and comes before what is left.
DoneInOrder(t) ==
    /\ tx[t].left \subseteq Effects(t)
    /\ \A j, k \in Kinds : Added(t, j) /\ k \in tx[t].left => Rank[j] < Rank[k]
    /\ \A k \in Kinds : Added(t, k) => Target[t][k] \in DOMAIN wrote[t]
    /\ \A r \in DOMAIN wrote[t] : \E k \in Kinds : Added(t, k) /\ Target[t][k] = r

RowsHeld ==
    \A t \in Tasks :
      /\ At(t, "effects") => DoneInOrder(t)
      /\ tx[t].pc \in {"idle", "claim", "compare", "lookup"} =>
           tx[t].left = Effects(t) /\ ~tx[t].exhausted /\ ~tx[t].event
      /\ ~At(t, "effects") => wrote[t] = <<>>
      /\ \A u \in Tasks : u # t => DOMAIN wrote[t] \cap DOMAIN wrote[u] = {}

\* A row is written by one transaction at a time, in the order of the tables.
LEMMA HeldSteps == ASSUME TypeOK, RowsHeld, [Next]_vars PROVE RowsHeld'
<1>1. CASE Rests
  BY <1>1 DEF Rests, RowsHeld, DoneInOrder, Added, At
<1>2. ASSUME NEW t \in Tasks, Moves(t) PROVE RowsHeld'
  <2>1. /\ Others(t)
        /\ Advances(t) \/ (\E k \in Kinds : Performs(t, k)) \/ Ends(t) \/ Commits(t)
    BY <1>2, TxSteps
  <2>2. ASSUME tx'[t].pc = "effects" => DoneInOrder(t)',
               tx'[t].pc \in {"idle", "claim", "compare", "lookup"} =>
                 tx'[t].left = Effects(t) /\ ~tx'[t].exhausted /\ ~tx'[t].event,
               tx'[t].pc # "effects" => wrote'[t] = <<>>,
               \A u \in Tasks \ {t} : DOMAIN wrote'[t] \cap DOMAIN wrote[u] = {}
        PROVE  RowsHeld'
    <3>1. ASSUME NEW u \in Tasks, u # t
          PROVE  /\ At(u, "effects")' => DoneInOrder(u)'
                 /\ tx'[u].pc \in {"idle", "claim", "compare", "lookup"} =>
                      tx'[u].left = Effects(u) /\ ~tx'[u].exhausted /\ ~tx'[u].event
                 /\ ~At(u, "effects")' => wrote'[u] = <<>>
      BY <2>1, <3>1 DEF RowsHeld, DoneInOrder, Added, Others, At
    <3>2. ASSUME NEW u \in Tasks, NEW v \in Tasks, u # v
          PROVE  DOMAIN wrote'[u] \cap DOMAIN wrote'[v] = {}
      BY <2>1, <2>2, <3>2 DEF RowsHeld, Others
    <3> QED
      BY <2>2, <3>1, <3>2 DEF RowsHeld, At, Effects
  <2>3. CASE Advances(t)
    <3>1. tx[t].left = Effects(t) /\ ~tx[t].exhausted /\ ~tx[t].event /\ wrote[t] = <<>>
      BY <2>3 DEF Advances, RowsHeld, At
    <3>2. Keeps(t) /\ wrote' = wrote /\ tx'[t].pc \in {"claim", "compare", "lookup", "effects"}
      BY <2>3 DEF Advances
    <3>3. DoneInOrder(t)'
      BY <3>1, <3>2, NothingWritten DEF Keeps, DoneInOrder, Added, Effects
    <3> QED
      BY <2>2, <3>1, <3>2, <3>3, NothingWritten DEF Keeps
  <2>4. ASSUME NEW k \in Kinds, Performs(t, k) PROVE RowsHeld'
    <3> DEFINE r == Target[t][k]
    <3>1. /\ At(t, "effects") /\ tx'[t].pc = "effects" /\ ~LockedFor(t, r)
          /\ k \in tx[t].left /\ (\A j \in tx[t].left \ {k} : Rank[k] < Rank[j])
          /\ tx'[t].left = tx[t].left \ {k}
          /\ DOMAIN wrote'[t] = DOMAIN wrote[t] \cup {r}
      BY <2>4 DEF Performs, NextEffect, Before
    <3>2. DoneInOrder(t)
      BY <3>1 DEF RowsHeld
    <3>3. \A j \in Kinds : Added(t, j)' <=> Added(t, j) \/ j = k
      BY <3>1, <3>2 DEF Added, DoneInOrder, Effects
    <3>4. DoneInOrder(t)'
      <4>1. tx'[t].left \subseteq Effects(t)'
        BY <3>1, <3>2 DEF DoneInOrder, Effects
      <4>2. ASSUME NEW i \in Kinds, NEW j \in Kinds, Added(t, i)', j \in tx'[t].left
            PROVE  Rank[i] < Rank[j]
        BY <3>1, <3>2, <3>3, <4>2 DEF DoneInOrder
      <4>3. ASSUME NEW j \in Kinds, Added(t, j)' PROVE Target[t][j] \in DOMAIN wrote'[t]
        BY <3>1, <3>2, <3>3, <4>3 DEF DoneInOrder
      <4>4. ASSUME NEW s \in DOMAIN wrote'[t] PROVE \E j \in Kinds : Added(t, j)' /\ Target[t][j] = s
        BY <3>1, <3>2, <3>3, <4>4 DEF DoneInOrder
      <4> QED
        BY <4>1, <4>2, <4>3, <4>4 DEF DoneInOrder
    <3>5. \A u \in Tasks \ {t} : DOMAIN wrote'[t] \cap DOMAIN wrote[u] = {}
      BY <3>1 DEF LockedFor, RowsHeld
    <3> QED
      BY <2>2, <3>1, <3>4, <3>5
  <2>5. CASE Ends(t) \/ Commits(t)
    <3>1. tx'[t].pc = "ended" /\ wrote'[t] = <<>>
      BY <2>5 DEF Ends, Drops, Commits
    <3> QED
      BY <2>2, <3>1, NothingWritten
  <2> QED
    BY <2>1, <2>3, <2>4, <2>5
<1> QED
  BY <1>1, <1>2, AllSteps

\* Where a transaction waits: the four tables in the order they are updated.
Place == [subscription |-> 1, balance |-> 2, quota |-> 3, rate |-> 3, account |-> 4]
Blocked(S, t, n) ==
    /\ At(t, "effects")
    /\ \E k \in Kinds : /\ NextEffect(t, k) /\ Place[k] = n
                        /\ \E u \in S \ {t} : Target[t][k] \in DOMAIN wrote[u]

\* Who waits for a row waits for one that waits, if at all, at a later table.
LEMMA Climbs ==
  ASSUME TypeOK, RowsHeld, NEW S \in SUBSET Tasks, NEW t \in S, NEW n \in 1 .. 4, Blocked(S, t, n),
         \A v \in S : \E u \in S \ {v} : WaitsFor(v, u)
  PROVE  \E u \in S, m \in 1 .. 4 : m > n /\ Blocked(S, u, m)
<1>1. PICK k \in Kinds : /\ NextEffect(t, k) /\ Place[k] = n
                         /\ \E u \in S \ {t} : Target[t][k] \in DOMAIN wrote[u]
  BY DEF Blocked
<1>2. PICK u \in S \ {t} : Target[t][k] \in DOMAIN wrote[u]
  BY <1>1
<1>3. At(u, "effects") /\ DoneInOrder(u) /\ u \in Tasks /\ t \in Tasks
  BY <1>2, NothingWritten DEF RowsHeld
<1>4. PICK j \in Kinds : Added(u, j) /\ Target[u][j] = Target[t][k]
  BY <1>2, <1>3 DEF DoneInOrder
<1>5. SameTable(j, k)
  BY <1>3, <1>4, Bounds
<1>6. PICK v \in S \ {u} : WaitsFor(u, v)
  BY <1>2
<1>7. PICK i \in Kinds : NextEffect(u, i) /\ Target[u][i] \in DOMAIN wrote[v]
  BY <1>3, <1>6 DEF WaitsFor, At
<1>8. Rank[j] < Rank[i]
  BY <1>3, <1>4, <1>7 DEF DoneInOrder, NextEffect
<1>9. ~(j = "quota" /\ i = "rate")
  <2> SUFFICES ASSUME j = "quota", i = "rate" PROVE FALSE
    OBVIOUS
  <2>1. Target[u][i] = Target[u][j] /\ Target[u][j] \in DOMAIN wrote[u]
    BY <1>2, <1>3, <1>4, Bounds
  <2> QED
    BY <1>3, <1>6, <1>7, <2>1 DEF RowsHeld
<1>10. Place[i] > Place[k] /\ Place[i] \in 1 .. 4
  BY <1>5, <1>8, <1>9 DEF SameTable, Kinds, Rank, Place
<1>11. Blocked(S, u, Place[i])
  BY <1>3, <1>6, <1>7 DEF Blocked
<1> QED
  BY <1>1, <1>2, <1>10, <1>11

\* Claims before rows, and rows in one order of tables: nobody waits in a circle.
LEMMA NoCircle == ASSUME TypeOK, KeysHeld, RowsHeld PROVE NoDeadlock
<1> SUFFICES ASSUME NEW S \in (SUBSET Tasks) \ {{}},
                    ~(\E t \in S : \A u \in S \ {t} : ~WaitsFor(t, u))
             PROVE  FALSE
  BY DEF NoDeadlock
<1>0. S \subseteq Tasks /\ S # {} /\ \A t \in S : \E u \in S \ {t} : WaitsFor(t, u)
  OBVIOUS
<1>1. \A t \in S, n \in 1 .. 4 : Blocked(S, t, n) => \E u \in S, m \in 1 .. 4 : m > n /\ Blocked(S, u, m)
  BY <1>0, Climbs
<1>2. \A t \in S : ~Blocked(S, t, 4)
  BY <1>1
<1>3. \A t \in S : ~Blocked(S, t, 3)
  BY <1>1, <1>2
<1>4. \A t \in S : ~Blocked(S, t, 2)
  BY <1>1, <1>2, <1>3
<1>5. \A t \in S : ~Blocked(S, t, 1)
  BY <1>1, <1>2, <1>3, <1>4
<1>6. ASSUME NEW t \in S, At(t, "effects") PROVE FALSE
  <2>1. PICK u \in S \ {t}, k \in Kinds : NextEffect(t, k) /\ Target[t][k] \in DOMAIN wrote[u]
    BY <1>0, <1>6 DEF WaitsFor, At
  <2>2. Place[k] \in 1 .. 4 /\ Blocked(S, t, Place[k])
    BY <1>6, <2>1 DEF Blocked, Place, Kinds
  <2> QED
    BY <1>2, <1>3, <1>4, <1>5, <2>2
<1>7. PICK t \in S : TRUE
  BY <1>0
<1>8. PICK u \in S \ {t} : WaitsFor(t, u)
  BY <1>0
<1>9. tx[u].claimed /\ u \in Tasks
  BY <1>0, <1>6, <1>7, <1>8 DEF WaitsFor
<1>10. tx[u].pc = "lookup"
  BY <1>0, <1>6, <1>8, <1>9 DEF KeysHeld, Open, At
<1>11. PICK v \in S \ {u} : WaitsFor(u, v)
  BY <1>0, <1>8
<1> QED
  BY <1>10, <1>11 DEF WaitsFor, At

----------------------------------------------------------------------------
(* What a transaction adds to the rows, and the limits it crosses *)

\* The amounts of the effects that are done, on top of the committed rows, which
\* nobody else changes while the transaction holds them locked; and whether they
\* took the key or the account over its limit.
Crossing(t, k) == LET r == Target[t][k] IN Added(t, k) /\ Crosses(r, rows[r], Cost[t][k])
Adds(t) ==
    /\ \A k \in Kinds \ {"rate"} :
         LET r == Target[t][k]
         IN  r \in DOMAIN wrote[t] =>
               wrote[t][r].spent = rows[r].spent + (IF Added(t, k) THEN Cost[t][k] ELSE 0)
    /\ tx[t].exhausted = Crossing(t, "quota")
    /\ tx[t].event = Crossing(t, "account")
Totals == \A t \in Tasks : At(t, "effects") => Adds(t)

\* Only the spent column of a row decides whether an amount crosses its limit.
LEMMA CrossesBySpent ==
  ASSUME NEW r, NEW row, NEW other, NEW n, row.spent = other.spent
  PROVE  Crosses(r, row, n) = Crosses(r, other, n)
BY DEF Crosses

\* A row the transaction has not written carries nothing of it.
LEMMA SeenSpent ==
  ASSUME TypeOK, RowsHeld, Totals, NEW t \in Tasks, At(t, "effects"), NEW k \in Kinds \ {"rate"}
  PROVE  Seen(t, Target[t][k]).spent
           = rows[Target[t][k]].spent + (IF Added(t, k) THEN Cost[t][k] ELSE 0)
<1>1. Target[t][k] \in Rows /\ rows[Target[t][k]].spent \in Nat /\ Cost[t][k] \in Nat
  BY Bounds DEF TypeOK, Row
<1>2. CASE Target[t][k] \in DOMAIN wrote[t]
  BY <1>2 DEF Seen, Totals, Adds
<1>3. CASE Target[t][k] \notin DOMAIN wrote[t]
  <2>1. ~Added(t, k)
    BY <1>3 DEF RowsHeld, DoneInOrder
  <2> QED
    BY <1>1, <1>3, <2>1 DEF Seen
<1> QED
  BY <1>2, <1>3

\* The totals of a transaction stay right while its rows keep their totals.
LEMMA AddsFrame ==
  ASSUME TypeOK, RowsHeld, NEW u \in Tasks, Adds(u), DoneInOrder(u),
         tx'[u] = tx[u], wrote'[u] = wrote[u],
         \A r \in DOMAIN wrote[u] : rows'[r].spent = rows[r].spent
  PROVE  Adds(u)'
<1>1. \A k \in Kinds : Added(u, k)' <=> Added(u, k)
  BY DEF Added, Effects
<1>2. ASSUME NEW k \in Kinds PROVE Crossing(u, k)' = Crossing(u, k)
  <2>1. CASE Added(u, k)
    <3>1. rows'[Target[u][k]].spent = rows[Target[u][k]].spent
      BY <2>1 DEF DoneInOrder
    <3>2. Crosses(Target[u][k], rows'[Target[u][k]], Cost[u][k])
            = Crosses(Target[u][k], rows[Target[u][k]], Cost[u][k])
      BY <3>1, CrossesBySpent
    <3> QED
      BY <1>1, <1>2, <2>1, <3>2 DEF Crossing, Crosses
  <2>2. CASE ~Added(u, k)
    BY <1>1, <1>2, <2>2 DEF Crossing
  <2> QED
    BY <2>1, <2>2
<1>3. "quota" \in Kinds /\ "account" \in Kinds
  BY DEF Kinds
<1>4. ASSUME NEW k \in Kinds \ {"rate"}, Target[u][k] \in DOMAIN wrote'[u]
      PROVE  wrote'[u][Target[u][k]].spent
               = rows'[Target[u][k]].spent + (IF Added(u, k)' THEN Cost[u][k] ELSE 0)
  BY <1>1, <1>4 DEF Adds
<1> QED
  BY <1>2, <1>3, <1>4 DEF Adds

\* One more effect: its amount is added to its row, and the others are as before.
LEMMA AddsEffect ==
  ASSUME TypeOK, RowsHeld, Totals, NEW t \in Tasks, NEW k \in Kinds, Performs(t, k)
  PROVE  Adds(t)'
<1> DEFINE r == Target[t][k]
           row == Seen(t, r)
           copy == Charged(r, row, k, Cost[t][k], tx[t].now)
<1>1. /\ At(t, "effects") /\ k \in tx[t].left /\ tx'[t].left = tx[t].left \ {k}
      /\ DOMAIN wrote'[t] = DOMAIN wrote[t] \cup {r} /\ wrote'[t][r] = copy
      /\ (\A s \in DOMAIN wrote[t] \ {r} : wrote'[t][s] = wrote[t][s])
      /\ rows' = rows
      /\ tx'[t].exhausted = (tx[t].exhausted \/ (k = "quota" /\ Crosses(r, row, Cost[t][k])))
      /\ tx'[t].event = (tx[t].event \/ (k = "account" /\ Crosses(r, row, Cost[t][k])))
  BY DEF Performs, NextEffect, tables
<1>2. DoneInOrder(t) /\ Adds(t)
  BY <1>1 DEF RowsHeld, Totals
<1>3. ~Added(t, k) /\ \A j \in Kinds : Added(t, j)' <=> Added(t, j) \/ j = k
  BY <1>1, <1>2 DEF Added, DoneInOrder, Effects
<1>4. r \in Rows /\ Cost[t][k] \in Nat /\ row \in Row /\ tx[t].now \in Nat
  BY Bounds, SeenRow DEF TypeOK, Transaction
<1>5. copy.spent = row.spent + (IF k = "rate" THEN 0 ELSE Cost[t][k]) /\ row.spent \in Nat
  BY <1>4, ChargedRow DEF Row
<1>6. k # "rate" => row.spent = rows[r].spent /\ rows[r].spent \in Nat
  <2>1. rows[r].spent \in Nat
    BY <1>4 DEF TypeOK, Row
  <2> QED
    BY <1>1, <1>3, <2>1, SeenSpent
<1>7. ASSUME NEW j \in Kinds \ {"rate"}, Target[t][j] \in DOMAIN wrote'[t]
      PROVE  wrote'[t][Target[t][j]].spent
               = rows'[Target[t][j]].spent + (IF Added(t, j)' THEN Cost[t][j] ELSE 0)
  <2>1. CASE j = k
    BY <1>1, <1>3, <1>5, <1>6, <1>7, <2>1
  <2>2. CASE j # k /\ Target[t][j] = r
    <3>1. SameTable(j, k)
      BY <2>2, Bounds
    <3>2. k = "rate"
      BY <1>7, <2>2, <3>1 DEF SameTable
    <3>3. copy.spent = row.spent
      BY <1>5, <3>2
    <3>4. row.spent = rows[r].spent + (IF Added(t, j) THEN Cost[t][j] ELSE 0)
      BY <1>1, <1>7, <2>2, SeenSpent
    <3> QED
      BY <1>1, <1>3, <2>2, <3>3, <3>4
  <2>3. CASE Target[t][j] # r
    <3>1. j # k /\ Target[t][j] \in DOMAIN wrote[t]
      BY <1>1, <1>7, <2>3
    <3> QED
      BY <1>1, <1>2, <1>3, <2>3, <3>1 DEF Adds
  <2> QED
    BY <2>1, <2>2, <2>3
<1>8. k # "rate" => Crosses(r, row, Cost[t][k]) = Crosses(r, rows[r], Cost[t][k])
  BY <1>6, CrossesBySpent
<1>9. ASSUME NEW j \in {"quota", "account"}
      PROVE  Crossing(t, j)' = (Crossing(t, j) \/ (k = j /\ Crosses(r, row, Cost[t][k])))
  <2>1. j \in Kinds /\ j # "rate"
    BY DEF Kinds
  <2>2. CASE j = k
    <3>1. Crosses(r, row, Cost[t][k]) = Crosses(r, rows[r], Cost[t][k])
      BY <1>8, <2>1, <2>2
    <3> QED
      BY <1>1, <1>3, <2>1, <2>2, <3>1, CrossesType DEF Crossing
  <2>3. CASE j # k
    BY <1>1, <1>3, <2>1, <2>3 DEF Crossing
  <2> QED
    BY <2>2, <2>3
<1>10. tx'[t].exhausted = Crossing(t, "quota")' /\ tx'[t].event = Crossing(t, "account")'
  BY <1>1, <1>2, <1>9 DEF Adds
<1> QED
  BY <1>7, <1>10 DEF Adds

\* What a transaction has written is the committed row with its charges added.
LEMMA TotalSteps == ASSUME TypeOK, RowsHeld, Totals, [Next]_vars PROVE Totals'
<1>1. \A t \in Tasks : DOMAIN wrote[t] \subseteq Rows
  BY DEF TypeOK
<1>2. CASE Rests
  <2>1. ASSUME NEW u \in Tasks, At(u, "effects") PROVE Adds(u)'
    <3>1. tx'[u] = tx[u] /\ wrote'[u] = wrote[u] /\ DoneInOrder(u) /\ Adds(u)
      BY <1>2, <2>1 DEF Rests, RowsHeld, Totals
    <3>2. \A r \in DOMAIN wrote[u] : rows'[r].spent = rows[r].spent
      BY <1>1, <1>2 DEF Rests
    <3> QED
      BY <3>1, <3>2, AddsFrame
  <2> QED
    BY <1>2, <2>1 DEF Totals, Rests, At
<1>3. ASSUME NEW t \in Tasks, Moves(t) PROVE Totals'
  <2>1. /\ Others(t)
        /\ Advances(t) \/ (\E k \in Kinds : Performs(t, k)) \/ Ends(t) \/ Commits(t)
    BY <1>3, TxSteps
  <2>2. ASSUME NEW u \in Tasks \ {t}, At(u, "effects")' PROVE Adds(u)'
    <3>1. /\ tx'[u] = tx[u] /\ wrote'[u] = wrote[u] /\ At(u, "effects")
          /\ DoneInOrder(u) /\ Adds(u)
      BY <2>1, <2>2 DEF Others, RowsHeld, Totals, At
    <3>2. \A r \in DOMAIN wrote[u] : rows'[r].spent = rows[r].spent
      <4>1. CASE rows' = rows
        BY <4>1
      <4>2. CASE Commits(t)
        <5>1. \A r \in DOMAIN wrote[u] : r \in Rows /\ r \notin DOMAIN wrote[t]
          BY <1>1, <2>2 DEF RowsHeld
        <5> QED
          BY <4>2, <5>1 DEF Commits, Seen
      <4> QED
        BY <2>1, <4>1, <4>2 DEF Advances, Performs, Ends, Drops, tables
    <3> QED
      BY <3>1, <3>2, AddsFrame
  <2>3. ASSUME tx'[t].pc = "effects" PROVE Adds(t)'
    <3>1. CASE Advances(t)
      <4>1. /\ tx[t].left = Effects(t) /\ ~tx[t].exhausted /\ ~tx[t].event /\ wrote'[t] = <<>>
            /\ Keeps(t)
        BY <3>1 DEF Advances, RowsHeld, At
      <4>2. /\ tx'[t].exhausted = FALSE /\ tx'[t].event = FALSE
        BY <4>1, TypeSteps DEF Keeps, TypeOK, Transaction
      <4>3. \A k \in Kinds : ~Added(t, k)'
        BY <4>1 DEF Keeps, Added, Effects
      <4>4. \A k \in Kinds : Crossing(t, k)' = FALSE
        BY <4>3 DEF Crossing
      <4>5. "quota" \in Kinds /\ "account" \in Kinds
        BY DEF Kinds
      <4> QED
        BY <4>1, <4>2, <4>4, <4>5, NothingWritten DEF Adds
    <3>2. ASSUME NEW k \in Kinds, Performs(t, k) PROVE Adds(t)'
      BY <3>2, AddsEffect
    <3> QED
      BY <2>1, <2>3, <3>1, <3>2 DEF Ends, Drops, Commits
  <2> QED
    BY <2>2, <2>3 DEF Totals, At
<1> QED
  BY <1>2, <1>3, AllSteps

----------------------------------------------------------------------------
(* An API key is marked exhausted at its quota *)

\* In the table and in every copy that a transaction holds.
Marked(r, row) == Limit[r] > 0 => (row.status = "quota_exhausted" <=> row.spent >= Limit[r])
KeysMarked ==
    \A t \in Tasks :
      LET r == Target[t]["quota"]
      IN  /\ Marked(r, rows[r])
          /\ \A u \in Tasks : r \in DOMAIN wrote[u] => Marked(r, wrote[u][r])

\* A key is marked exhausted exactly when its use reaches the limit.
LEMMA MarkSteps == ASSUME TypeOK, KeysMarked, [Next]_vars PROVE KeysMarked'
<1> SUFFICES ASSUME NEW o \in Tasks
             PROVE  LET r == Target[o]["quota"]
                    IN  /\ Marked(r, rows'[r])
                        /\ \A u \in Tasks : r \in DOMAIN wrote'[u] => Marked(r, wrote'[u][r])
  BY DEF KeysMarked, Marked
<1> DEFINE r == Target[o]["quota"]
<1>1. /\ r \in Rows /\ Limit[r] \in Nat /\ Marked(r, rows[r]) /\ "quota" \in Kinds
      /\ \A u \in Tasks : r \in DOMAIN wrote[u] => Marked(r, wrote[u][r])
  BY Bounds DEF KeysMarked, Kinds
<1>2. CASE Rests
  BY <1>1, <1>2 DEF Rests, Marked
<1>3. ASSUME NEW t \in Tasks, Moves(t)
      PROVE  /\ Marked(r, rows'[r])
             /\ \A u \in Tasks : r \in DOMAIN wrote'[u] => Marked(r, wrote'[u][r])
  <2>1. /\ Others(t)
        /\ Advances(t) \/ (\E k \in Kinds : Performs(t, k)) \/ Ends(t) \/ Commits(t)
    BY <1>3, TxSteps
  <2>2. Marked(r, Seen(t, r))
    BY <1>1 DEF Seen
  <2>3. Marked(r, rows'[r])
    BY <1>1, <2>1, <2>2 DEF Advances, Performs, Ends, Drops, Commits, tables
  <2>4. r \in DOMAIN wrote'[t] => Marked(r, wrote'[t][r])
    <3>1. CASE Advances(t)
      BY <1>1, <3>1 DEF Advances
    <3>2. ASSUME NEW k \in Kinds, Performs(t, k), r \in DOMAIN wrote'[t] PROVE Marked(r, wrote'[t][r])
      <4>1. CASE r # Target[t][k]
        BY <1>1, <3>2, <4>1 DEF Performs
      <4>2. CASE r = Target[t][k]
        <5> DEFINE row == Seen(t, r)
                   copy == Charged(r, row, k, Cost[t][k], tx[t].now)
        <5>1. wrote'[t][r] = copy
          BY <3>2, <4>2 DEF Performs
        <5>2. row \in Row /\ Cost[t][k] \in Nat /\ tx[t].now \in Nat
          BY <1>1, SeenRow, Bounds DEF TypeOK, Transaction
        <5>6. Marked(r, row)
          BY <2>2
        <5> HIDE DEF row, r
        <5> DEFINE mark == IF k = "quota" /\ Crosses(r, row, Cost[t][k]) /\ row.status = "active"
                           THEN "quota_exhausted" ELSE row.status
        <5>3. /\ copy.spent = row.spent + (IF k = "rate" THEN 0 ELSE Cost[t][k])
              /\ copy.status = mark
          <6> DEFINE n == Cost[t][k]
                     now == tx[t].now
          <6>1. n \in Nat /\ now \in Nat /\ r \in Rows
            BY <1>1, <5>2
          <6> HIDE DEF n, now
          <6>2. /\ Charged(r, row, k, n, now).spent = row.spent + (IF k = "rate" THEN 0 ELSE n)
                /\ Charged(r, row, k, n, now).status =
                     (IF k = "quota" /\ Crosses(r, row, n) /\ row.status = "active"
                      THEN "quota_exhausted" ELSE row.status)
            BY <5>2, <6>1, ChargedRow
          <6> QED
            BY <6>2 DEF n, now
        <5> USE DEF r
        <5>4. k = "quota" \/ k = "rate"
          <6>1. SameTable("quota", k)
            BY <1>1, <4>2, Bounds
          <6> QED
            BY <6>1 DEF SameTable
        <5>5. row.spent \in Nat /\ row.status \in {"active", "quota_exhausted"}
          BY <5>2 DEF Row
        <5> HIDE DEF copy
        <5>7. CASE k = "rate"
          BY <5>1, <5>3, <5>5, <5>6, <5>7 DEF Marked
        <5>8. CASE k = "quota"
          <6>1. copy.spent = row.spent + Cost[t][k]
            BY <5>3, <5>8
          <6>2. Crosses(r, row, Cost[t][k])
                  <=> row.spent < Limit[r] /\ row.spent + Cost[t][k] >= Limit[r]
            BY DEF Crosses
          <6>3. copy.status = "quota_exhausted"
                  <=> row.status = "quota_exhausted" \/ Crosses(r, row, Cost[t][k])
            BY <5>3, <5>5, <5>8
          <6> QED
            BY <1>1, <5>1, <5>2, <5>5, <5>6, <6>1, <6>2, <6>3 DEF Marked
        <5> QED
          BY <5>4, <5>7, <5>8
      <4> QED
        BY <4>1, <4>2
    <3>3. CASE Ends(t) \/ Commits(t)
      BY <3>3, NothingWritten DEF Ends, Drops, Commits
    <3> QED
      BY <2>1, <3>1, <3>2, <3>3
  <2> QED
    BY <1>1, <2>1, <2>3, <2>4 DEF Others
<1> QED
  BY <1>2, <1>3, AllSteps

----------------------------------------------------------------------------
(* The window of a key counts the charges made in it *)

\* The use and the window after a charge of n at a time.
NewUsage(row, n, now) == IF Expired(row, now) THEN n ELSE row.usage + n
NewWindow(row, now) == IF row.window = NoWindow \/ Expired(row, now) THEN now ELSE row.window

\* The key as transaction t sees it: charged by t if t has come to that, and else
\* with the use and the window that were committed.
Counted(t) ==
    LET r == Target[t]["rate"]
        seen == Seen(t, r)
    IN  IF Added(t, "rate")
        THEN /\ seen.usage = NewUsage(rows[r], RateOf(t), tx[t].now)
             /\ seen.window = NewWindow(rows[r], tx[t].now)
        ELSE seen.usage = rows[r].usage /\ seen.window = rows[r].window
RatesSeen == \A t \in Tasks : At(t, "effects") => Counted(t)

\* Only the statement of the rate effect touches the use and the window.
LEMMA ChargedRate ==
  ASSUME NEW r \in Rows, NEW row \in Row, NEW k \in Kinds, NEW n \in Nat, NEW now \in Nat
  PROVE  LET copy == Charged(r, row, k, n, now)
         IN  IF k = "rate"
             THEN copy.usage = NewUsage(row, n, now) /\ copy.window = NewWindow(row, now)
             ELSE copy.usage = row.usage /\ copy.window = row.window
<1>1. CASE k = "rate"
  <2> DEFINE use == NewUsage(row, n, now)
             start == NewWindow(row, now)
  <2>1. Charged(r, row, k, n, now) = [row EXCEPT !.usage = use, !.window = start]
    BY <1>1 DEF Charged, NewUsage, NewWindow
  <2> HIDE DEF use, start
  <2>2. Charged(r, row, k, n, now).usage = use /\ Charged(r, row, k, n, now).window = start
    BY <2>1 DEF Row
  <2> QED
    BY <1>1, <2>2 DEF use, start
<1>2. CASE k = "quota"
  <2>1. PICK mark : Charged(r, row, k, n, now) = [row EXCEPT !.spent = row.spent + n, !.status = mark]
    BY <1>2 DEF Charged
  <2> QED
    BY <1>2, <2>1 DEF Row
<1>3. CASE k \notin {"rate", "quota"}
  <2>1. Charged(r, row, k, n, now) = [row EXCEPT !.spent = row.spent + n]
    BY <1>3 DEF Charged
  <2> QED
    BY <1>3, <2>1 DEF Row
<1> QED
  BY <1>1, <1>2, <1>3

\* A charge depends on nothing of a row but its use and its window.
LEMMA NewByRate ==
  ASSUME NEW row, NEW other, NEW n, NEW now,
         row.usage = other.usage, row.window = other.window
  PROVE  NewUsage(row, n, now) = NewUsage(other, n, now) /\ NewWindow(row, now) = NewWindow(other, now)
BY DEF NewUsage, NewWindow, Expired

\* What a transaction sees of its key stays so while nobody else charges the key.
LEMMA CountedFrame ==
  ASSUME NEW u \in Tasks, Counted(u), DoneInOrder(u),
         tx'[u] = tx[u], wrote'[u] = wrote[u],
         \A r \in DOMAIN wrote[u] : RateKept(r)
  PROVE  Counted(u)'
<1> DEFINE r == Target[u]["rate"]
<1>1. Added(u, "rate")' <=> Added(u, "rate")
  BY DEF Added, Effects
<1>2. CASE r \in DOMAIN wrote[u]
  <2>1. Seen(u, r)' = Seen(u, r) /\ RateKept(r)
    BY <1>2 DEF Seen
  <2>2. /\ NewUsage(rows'[r], RateOf(u), tx[u].now) = NewUsage(rows[r], RateOf(u), tx[u].now)
        /\ NewWindow(rows'[r], tx[u].now) = NewWindow(rows[r], tx[u].now)
    BY <2>1, NewByRate DEF RateKept
  <2> QED
    BY <1>1, <2>1, <2>2 DEF Counted, RateKept
<1>3. CASE r \notin DOMAIN wrote[u]
  <2>1. "rate" \in Kinds /\ ~Added(u, "rate")
    BY <1>3 DEF DoneInOrder, Kinds
  <2>2. Seen(u, r)' = rows'[r]
    BY <1>3 DEF Seen
  <2> QED
    BY <1>1, <2>1, <2>2 DEF Counted
<1> QED
  BY <1>2, <1>3

\* One more effect: the rate effect charges the key, and the others leave its window.
LEMMA CountedEffect ==
  ASSUME TypeOK, RowsHeld, RatesSeen, NEW t \in Tasks, NEW k \in Kinds, Performs(t, k)
  PROVE  Counted(t)'
<1> DEFINE r == Target[t]["rate"]
           s == Target[t][k]
           row == Seen(t, s)
           copy == Charged(s, row, k, Cost[t][k], tx[t].now)
<1>1. /\ At(t, "effects") /\ k \in tx[t].left /\ tx'[t].left = tx[t].left \ {k}
      /\ DOMAIN wrote'[t] = DOMAIN wrote[t] \cup {s} /\ wrote'[t][s] = copy
      /\ (\A q \in DOMAIN wrote[t] \ {s} : wrote'[t][q] = wrote[t][q])
      /\ rows' = rows /\ tx'[t].now = tx[t].now
  BY DEF Performs, NextEffect, tables
<1>2. DoneInOrder(t) /\ Counted(t)
  BY <1>1 DEF RowsHeld, RatesSeen
<1>3. ~Added(t, k) /\ \A j \in Kinds : Added(t, j)' <=> Added(t, j) \/ j = k
  BY <1>1, <1>2 DEF Added, DoneInOrder, Effects
<1>4. s \in Rows /\ Cost[t][k] \in Nat /\ row \in Row /\ tx[t].now \in Nat /\ "rate" \in Kinds
  BY Bounds, SeenRow DEF TypeOK, Transaction, Kinds
<1>5. /\ k = "rate" => copy.usage = NewUsage(row, Cost[t][k], tx[t].now)
                       /\ copy.window = NewWindow(row, tx[t].now)
      /\ k # "rate" => copy.usage = row.usage /\ copy.window = row.window
  BY <1>4, ChargedRate
<1>6. Seen(t, r)' = IF s = r THEN copy ELSE Seen(t, r)
  BY <1>1 DEF Seen
<1> HIDE DEF copy, row
<1>7. CASE k = "rate"
  <2>1. ~Added(t, "rate") /\ Added(t, "rate")' /\ s = r
    BY <1>3, <1>4, <1>7
  <2>2. row.usage = rows[r].usage /\ row.window = rows[r].window
    BY <1>2, <2>1 DEF Counted, row
  <2>3. /\ copy.usage = NewUsage(rows[r], RateOf(t), tx[t].now)
        /\ copy.window = NewWindow(rows[r], tx[t].now)
    BY <1>5, <1>7, <2>2, NewByRate DEF RateOf
  <2>4. Seen(t, r)' = copy
    BY <1>6, <2>1
  <2> QED
    BY <1>1, <2>1, <2>3, <2>4 DEF Counted
<1>8. CASE k # "rate"
  <2>1. Added(t, "rate")' <=> Added(t, "rate")
    BY <1>3, <1>4, <1>8
  <2>2. Seen(t, r)'.usage = Seen(t, r).usage /\ Seen(t, r)'.window = Seen(t, r).window
    <3>1. CASE s = r
      <4>1. Seen(t, r)' = copy /\ row = Seen(t, r)
        BY <1>6, <3>1 DEF row
      <4> QED
        BY <1>5, <1>8, <4>1
    <3>2. CASE s # r
      BY <1>6, <3>2
    <3> QED
      BY <3>1, <3>2
  <2> QED
    BY <1>1, <1>2, <2>1, <2>2 DEF Counted
<1> QED
  BY <1>7, <1>8

\* The copy of a key that a transaction holds follows from the committed row.
LEMMA SeenSteps == ASSUME TypeOK, RowsHeld, RatesSeen, [Next]_vars PROVE RatesSeen'
<1>1. \A t \in Tasks : DOMAIN wrote[t] \subseteq Rows
  BY DEF TypeOK
<1>2. CASE Rests
  <2>1. ASSUME NEW u \in Tasks, At(u, "effects") PROVE Counted(u)'
    <3>1. tx'[u] = tx[u] /\ wrote'[u] = wrote[u] /\ DoneInOrder(u) /\ Counted(u)
      BY <1>2, <2>1 DEF Rests, RowsHeld, RatesSeen
    <3>2. \A r \in DOMAIN wrote[u] : RateKept(r)
      BY <1>1, <1>2 DEF Rests, RateReset, Unlocked
    <3> QED
      BY <3>1, <3>2, CountedFrame
  <2> QED
    BY <1>2, <2>1 DEF RatesSeen, Rests, At
<1>3. ASSUME NEW t \in Tasks, Moves(t) PROVE RatesSeen'
  <2>1. /\ Others(t)
        /\ Advances(t) \/ (\E k \in Kinds : Performs(t, k)) \/ Ends(t) \/ Commits(t)
    BY <1>3, TxSteps
  <2>2. ASSUME NEW u \in Tasks \ {t}, At(u, "effects")' PROVE Counted(u)'
    <3>1. /\ tx'[u] = tx[u] /\ wrote'[u] = wrote[u] /\ At(u, "effects")
          /\ DoneInOrder(u) /\ Counted(u)
      BY <2>1, <2>2 DEF Others, RowsHeld, RatesSeen, At
    <3>2. \A r \in DOMAIN wrote[u] : rows'[r] = rows[r]
      <4>1. CASE rows' = rows
        BY <4>1
      <4>2. CASE Commits(t)
        <5>1. \A r \in DOMAIN wrote[u] : r \in Rows /\ r \notin DOMAIN wrote[t]
          BY <1>1, <2>2 DEF RowsHeld
        <5> QED
          BY <4>2, <5>1 DEF Commits, Seen
      <4> QED
        BY <2>1, <4>1, <4>2 DEF Advances, Performs, Ends, Drops, tables
    <3> QED
      BY <3>1, <3>2, CountedFrame DEF RateKept
  <2>3. ASSUME tx'[t].pc = "effects" PROVE Counted(t)'
    <3>1. CASE Advances(t)
      <4>1. tx'[t].left = Effects(t) /\ wrote'[t] = <<>>
        BY <3>1 DEF Advances, Keeps, RowsHeld, At
      <4>2. ~Added(t, "rate")'
        BY <4>1 DEF Added, Effects
      <4>3. Seen(t, Target[t]["rate"])' = rows'[Target[t]["rate"]]
        BY <4>1, NothingWritten DEF Seen
      <4> QED
        BY <4>2, <4>3 DEF Counted
    <3>2. ASSUME NEW k \in Kinds, Performs(t, k) PROVE Counted(t)'
      BY <3>2, CountedEffect
    <3> QED
      BY <2>1, <2>3, <3>1, <3>2 DEF Ends, Drops, Commits
  <2> QED
    BY <2>2, <2>3 DEF RatesSeen, At
<1> QED
  BY <1>2, <1>3, AllSteps

\* What a step does to a key: nothing, a reset of its window, or the charge of one
\* more task to it.
Grows(t) == t \in Tasks \ charged /\ charged' = charged \cup {t}
RateCharged(r, t) ==
    /\ Grows(t) /\ Target[t]["rate"] = r
    /\ rows'[r].usage = NewUsage(rows[r], RateOf(t), tx'[t].now)
    /\ rows'[r].window = NewWindow(rows[r], tx'[t].now)
Idles(r) ==
    /\ RateKept(r)
    /\ \A u \in charged' \ charged : Target[u]["rate"] = r => RateOf(u) = 0

LEMMA KeyRowSteps ==
  ASSUME TypeOK, RowsHeld, ChargesKnown, RatesSeen, [Next]_vars, NEW o \in Tasks
  PROVE  LET r == Target[o]["rate"]
         IN  /\ Idles(r) \/ (RateReset(r) /\ charged' = charged) \/ \E t \in Tasks : RateCharged(r, t)
             /\ charged' = charged \/ \E t \in Tasks : Grows(t)
             /\ \A u \in charged : tx'[u] = tx[u]
<1> DEFINE r == Target[o]["rate"]
<1>1. r \in Rows /\ "rate" \in Kinds /\ "quota" \in Kinds /\ charged \subseteq Tasks
  BY Bounds DEF TypeOK, Kinds
<1>2. CASE Rests
  BY <1>1, <1>2 DEF Rests, Idles
<1>3. ASSUME NEW t \in Tasks, Moves(t)
      PROVE  /\ Idles(r) \/ RateCharged(r, t)
             /\ charged' = charged \/ Grows(t)
             /\ \A u \in charged : tx'[u] = tx[u]
  <2>1. /\ Others(t)
        /\ Advances(t) \/ (\E k \in Kinds : Performs(t, k)) \/ Ends(t) \/ Commits(t)
    BY <1>3, TxSteps
  <2>2. ~At(t, "ended")
    BY <2>1 DEF Advances, Performs, Ends, Commits, At
  <2>3. t \notin charged
    BY <2>2 DEF ChargesKnown
  <2>4. \A u \in charged : tx'[u] = tx[u]
    BY <1>1, <2>1, <2>3 DEF Others
  <2>5. CASE UNCHANGED <<rows, charged>>
    BY <2>4, <2>5 DEF Idles, RateKept
  <2>6. CASE Commits(t)
    <3>1. /\ At(t, "effects") /\ tx[t].left = {} /\ charged' = charged \cup {t}
          /\ rows'[r] = Seen(t, r) /\ tx'[t].now = tx[t].now
      BY <1>1, <2>6 DEF Commits
    <3>2. Grows(t) /\ Counted(t) /\ DoneInOrder(t)
      BY <2>3, <3>1 DEF Grows, RatesSeen, RowsHeld
    <3>3. CASE Target[t]["rate"] # r
      <4>1. \A k \in Kinds : Target[t][k] = r => FALSE
        <5>1. ASSUME NEW k \in Kinds, Target[t][k] = r PROVE FALSE
          <6>1. SameTable(k, "rate")
            BY <1>1, <5>1, Bounds
          <6>2. k = "quota" \/ k = "rate"
            BY <6>1 DEF SameTable
          <6> QED
            BY <3>3, <5>1, <6>2, Bounds
        <5> QED
          BY <5>1
      <4>2. r \notin DOMAIN wrote[t]
        BY <3>2, <4>1 DEF DoneInOrder
      <4>3. rows'[r] = rows[r]
        BY <3>1, <4>2 DEF Seen
      <4> QED
        BY <2>4, <3>1, <3>2, <3>3, <4>3 DEF Idles, RateKept
    <3>4. CASE Target[t]["rate"] = r /\ Added(t, "rate")
      BY <2>4, <3>1, <3>2, <3>4 DEF RateCharged, Counted
    <3>5. CASE Target[t]["rate"] = r /\ ~Added(t, "rate")
      <4>1. RateOf(t) = 0
        <5>1. "rate" \notin Effects(t)
          BY <3>1, <3>5 DEF Added
        <5>2. ~(RateOf(t) > 0) /\ RateOf(t) \in Nat
          BY <1>1, <5>1, RateType DEF Effects, RateOf
        <5> QED
          BY <5>2
      <4>2. RateKept(r)
        BY <3>1, <3>2, <3>5 DEF Counted, RateKept
      <4> QED
        BY <2>4, <3>1, <3>2, <4>1, <4>2 DEF Idles
    <3> QED
      BY <3>3, <3>4, <3>5
  <2> QED
    BY <2>1, <2>5, <2>6 DEF Advances, Performs, Ends, Drops, tables
<1> QED
  BY <1>2, <1>3, AllSteps

\* The tasks whose charge the window of row r must count, and that it is as much.
Since(r) ==
    {u \in charged : Target[u]["rate"] = r /\ rows[r].window # NoWindow /\ tx[u].now >= rows[r].window}

\* A window that a task was charged in had not ended when the task began: what was
\* charged before a window was opened anew is older than the new one.
InWindow ==
    \A u \in charged :
      LET r == Target[u]["rate"]
      IN  RateOf(u) > 0 => rows[r].window # NoWindow /\ tx[u].now < rows[r].window + WindowLength
Counting ==
    /\ IsFiniteSet(charged)
    /\ \A t \in Tasks : LET r == Target[t]["rate"] IN rows[r].usage >= RateSum(Since(r))

\* What the rows and the times are made of.
LEMMA RateTypes ==
  ASSUME TypeOK, NEW r \in Rows
  PROVE  /\ rows[r].usage \in Nat /\ (rows[r].window # NoWindow => rows[r].window \in Nat)
         /\ \A u \in Tasks : tx[u].now \in Nat
         /\ WindowLength \in Nat /\ WindowLength > 0 /\ NoWindow \notin Nat
<1>1. rows[r] \in Row /\ \A u \in Tasks : tx[u] \in Transaction
  BY DEF TypeOK
<1> QED
  BY <1>1, BillingAssumption DEF Row, Transaction

\* A reset or a charge leaves every charge inside the window or before it.
LEMMA InWindowSteps ==
  ASSUME TypeOK, TypeOK', RowsHeld, ChargesKnown, RatesSeen, InWindow, [Next]_vars PROVE InWindow'
<1> SUFFICES ASSUME NEW u \in charged', RateOf(u) > 0
             PROVE  LET r == Target[u]["rate"]
                    IN  rows'[r].window # NoWindow /\ tx'[u].now < rows'[r].window + WindowLength
  BY DEF InWindow
<1> DEFINE r == Target[u]["rate"]
<1>1. u \in Tasks /\ r \in Rows /\ "rate" \in Kinds
  BY Bounds DEF TypeOK, Kinds
<1>2. /\ Idles(r) \/ (RateReset(r) /\ charged' = charged) \/ \E t \in Tasks : RateCharged(r, t)
      /\ \A v \in charged : tx'[v] = tx[v]
  BY <1>1, KeyRowSteps
<1>3. /\ rows[r].window # NoWindow => rows[r].window \in Nat
      /\ \A v \in Tasks : tx[v].now \in Nat
      /\ WindowLength \in Nat /\ WindowLength > 0 /\ NoWindow \notin Nat
  BY <1>1, RateTypes
<1>4. \A v \in Tasks : tx'[v].now \in Nat
  <2>1. \A v \in Tasks : tx'[v] \in Transaction
    BY DEF TypeOK
  <2> QED
    BY <2>1 DEF Transaction
<1>5. u \in charged => /\ rows[r].window # NoWindow /\ tx'[u].now = tx[u].now
                       /\ tx[u].now < rows[r].window + WindowLength
  BY <1>2 DEF InWindow
<1>6. CASE Idles(r)
  <2>1. u \in charged /\ rows'[r].window = rows[r].window
    BY <1>6, <1>3 DEF Idles, RateKept
  <2> QED
    BY <1>5, <2>1
<1>7. CASE RateReset(r) /\ charged' = charged
  <2>1. PICK now \in Nat : Expired(rows[r], now) /\ rows'[r].window = now
    BY <1>7 DEF RateReset
  <2>2. u \in charged
    BY <1>7
  <2>3. rows[r].window \in Nat /\ rows[r].window + WindowLength <= now
    BY <1>3, <2>1 DEF Expired
  <2>4. tx'[u].now < now + WindowLength
    BY <1>3, <1>4, <1>1, <1>5, <2>2, <2>3
  <2> QED
    BY <1>3, <2>1, <2>4
<1>8. ASSUME NEW t \in Tasks, RateCharged(r, t)
      PROVE  rows'[r].window # NoWindow /\ tx'[u].now < rows'[r].window + WindowLength
  <2> DEFINE now == tx'[t].now
  <2>1. charged' = charged \cup {t} /\ rows'[r].window = NewWindow(rows[r], now) /\ now \in Nat
    BY <1>4, <1>8 DEF RateCharged, Grows
  <2> HIDE DEF now
  <2>2. CASE rows[r].window = NoWindow
    <3>1. u = t /\ rows'[r].window = now
      BY <1>5, <2>1, <2>2 DEF NewWindow
    <3> QED
      BY <1>3, <2>1, <3>1 DEF now
  <2>3. CASE Expired(rows[r], now)
    <3>1. rows'[r].window = now /\ rows[r].window \in Nat /\ rows[r].window + WindowLength <= now
      BY <1>3, <2>1, <2>3 DEF NewWindow, Expired
    <3>2. CASE u = t
      BY <1>3, <2>1, <3>1, <3>2 DEF now
    <3>3. CASE u \in charged
      BY <1>1, <1>3, <1>4, <1>5, <2>1, <3>1, <3>3
    <3> QED
      BY <2>1, <3>2, <3>3
  <2>4. CASE rows[r].window # NoWindow /\ ~Expired(rows[r], now)
    <3>1. /\ rows'[r].window = rows[r].window /\ rows[r].window \in Nat
          /\ now < rows[r].window + WindowLength
      BY <1>3, <2>1, <2>4 DEF NewWindow, Expired
    <3>2. CASE u = t
      BY <1>3, <3>1, <3>2 DEF now
    <3>3. CASE u \in charged
      BY <1>5, <3>1, <3>3, <2>4
    <3> QED
      BY <2>1, <3>2, <3>3
  <2> QED
    BY <2>2, <2>3, <2>4
<1> QED
  BY <1>2, <1>6, <1>7, <1>8

\* No step leaves a charge out of the window that it was made in.
LEMMA CountingSteps ==
  ASSUME TypeOK, TypeOK', RowsHeld, ChargesKnown, RatesSeen, InWindow, Counting, [Next]_vars
  PROVE  Counting'
<1>1. IsFiniteSet(charged) /\ charged \subseteq Tasks /\ charged' \subseteq Tasks
  BY DEF Counting, TypeOK
<1>2. ASSUME NEW o \in Tasks
      PROVE  /\ charged' = charged \/ \E t \in Tasks : Grows(t)
             /\ rows'[Target[o]["rate"]].usage >= RateSum(Since(Target[o]["rate"])')
  <2> DEFINE r == Target[o]["rate"]
             old == Since(r)
             new == Since(r)'
  <2>1. /\ Idles(r) \/ (RateReset(r) /\ charged' = charged) \/ \E t \in Tasks : RateCharged(r, t)
        /\ charged' = charged \/ \E t \in Tasks : Grows(t)
        /\ \A u \in charged : tx'[u] = tx[u]
    BY KeyRowSteps
  <2>2. r \in Rows /\ "rate" \in Kinds
    BY Bounds DEF Kinds
  <2>3. /\ rows[r].usage \in Nat /\ (rows[r].window # NoWindow => rows[r].window \in Nat)
        /\ \A u \in Tasks : tx[u].now \in Nat
        /\ WindowLength \in Nat /\ WindowLength > 0 /\ NoWindow \notin Nat
    BY <2>2, RateTypes
  <2>4. IsFiniteSet(charged')
    BY <1>1, <2>1, FS_AddElement DEF Grows
  <2>5. old \subseteq Tasks /\ new \subseteq Tasks /\ IsFiniteSet(old) /\ IsFiniteSet(new)
    BY <1>1, <2>4, FS_Subset DEF Since
  <2>6. RateSum(old) \in Nat /\ RateSum(new) \in Nat /\ rows[r].usage >= RateSum(old)
    BY <2>5, SumType DEF Counting
  <2>7. \A u \in new : /\ u \in charged' /\ Target[u]["rate"] = r
                       /\ rows'[r].window # NoWindow /\ tx'[u].now >= rows'[r].window
    BY DEF Since
  <2>8. \A u \in charged : Target[u]["rate"] = r /\ RateOf(u) # 0 =>
                             /\ rows[r].window # NoWindow /\ tx'[u].now = tx[u].now
                             /\ tx[u].now < rows[r].window + WindowLength
    <3>1. \A u \in charged : RateOf(u) # 0 => RateOf(u) > 0
      BY <1>1, RateType
    <3> QED
      BY <2>1, <3>1 DEF InWindow
  <2>9. \A u \in charged : Target[u]["rate"] = r /\ rows'[r].window = rows[r].window /\ u \in new => u \in old
    BY <2>1 DEF Since
  <2> HIDE DEF old, new, r
  <2>10. CASE Idles(r)
    <3>1. \A u \in new \ old : RateOf(u) = 0
      BY <2>7, <2>9, <2>10 DEF Idles, RateKept
    <3>2. RateSum(new) <= RateSum(old)
      BY <2>5, <3>1, SumMonotone
    <3>3. rows'[r].usage = rows[r].usage
      BY <2>10 DEF Idles, RateKept
    <3> QED
      BY <2>1, <2>3, <2>6, <3>2, <3>3 DEF new, r
  <2>11. CASE RateReset(r) /\ charged' = charged
    <3>1. PICK now \in Nat : Expired(rows[r], now) /\ rows'[r].usage = 0 /\ rows'[r].window = now
      BY <2>11 DEF RateReset
    <3>2. rows[r].window \in Nat /\ rows[r].window + WindowLength <= now
      BY <2>3, <3>1 DEF Expired
    <3>3. ASSUME NEW u \in new, RateOf(u) # 0 PROVE FALSE
      <4>1. u \in charged /\ u \in Tasks /\ tx'[u].now >= now /\ Target[u]["rate"] = r
        BY <1>1, <2>7, <2>11, <3>1
      <4>2. tx'[u].now = tx[u].now /\ tx[u].now < rows[r].window + WindowLength /\ tx[u].now \in Nat
        BY <2>3, <2>8, <3>3, <4>1
      <4> QED
        BY <2>3, <3>2, <4>1, <4>2
    <3>4. RateSum(new) <= RateSum({})
      BY <2>5, <3>3, SumMonotone, FS_EmptySet
    <3>5. RateSum({}) = 0
      BY SumStep, FS_EmptySet
    <3> QED
      BY <2>1, <2>6, <3>1, <3>4, <3>5 DEF new, r
  <2>12. ASSUME NEW t \in Tasks, RateCharged(r, t) PROVE rows'[r].usage >= RateSum(new)
    <3> DEFINE now == tx'[t].now
    <3>1. /\ t \notin charged /\ charged' = charged \cup {t} /\ RateOf(t) \in Nat
          /\ rows'[r].usage = NewUsage(rows[r], RateOf(t), now)
          /\ rows'[r].window = NewWindow(rows[r], now)
      BY <2>12, RateType DEF RateCharged, Grows
    <3>2. now \in Nat
      <4>1. tx'[t] \in Transaction
        BY DEF TypeOK
      <4> QED
        BY <4>1 DEF Transaction
    <3> HIDE DEF now
    \* Whatever the row had counted, with the new charge, is enough for the rest.
    <3>3. ASSUME NEW some, some \subseteq Tasks, IsFiniteSet(some), t \notin some,
                 \A u \in new : u # t /\ RateOf(u) # 0 => u \in some
          PROVE  RateSum(new) <= RateOf(t) + RateSum(some) /\ RateSum(some) \in Nat
      <4> DEFINE all == some \cup {t}
      <4>1. IsFiniteSet(all) /\ all \subseteq Tasks /\ t \in all /\ all \ {t} = some
        BY <3>3, FS_AddElement
      <4> HIDE DEF all
      <4>2. RateSum(all) = RateOf(t) + RateSum(some)
        BY <4>1, SumRemove
      <4>3. \A u \in new \ all : RateOf(u) = 0
        BY <3>3, <4>1
      <4>4. RateSum(new) <= RateSum(all)
        BY <2>5, <4>1, <4>3, SumMonotone
      <4> QED
        BY <3>3, <4>2, <4>4, SumType
    <3>4. CASE rows[r].window = NoWindow \/ Expired(rows[r], now)
      <4>1. ASSUME NEW u \in new, u # t, RateOf(u) # 0 PROVE FALSE
        <5>1. /\ u \in charged /\ u \in Tasks /\ Target[u]["rate"] = r
              /\ tx'[u].now >= rows'[r].window
          BY <1>1, <2>7, <3>1, <4>1
        <5>2. /\ rows[r].window # NoWindow /\ tx'[u].now = tx[u].now
              /\ tx[u].now < rows[r].window + WindowLength /\ tx[u].now \in Nat
          BY <2>3, <2>8, <4>1, <5>1
        <5>3. rows[r].window + WindowLength <= now /\ rows'[r].window = now /\ rows[r].window \in Nat
          BY <2>3, <3>1, <3>4, <5>2 DEF Expired, NewWindow
        <5> QED
          BY <2>3, <3>2, <5>1, <5>2, <5>3
      <4>2. RateSum(new) <= RateOf(t) + RateSum({}) /\ RateSum({}) = 0
        BY <3>3, <4>1, SumStep, FS_EmptySet
      <4>3. rows'[r].usage \in {RateOf(t), rows[r].usage + RateOf(t)}
        BY <3>1 DEF NewUsage
      <4> QED
        BY <2>3, <2>6, <3>1, <4>2, <4>3
    <3>5. CASE rows[r].window # NoWindow /\ ~Expired(rows[r], now)
      <4>1. rows'[r].usage = rows[r].usage + RateOf(t) /\ rows'[r].window = rows[r].window
        BY <3>1, <3>5 DEF NewUsage, NewWindow
      <4>2. t \notin old
        BY <3>1 DEF old, Since
      <4>3. \A u \in new : u # t => u \in old
        BY <2>7, <2>9, <3>1, <4>1
      <4>4. RateSum(new) <= RateOf(t) + RateSum(old)
        BY <2>5, <3>3, <4>2, <4>3
      <4> QED
        BY <2>3, <2>6, <3>1, <4>1, <4>4
    <3> QED
      BY <3>4, <3>5
  <2> QED
    BY <2>1, <2>10, <2>11, <2>12 DEF new, r
<1>3. IsFiniteSet(charged')
  <2>1. CASE Tasks = {}
    <3>1. charged' = charged
      BY <1>1, <2>1
    <3> QED
      BY <1>1, <3>1
  <2>2. CASE Tasks # {}
    BY <1>1, <1>2, <2>2, FS_AddElement DEF Grows
  <2> QED
    BY <2>1, <2>2
<1> QED
  BY <1>2, <1>3 DEF Counting

----------------------------------------------------------------------------
(* The invariant, and the ledger *)

\* An event of the outbox is that of a charge that crossed the limit of its account.
Events == outbox = {t \in charged : tx[t].event}

Inv ==
    /\ KeysHeld /\ ChargesKnown /\ RowsHeld
    /\ Totals /\ KeysMarked /\ Events
    /\ RatesSeen /\ InWindow /\ Counting

\* The outbox has the event of every charged command that crossed a limit.
LEMMA EventSteps == ASSUME TypeOK, ChargesKnown, Events, [Next]_vars PROVE Events'
<1>1. CASE Rests
  BY <1>1 DEF Rests, Events
<1>2. ASSUME NEW t \in Tasks, Moves(t) PROVE Events'
  <2>1. /\ Others(t) /\ charged \subseteq Tasks
        /\ Advances(t) \/ (\E k \in Kinds : Performs(t, k)) \/ Ends(t) \/ Commits(t)
    BY <1>2, TxSteps DEF TypeOK
  <2>2. ~At(t, "ended")
    BY <2>1 DEF Advances, Performs, Ends, Commits, At
  <2>3. t \notin charged
    BY <2>2 DEF ChargesKnown
  <2>4. \A u \in charged : tx'[u] = tx[u]
    BY <2>1, <2>3 DEF Others
  <2>5. CASE UNCHANGED <<outbox, charged>>
    BY <2>4, <2>5 DEF Events
  <2>6. CASE Commits(t)
    BY <2>3, <2>4, <2>6 DEF Commits, Keeps, Events
  <2> QED
    BY <2>1, <2>5, <2>6 DEF Advances, Performs, Ends, Drops, tables
<1> QED
  BY <1>1, <1>2, AllSteps

\* The inductive invariant holds at the beginning.
LEMMA InitInv == ASSUME Init PROVE Inv
<1>1. \A t \in Tasks : /\ NoTransaction(t).pc = "idle" /\ ~NoTransaction(t).claimed
                       /\ NoTransaction(t).left = Effects(t)
                       /\ ~NoTransaction(t).exhausted /\ ~NoTransaction(t).event
  BY DEF NoTransaction
<1>2. \A t \in Tasks : /\ tx[t] = NoTransaction(t) /\ wrote[t] = <<>> /\ answer[t] = "none"
  BY DEF Init
<1>3. KeysHeld
  BY <1>1, <1>2 DEF KeysHeld, Open, At
<1>4. ChargesKnown
  BY <1>1, <1>2 DEF Init, ChargesKnown, Recorded, At
<1>5. RowsHeld
  BY <1>1, <1>2, NothingWritten DEF RowsHeld, At
<1>6. Totals
  BY <1>1, <1>2 DEF Totals, At
<1>7. KeysMarked
  <2>1. \A t \in Tasks : Target[t]["quota"] \in Rows /\ Limit[Target[t]["quota"]] \in Nat
    BY Bounds DEF Kinds
  <2>2. \A r \in Rows : rows[r].spent = 0 /\ rows[r].status = "active"
    BY DEF Init
  <2> QED
    BY <1>2, <2>1, <2>2, NothingWritten DEF KeysMarked, Marked
<1>8. Events
  BY DEF Init, Events
<1>9. RatesSeen
  BY <1>1, <1>2 DEF RatesSeen, At
<1>10. InWindow
  BY DEF Init, InWindow
<1>11. Counting
  <2>1. \A t \in Tasks : Target[t]["rate"] \in Rows
    BY Bounds DEF Kinds
  <2>2. \A r \in Rows : rows[r].usage = 0
    BY DEF Init
  <2>3. charged = {} /\ IsFiniteSet({})
    BY FS_EmptySet DEF Init
  <2>4. \A r : Since(r) = {}
    BY <2>3 DEF Since
  <2>5. RateSum({}) = 0
    BY <2>3, SumStep
  <2>6. ASSUME NEW t \in Tasks
        PROVE  rows[Target[t]["rate"]].usage >= RateSum(Since(Target[t]["rate"]))
    <3> DEFINE r == Target[t]["rate"]
               counted == Since(r)
    <3>1. rows[r].usage = 0
      BY <2>1, <2>2
    <3>2. counted = {}
      BY <2>4
    <3> HIDE DEF counted
    <3>3. RateSum(counted) = 0
      BY <2>5, <3>2
    <3> QED
      BY <3>1, <3>3 DEF counted
  <2> QED
    BY <2>3, <2>6 DEF Counting
<1> QED
  BY <1>3, <1>4, <1>5, <1>6, <1>7, <1>8, <1>9, <1>10, <1>11 DEF Inv

\* The inductive invariant.
LEMMA AlwaysInv == Spec => [](TypeOK /\ Inv)
<1>1. Init => Inv
  BY InitInv
<1>2. TypeOK /\ Inv /\ [Next]_vars => Inv'
  <2> SUFFICES ASSUME TypeOK, Inv, [Next]_vars PROVE Inv'
    OBVIOUS
  <2>1. TypeOK'
    BY TypeSteps
  <2>2. KeysHeld' /\ ChargesKnown' /\ RowsHeld'
    BY KeySteps, ChargeSteps, HeldSteps DEF Inv
  <2>3. Totals' /\ KeysMarked' /\ Events'
    BY TotalSteps, MarkSteps, EventSteps DEF Inv
  <2>4. RatesSeen'
    BY SeenSteps DEF Inv
  <2>5. InWindow' /\ Counting'
    BY <2>1, InWindowSteps, CountingSteps DEF Inv
  <2> QED
    BY <2>2, <2>3, <2>4, <2>5 DEF Inv
<1> QED
  BY <1>1, <1>2, TypeCorrect, PTL DEF Spec

\* An API key is marked exhausted exactly when its committed use reaches its quota,
\* however many transactions charge it and however they end.
THEOREM KeysExhausted == Spec => []ExhaustedIsMarked
<1>1. Inv => ExhaustedIsMarked
  BY DEF Inv, KeysMarked, Marked, ExhaustedIsMarked
<1> QED
  BY <1>1, AlwaysInv, PTL

\* The window of a key counts every committed charge made since it opened: neither a
\* reset that waited for the row nor a transaction older than the window takes one out.
THEOREM WindowCounts == Spec => []WindowCountsCharges
<1>1. Inv => WindowCountsCharges
  BY DEF Inv, Counting, Since, RateSum, RateOf, WindowCountsCharges
<1> QED
  BY <1>1, AlwaysInv, PTL

\* Transactions never wait for each other in a circle: in any group of them, one
\* waits for none of the others.
THEOREM DeadlockFree == Spec => []NoDeadlock
<1>1. TypeOK /\ Inv => NoDeadlock
  BY NoCircle DEF Inv
<1> QED
  BY <1>1, AlwaysInv, PTL

----------------------------------------------------------------------------
(* The transactions implement the ledger *)

ledgerVars == <<charged, [r \in Rows |-> rows[r].spent], [r \in Rows |-> Crossed(r)], answer>>

\* The charges of a limit that was crossed do not change with what others do.
LEMMA CrossedKept ==
  ASSUME charged' = charged, outbox' = outbox, \A u \in charged : tx'[u] = tx[u]
  PROVE  \A r \in Rows : Crossed(r)' = Crossed(r)
BY DEF Crossed

\* The jobs beside the transactions are not seen by the ledger.
LEMMA LedgerRests ==
  ASSUME TypeOK, Inv, Rests PROVE UNCHANGED ledgerVars
<1>1. \A r \in Rows : rows'[r].spent = rows[r].spent
  BY DEF Rests
<1>2. \A r \in Rows : Crossed(r)' = Crossed(r)
  BY CrossedKept DEF Rests
<1> QED
  BY <1>1, <1>2 DEF Rests, ledgerVars

\* A transaction that goes on or ends without a commit leaves the totals alone.
LEMMA LedgerKept ==
  ASSUME TypeOK, Inv, NEW t \in Tasks, Others(t), ~At(t, "ended"),
         UNCHANGED <<rows, outbox, charged>>
  PROVE  /\ charged' = charged
         /\ [r \in Rows |-> rows[r].spent]' = [r \in Rows |-> rows[r].spent]
         /\ [r \in Rows |-> Crossed(r)]' = [r \in Rows |-> Crossed(r)]
<1>1. \A u \in charged : u \in Tasks /\ u # t
  BY DEF Inv, ChargesKnown, TypeOK
<1>2. \A r \in Rows : Crossed(r)' = Crossed(r)
  BY <1>1, CrossedKept DEF Others
<1> QED
  BY <1>2

\* A refused task hears the truth: its key was found with the fingerprint of the
\* task that was charged.
LEMMA LedgerRefuses ==
  ASSUME TypeOK, TypeOK', Inv, NEW t \in Tasks, Others(t), Ends(t)
  PROVE  Ledger!Refused(t)
<1>1. PICK a \in Answers \ {"none", "applied"} : Drops(t, a) /\ Told(t, a)
  BY DEF Ends
<1>2. ~At(t, "ended") /\ UNCHANGED <<rows, outbox, charged>>
  BY <1>1 DEF Ends, Drops, tables, At
<1>3. answer[t] = "none" /\ answer \in [Tasks -> Answers] /\ answer' \in [Tasks -> Answers]
  BY <1>2 DEF Inv, ChargesKnown, TypeOK, Answers
<1>4. answer' = [answer EXCEPT ![t] = a]
  BY <1>1, <1>3 DEF Drops, Others
<1>5. ASSUME NEW p \in {dedup[KeyOf[t]], archive[KeyOf[t]]}, p # NoPrint
      PROVE  \E u \in charged : KeyOf[u] = KeyOf[t] /\ PrintOf[u] = p
  BY <1>5, Bounds DEF Inv, ChargesKnown, Recorded
<1>6. /\ a = "duplicate" => \E u \in Ledger!Rivals(t) : PrintOf[u] = PrintOf[t]
      /\ a = "conflict" => \E u \in Ledger!Rivals(t) : PrintOf[u] # PrintOf[t]
  BY <1>1, <1>5 DEF Told, Verdict, Ledger!Rivals
<1>7. a \in {"duplicate", "conflict", "error"}
  BY <1>1 DEF Answers
<1>8. /\ charged' = charged
      /\ [r \in Rows |-> rows[r].spent]' = [r \in Rows |-> rows[r].spent]
      /\ [r \in Rows |-> Crossed(r)]' = [r \in Rows |-> Crossed(r)]
  BY <1>2, LedgerKept
<1> QED
  BY <1>3, <1>4, <1>6, <1>7, <1>8 DEF Ledger!Refused

\* The amounts a transaction has added to a row are the charge of its task.
LEMMA ChargeIsAdded ==
  ASSUME TypeOK, Inv, NEW t \in Tasks, At(t, "effects"), tx[t].left = {}, NEW r \in Rows
  PROVE  /\ ChargeTo(t, r) \in Nat
         /\ Seen(t, r).spent = rows[r].spent + ChargeTo(t, r)
         /\ \A k \in {"quota", "account"} : Target[t][k] = r => ChargeTo(t, r) = Cost[t][k]
         /\ (\A k \in {"quota", "account"} : Target[t][k] # r) => ChargeTo(t, r) = 0 \/ Limit[r] = 0
<1> DEFINE Owners == {"subscription", "balance", "quota", "account"}
<1>1. \A k \in Owners : Cost[t][k] \in Nat /\ k \in Kinds \ {"rate"}
  BY Bounds DEF Kinds
<1>2. DoneInOrder(t) /\ Adds(t) /\ rows[r].spent \in Nat
  BY DEF Inv, RowsHeld, Totals, TypeOK, Row
<1>3. \A k \in Owners : Added(t, k) <=> Cost[t][k] > 0
  BY <1>1 DEF Added, Effects
<1>4. ASSUME NEW k \in Owners, Target[t][k] = r PROVE ChargeTo(t, r) = Cost[t][k]
  <2>1. \A j \in Owners : j # k => Part(t, r, j) = 0
    <3>1. \A j \in Owners : Target[t][j] = Target[t][k] => SameTable(j, k)
      BY <1>1, <1>4, Bounds
    <3> QED
      BY <1>4, <3>1 DEF SameTable, Part
  <2>2. Part(t, r, k) = Cost[t][k] /\ Cost[t][k] \in Nat
    BY <1>1, <1>4 DEF Part
  <2> QED
    BY <2>1, <2>2 DEF ChargeTo
<1>5. ASSUME \A k \in Owners : Target[t][k] # r PROVE ChargeTo(t, r) = 0
  BY <1>5 DEF ChargeTo, Part
<1>6. CASE \E k \in Owners : Target[t][k] = r
  <2>1. PICK k \in Owners : Target[t][k] = r
    BY <1>6
  <2>2. ChargeTo(t, r) = Cost[t][k] /\ Cost[t][k] \in Nat
    BY <1>1, <1>4, <2>1
  <2>3. Seen(t, r).spent = rows[r].spent + (IF Added(t, k) THEN Cost[t][k] ELSE 0)
    BY <1>1, <2>1, SeenSpent DEF Inv
  <2>4. Seen(t, r).spent = rows[r].spent + Cost[t][k]
    BY <1>1, <1>2, <1>3, <2>2, <2>3
  <2>5. (\A j \in {"quota", "account"} : Target[t][j] # r) => Limit[r] = 0
    BY <2>1, Bounds
  <2> QED
    BY <1>4, <2>2, <2>4, <2>5
<1>7. CASE \A k \in Owners : Target[t][k] # r
  <2>1. r \notin DOMAIN wrote[t]
    <3> SUFFICES ASSUME r \in DOMAIN wrote[t] PROVE FALSE
      OBVIOUS
    <3>1. PICK k \in Kinds : Target[t][k] = r
      BY <1>2 DEF DoneInOrder
    <3>2. k = "rate"
      BY <1>7, <3>1 DEF Kinds
    <3> QED
      BY <1>7, <3>1, <3>2, Bounds
  <2>2. Seen(t, r) = rows[r]
    BY <2>1 DEF Seen
  <2> QED
    BY <1>2, <1>5, <1>7, <2>2
<1> QED
  BY <1>6, <1>7

\* A charged task is the one that took its limits over: the key's, or the account's.
LEMMA CrossedGrows ==
  ASSUME TypeOK, Inv, NEW t \in Tasks, Others(t), Commits(t), NEW r \in Rows
  PROVE  Crossed(r)' = IF rows[r].spent < Limit[r] /\ Limit[r] <= rows'[r].spent
                       THEN Crossed(r) \cup {t} ELSE Crossed(r)
<1>1. /\ At(t, "effects") /\ tx[t].left = {} /\ Keeps(t)
      /\ rows' = [s \in Rows |-> Seen(t, s)] /\ charged' = charged \cup {t}
      /\ outbox' = (IF tx[t].event THEN outbox \cup {t} ELSE outbox)
  BY DEF Commits
<1>2. t \notin charged /\ charged \subseteq Tasks /\ outbox \subseteq charged
  BY <1>1 DEF Inv, ChargesKnown, TypeOK, At
<1>3. \A u \in charged : tx'[u] = tx[u]
  BY <1>2 DEF Others
<1> DEFINE here == \/ tx[t].exhausted /\ Target[t]["quota"] = r
                   \/ tx[t].event /\ Target[t]["account"] = r
<1>4. Crossed(r)' = IF here THEN Crossed(r) \cup {t} ELSE Crossed(r)
  <2>1. \A u : u \in Crossed(r) <=> \/ u \in charged /\ tx[u].exhausted /\ Target[u]["quota"] = r
                                    \/ u \in outbox /\ Target[u]["account"] = r
    BY DEF Crossed
  <2>2. \A u : u \in Crossed(r)' <=> \/ u \in charged' /\ tx'[u].exhausted /\ Target[u]["quota"] = r
                                     \/ u \in outbox' /\ Target[u]["account"] = r
    BY DEF Crossed
  <2>3. \A u : u # t => (u \in Crossed(r)' <=> u \in Crossed(r))
    BY <1>1, <1>3, <2>1, <2>2
  <2>4. t \notin Crossed(r) /\ (t \in Crossed(r)' <=> here)
    <3>1. tx'[t].exhausted = tx[t].exhausted
      BY <1>1 DEF Keeps
    <3>2. t \in outbox' <=> tx[t].event
      BY <1>1, <1>2
    <3> QED
      BY <1>1, <1>2, <2>1, <2>2, <3>1, <3>2
  <2>5. (Crossed(r)' = Crossed(r) \cup {t}) \/ ~here
    BY <2>3, <2>4
  <2>6. (Crossed(r)' = Crossed(r)) \/ here
    BY <2>3, <2>4
  <2> QED
    BY <2>5, <2>6
<1>5. here <=> rows[r].spent < Limit[r] /\ Limit[r] <= rows'[r].spent
  <2> DEFINE n == ChargeTo(t, r)
  <2>1. /\ n \in Nat /\ Seen(t, r).spent = rows[r].spent + n
        /\ \A k \in {"quota", "account"} : Target[t][k] = r => n = Cost[t][k]
        /\ (\A k \in {"quota", "account"} : Target[t][k] # r) => n = 0 \/ Limit[r] = 0
    BY <1>1, ChargeIsAdded
  <2>2. rows'[r].spent = rows[r].spent + n
    BY <1>1, <2>1
  <2>3. rows[r].spent \in Nat /\ Limit[r] \in Nat
    BY Bounds DEF TypeOK, Row
  <2> HIDE DEF n
  <2>4. /\ tx[t].exhausted = Crossing(t, "quota") /\ tx[t].event = Crossing(t, "account")
    BY <1>1 DEF Inv, Totals, Adds
  <2>5. ASSUME NEW k \in {"quota", "account"}, Target[t][k] = r
        PROVE  Crossing(t, k) <=> rows[r].spent < Limit[r] /\ Limit[r] <= rows'[r].spent
    <3>1. n = Cost[t][k] /\ k \in Kinds
      BY <2>1, <2>5 DEF Kinds
    <3>2. Added(t, k) <=> n > 0
      BY <1>1, <3>1 DEF Added, Effects
    <3>3. Crosses(r, rows[r], n) <=> rows[r].spent < Limit[r] /\ rows[r].spent + n >= Limit[r]
      BY DEF Crosses
    <3>4. Crossing(t, k) <=> Added(t, k) /\ Crosses(r, rows[r], n)
      BY <2>5, <3>1 DEF Crossing
    <3> QED
      BY <2>1, <2>2, <2>3, <3>2, <3>3, <3>4
  <2>6. ~(Target[t]["quota"] = r /\ Target[t]["account"] = r)
    <3>1. "quota" \in Kinds /\ "account" \in Kinds /\ ~SameTable("quota", "account")
      BY DEF Kinds, SameTable
    <3> QED
      BY <3>1, Bounds
  <2>7. CASE Target[t]["quota"] = r
    BY <2>4, <2>5, <2>6, <2>7
  <2>8. CASE Target[t]["account"] = r
    BY <2>4, <2>5, <2>6, <2>8
  <2>9. CASE Target[t]["quota"] # r /\ Target[t]["account"] # r
    <3>1. n = 0 \/ Limit[r] = 0
      BY <2>1, <2>9
    <3>2. ~(rows[r].spent < Limit[r] /\ Limit[r] <= rows'[r].spent)
      BY <2>1, <2>2, <2>3, <3>1
    <3> QED
      BY <2>9, <3>2
  <2> QED
    BY <2>7, <2>8, <2>9
<1> HIDE DEF here
<1> QED
  BY <1>4, <1>5

\* A commit charges a task none of whose rivals was charged, and moves its totals.
LEMMA LedgerCharges ==
  ASSUME TypeOK, TypeOK', Inv, NEW t \in Tasks, Others(t), Commits(t)
  PROVE  Ledger!Charged(t)
<1>1. /\ At(t, "effects") /\ tx[t].left = {} /\ charged' = charged \cup {t}
      /\ rows' = [r \in Rows |-> Seen(t, r)] /\ answer'[t] \in {"applied", "error"}
  BY DEF Commits
<1>2. answer[t] = "none" /\ answer \in [Tasks -> Answers] /\ answer' \in [Tasks -> Answers]
  BY <1>1 DEF Inv, ChargesKnown, TypeOK, Answers, At
<1>3. Ledger!Rivals(t) = {}
  <2>1. dedup[KeyOf[t]] = NoPrint /\ archive[KeyOf[t]] = NoPrint
    BY <1>1 DEF Inv, KeysHeld, Open, At
  <2> QED
    BY <2>1 DEF Inv, ChargesKnown, Ledger!Rivals
<1>4. \E a \in {"applied", "error"} : answer' = [answer EXCEPT ![t] = a]
  <2>1. answer' = [answer EXCEPT ![t] = answer'[t]]
    BY <1>2 DEF Others
  <2> QED
    BY <1>1, <2>1
<1> DEFINE charge == [u \in Tasks |-> [r \in Rows |-> ChargeTo(u, r)]]
           totals == [r \in Rows |-> rows[r].spent]
           crossed == [r \in Rows |-> Crossed(r)]
<1>5. totals' = [r \in Rows |-> totals[r] + charge[t][r]]
  <2>1. \A r \in Rows : rows'[r].spent = rows[r].spent + ChargeTo(t, r)
    BY <1>1, ChargeIsAdded
  <2> QED
    BY <2>1
<1>6. crossed' = [r \in Rows |-> IF totals[r] < Limit[r] /\ Limit[r] <= totals'[r]
                                 THEN crossed[r] \cup {t} ELSE crossed[r]]
  <2>1. \A r \in Rows : Crossed(r)' = IF rows[r].spent < Limit[r] /\ Limit[r] <= rows'[r].spent
                                      THEN Crossed(r) \cup {t} ELSE Crossed(r)
    BY CrossedGrows
  <2> QED
    BY <2>1
<1> QED
  BY <1>1, <1>2, <1>3, <1>4, <1>5, <1>6 DEF Ledger!Charged

\* Every step is one of the ledger or changes nothing in it.
LEMMA LedgerSteps ==
  ASSUME TypeOK, TypeOK', Inv, [Next]_vars
  PROVE  (\E t \in Tasks : Ledger!Charged(t) \/ Ledger!Refused(t)) \/ UNCHANGED ledgerVars
<1>1. CASE Rests
  BY <1>1, LedgerRests
<1>2. ASSUME NEW t \in Tasks, Moves(t)
      PROVE  Ledger!Charged(t) \/ Ledger!Refused(t) \/ UNCHANGED ledgerVars
  <2>1. /\ Others(t)
        /\ Advances(t) \/ (\E k \in Kinds : Performs(t, k)) \/ Ends(t) \/ Commits(t)
    BY <1>2, TxSteps
  <2>2. ASSUME ~At(t, "ended"), UNCHANGED <<rows, outbox, charged, answer>>
        PROVE  UNCHANGED ledgerVars
    BY <2>1, <2>2, LedgerKept DEF ledgerVars
  <2>3. CASE Advances(t)
    BY <2>2, <2>3 DEF Advances, tables, At
  <2>4. ASSUME NEW k \in Kinds, Performs(t, k) PROVE UNCHANGED ledgerVars
    BY <2>2, <2>4 DEF Performs, tables, At
  <2>5. CASE Ends(t)
    BY <2>1, <2>5, LedgerRefuses
  <2>6. CASE Commits(t)
    BY <2>1, <2>6, LedgerCharges
  <2> QED
    BY <2>1, <2>3, <2>4, <2>5, <2>6
<1> QED
  BY <1>1, <1>2, AllSteps

\* Transactions, locks, failures and the archive job implement the ledger: of the
\* tasks of a key at most one is charged, in one step, and told the truth.
THEOREM Refinement == Spec => ImplementsLedger
<1>1. Init => Ledger!LedgerInit
  <2> SUFFICES ASSUME Init PROVE Ledger!LedgerInit
    OBVIOUS
  <2>1. charged = {} /\ outbox = {} /\ answer = [t \in Tasks |-> "none"]
    BY DEF Init
  <2>2. \A r \in Rows : rows[r].spent = 0 /\ Crossed(r) = {}
    BY DEF Init, Crossed
  <2> QED
    BY <2>1, <2>2 DEF Ledger!LedgerInit
<1>2. TypeOK /\ TypeOK' /\ Inv /\ [Next]_vars
        => [\E t \in Tasks : Ledger!Charged(t) \/ Ledger!Refused(t)]_ledgerVars
  BY LedgerSteps
<1> QED
  BY <1>1, <1>2, AlwaysInv, TypeCorrect, PTL DEF Spec, ImplementsLedger, Ledger!LedgerSpec, ledgerVars
=============================================================================
