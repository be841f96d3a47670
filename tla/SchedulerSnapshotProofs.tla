----------------------- MODULE SchedulerSnapshotProofs ----------------------
(***************************************************************************)
(* Proofs about SchedulerSnapshot for any accounts, editors and writers,   *)
(* any number of changes and failures: the types, and that the active      *)
(* snapshot is whole.                                                      *)
(***************************************************************************)
EXTENDS SchedulerSnapshot, FiniteSetTheorems, SequenceTheorems, WellFoundedInduction, TLAPS

----------------------------------------------------------------------------
(* Finite sets of numbers *)

\* Of subsets of a finite set, one for each element, some are minimal.
LEMMA Minimal ==
  ASSUME NEW S, IsFiniteSet(S), S # {}, NEW f \in [S -> SUBSET S]
  PROVE  \E x \in S : \A y \in S : f[y] \subseteq f[x] => f[y] = f[x]
<1> DEFINE R == StrictSubsetOrdering(S)
           T == {f[x] : x \in S}
<1>1. IsWellFoundedOn(R, SUBSET S)
  BY FS_StrictSubsetOrderingWellFounded, FS_FiniteSubsetsOfFinite
<1>2. \A A, B \in SUBSET S : A \subseteq B /\ A # B => <<A, B>> \in R
  BY DEF StrictSubsetOrdering
<1>3. T \subseteq SUBSET S /\ T # {}
  OBVIOUS
<1> HIDE DEF R
<1>4. PICK A \in T : \A B \in T : ~(<<B, A>> \in R)
  <2> HIDE DEF T
  <2> QED
    BY <1>1, <1>3, WFMin
<1>5. PICK x \in S : A = f[x]
  BY <1>4
<1>6. \A y \in S : f[y] \in T /\ f[y] \in SUBSET S
  OBVIOUS
<1> HIDE DEF T
<1>7. \A y \in S : ~(<<f[y], f[x]>> \in R)
  BY <1>4, <1>5, <1>6
<1> QED
  BY <1>2, <1>6, <1>7

\* A finite set of numbers that is not empty has a least and a greatest element.
LEMMA Extremes ==
  ASSUME NEW S, IsFiniteSet(S), S # {}, \A x \in S : x \in Int
  PROVE  /\ \E x \in S : \A y \in S : x =< y
         /\ \E x \in S : \A y \in S : x >= y
<1>1. \E x \in S : \A y \in S : x =< y
  <2> DEFINE below == [x \in S |-> {z \in S : z < x}]
  <2>1. below \in [S -> SUBSET S]
    OBVIOUS
  <2>2. ASSUME NEW x \in S, NEW y \in S, ~(x =< y)
        PROVE  y \in below[x] /\ y \notin below[y] /\ below[y] \subseteq below[x]
    BY <2>2
  <2> HIDE DEF below
  <2>3. PICK x \in S : \A y \in S : below[y] \subseteq below[x] => below[y] = below[x]
    BY <2>1, Minimal
  <2> QED
    BY <2>2, <2>3
<1>2. \E x \in S : \A y \in S : x >= y
  <2> DEFINE above == [x \in S |-> {z \in S : z > x}]
  <2>1. above \in [S -> SUBSET S]
    OBVIOUS
  <2>2. ASSUME NEW x \in S, NEW y \in S, ~(x >= y)
        PROVE  y \in above[x] /\ y \notin above[y] /\ above[y] \subseteq above[x]
    BY <2>2
  <2> HIDE DEF above
  <2>3. PICK x \in S : \A y \in S : above[y] \subseteq above[x] => above[y] = above[x]
    BY <2>1, Minimal
  <2> QED
    BY <2>2, <2>3
<1> QED
  BY <1>1, <1>2

\* Min and Max are the least and the greatest element.
LEMMA MinMax ==
  ASSUME NEW S, IsFiniteSet(S), S # {}, \A x \in S : x \in Int
  PROVE  /\ Min(S) \in S /\ \A y \in S : Min(S) =< y
         /\ Max(S) \in S /\ \A y \in S : Max(S) >= y
BY Extremes DEF Min, Max

\* The rank of a number in a finite set is a bijection with 1 .. the set's size.
LEMMA Ranks ==
  ASSUME NEW L, IsFiniteSet(L), \A n \in L : n \in Nat /\ n > 0
  PROVE  LET rank == [n \in L \cup {0} |-> Cardinality({m \in L : m <= n})]
             k == Cardinality(L)
         IN  /\ k \in Nat /\ rank[0] = 0
             /\ \A n \in L : rank[n] \in 1 .. k
             /\ \A m, n \in L \cup {0} : rank[m] = rank[n] => m = n
             /\ \A i \in 1 .. k : \E n \in L : rank[n] = i
<1> DEFINE upto(n) == {m \in L : m <= n}
           rank == [n \in L \cup {0} |-> Cardinality(upto(n))]
           k == Cardinality(L)
<1>1. k \in Nat
  BY FS_CardinalityType
<1>2. \A n \in L \cup {0} : /\ IsFiniteSet(upto(n)) /\ Cardinality(upto(n)) \in Nat
                            /\ Cardinality(upto(n)) <= k
  BY FS_Subset, FS_CardinalityType
<1>3. rank[0] = 0
  <2>1. upto(0) = {}
    OBVIOUS
  <2> QED
    BY <2>1, FS_EmptySet
<1>4. ASSUME NEW m \in L \cup {0}, NEW n \in L, m < n PROVE rank[m] < rank[n]
  <2>1. upto(m) \in SUBSET upto(n) /\ n \in upto(n) /\ n \notin upto(m)
    BY <1>4
  <2>2. IsFiniteSet(upto(n)) /\ Cardinality(upto(n)) \in Nat /\ Cardinality(upto(m)) \in Nat
    BY <1>2
  <2> HIDE DEF upto
  <2>3. Cardinality(upto(m)) <= Cardinality(upto(n)) /\ Cardinality(upto(m)) # Cardinality(upto(n))
    BY <2>1, <2>2, FS_Subset
  <2> QED
    BY <2>2, <2>3
<1>5. ASSUME NEW n \in L PROVE rank[n] \in 1 .. k
  <2>1. rank[0] < rank[n]
    BY <1>4
  <2>2. rank[n] \in Nat /\ rank[n] <= k
    BY <1>2
  <2> HIDE DEF rank, k
  <2> QED
    BY <1>1, <1>3, <2>1, <2>2
<1>6. ASSUME NEW m \in L \cup {0}, NEW n \in L \cup {0}, rank[m] = rank[n] PROVE m = n
  <2>0. rank[m] \in Nat /\ rank[n] \in Nat
    BY <1>2
  <2>1. m < n => n \in L /\ rank[m] < rank[n]
    <3>1. m < n => n \in L
      OBVIOUS
    <3> HIDE DEF rank
    <3> QED
      BY <1>4, <3>1
  <2>2. n < m => m \in L /\ rank[n] < rank[m]
    <3>1. n < m => m \in L
      OBVIOUS
    <3> HIDE DEF rank
    <3> QED
      BY <1>4, <3>1
  <2> HIDE DEF rank
  <2> QED
    BY <1>6, <2>0, <2>1, <2>2
<1>7. ASSUME NEW i \in 1 .. k PROVE \E n \in L : rank[n] = i
  <2> DEFINE f == [n \in L |-> rank[n]]
  <2>1. f \in Injection(L, 1 .. k)
    <3> HIDE DEF rank, k
    <3> QED
      BY <1>5, <1>6 DEF Injection, IsInjective
  <2>2. IsFiniteSet(1 .. k) /\ Cardinality(1 .. k) = k
    BY <1>1, FS_Interval
  <2>3. f \in Surjection(L, 1 .. k)
    <3> HIDE DEF f
    <3> QED
      BY <2>1, <2>2, FS_Injection
  <2> HIDE DEF rank, k
  <2> QED
    BY <2>3 DEF Surjection
<1> QED
  BY <1>1, <1>3, <1>5, <1>6, <1>7

\* The numbers up to a bound are finite in number.
LEMMA UpTo == \A n \in Nat : IsFiniteSet(1 .. n)
<1> TAKE n \in Nat
<1>1. 1 \in Int /\ n \in Int
  OBVIOUS
<1> QED
  BY <1>1, FS_Interval


----------------------------------------------------------------------------
(* The inductive invariant *)

EventKinds == {"changed", "used", "full"}
EventRows == [kind : EventKinds, acct : Accounts \cup {None}, visible : BOOLEAN]
Edits == [pc : {"idle", "insert", "commit", "sync", "set"}, kind : EventKinds,
          acct : Accounts \cup {None}, copy : Flags \cup Nat]
JobPcs == {"idle", "lock", "load", "version", "accounts", "publish", "drop", "read", "next", "set", "used"}
Jobs == [pc : JobPcs, todo : SUBSET Nat, last : Nat, copy : Flags, loaded : SUBSET Accounts,
         old : Numbers \cup {0}, ver : Numbers \cup {0}]

\* An event names its account, except that of a full rebuild.
EventsOK ==
    /\ outbox \in Seq(EventRows)
    /\ \A i \in DOMAIN outbox : outbox[i].kind # "full" => outbox[i].acct \in Accounts

\* An editor past its change has an account, and at most one event.
GoodEdit(x) ==
    /\ x \in Edits
    /\ x.pc # "idle" => x.acct \in Accounts
    /\ x.pc = "commit" => x.copy \in DOMAIN outbox
    /\ x.pc = "set" => x.copy \in Flags
Inserting == {e \in Editors : edit[e].pc = "insert"}
EditsOK ==
    /\ edit \in [Editors -> Edits] /\ \A e \in Editors : GoodEdit(edit[e])
    /\ IsFiniteSet(Inserting) /\ Len(outbox) + Cardinality(Inserting) <= made

\* A poller handles rows of the outbox, in the place for their kind.
GoodJob(j) ==
    /\ j \in Jobs /\ j.todo \subseteq DOMAIN outbox /\ j.last <= Len(outbox)
    /\ j.pc = "set" => j.todo # {} /\ outbox[Min(j.todo)].kind = "changed"
    /\ j.pc = "used" => j.todo # {} /\ outbox[Min(j.todo)].kind = "used"
JobsOK == job \in [Writers -> Jobs] /\ \A p \in Writers : GoodJob(job[p])

StoresOK ==
    /\ db \in [Accounts -> Flags] /\ cached \in [Accounts -> Flags]
    /\ made \in 0 .. MaxEvents /\ faults \in 0 .. MaxFaults
    /\ watermark \in 0 .. Len(outbox) /\ locked \in BOOLEAN
    /\ active \in Numbers \cup {0}
    /\ snap \in [Numbers -> SUBSET Accounts] /\ wrote \in [Numbers -> SUBSET Accounts]

Shape == EventsOK /\ EditsOK /\ JobsOK /\ StoresOK

Taken == {"accounts", "publish"}
IsFresh(act, s, w, jobs, p) ==
    LET n == jobs[p].ver
    IN  /\ n # 0 /\ n # act /\ s[n] = {} /\ w[n] = jobs[p].loaded
        /\ \A q \in Writers : jobs[q].old # n /\ (q # p => jobs[q].ver # n)
NumbersOK(act, s, w, jobs) ==
    /\ act # 0 => s[act] = w[act]
    /\ \A p \in Writers :
         /\ jobs[p].pc \notin Taken \cup {"drop"} => jobs[p].old = 0
         /\ jobs[p].pc \notin Taken \cup {"read"} => jobs[p].ver = 0
         /\ jobs[p].pc = "drop" => jobs[p].old \notin {0, act}
         /\ jobs[p].pc \in Taken => IsFresh(act, s, w, jobs, p)
         /\ jobs[p].pc = "read" /\ jobs[p].ver # 0 => s[jobs[p].ver] \in {w[jobs[p].ver], {}}
Compact ==
    /\ \E k \in 0 .. Cardinality(Numbers) : Named(active, job) = 1 .. k
    /\ \A n \in Numbers \ Named(active, job) : snap[n] = {}
Numbered == NumbersOK(active, snap, wrote, job) /\ Compact

----------------------------------------------------------------------------
(* Numbers are renamed one to one *)

\* There are two numbers for each writer and two more.
LEMMA NumbersBound ==
  /\ Cardinality(Writers) \in Nat /\ Cardinality(Numbers) = 2 * Cardinality(Writers) + 2
  /\ Numbers = 1 .. Cardinality(Numbers) /\ IsFiniteSet(Numbers)
<1>1. Cardinality(Writers) \in Nat
  BY SchedulerAssumption, FS_CardinalityType
<1>2. 2 * Cardinality(Writers) + 2 \in Nat
  BY <1>1
<1> QED
  BY <1>1, <1>2, FS_Interval DEF Numbers

\* Every number that is in use is that of the pointer or one of two of a writer.
LEMMA NamedBound ==
  ASSUME NEW act \in Numbers \cup {0}, NEW jobs \in [Writers -> Jobs]
  PROVE  LET L == Named(act, jobs)
         IN  /\ L \subseteq Numbers /\ IsFiniteSet(L)
             /\ Cardinality(L) \in Nat /\ Cardinality(L) < Cardinality(Numbers)
<1> DEFINE L == Named(act, jobs)
           olds == {jobs[p].old : p \in Writers}
           vers == {jobs[p].ver : p \in Writers}
<1>1. L \subseteq Numbers
  BY DEF Named, Jobs
<1>2. IsFiniteSet(Writers)
  BY SchedulerAssumption
<1>3. IsFiniteSet(olds) /\ Cardinality(olds) <= Cardinality(Writers)
  <2> DEFINE f == [p \in Writers |-> jobs[p].old]
  <2>1. f \in Surjection(Writers, olds)
    BY DEF Surjection
  <2> HIDE DEF f, olds
  <2> QED
    BY <1>2, <2>1, FS_Surjection
<1>4. IsFiniteSet(vers) /\ Cardinality(vers) <= Cardinality(Writers)
  <2> DEFINE f == [p \in Writers |-> jobs[p].ver]
  <2>1. f \in Surjection(Writers, vers)
    BY DEF Surjection
  <2> HIDE DEF f, vers
  <2> QED
    BY <1>2, <2>1, FS_Surjection
<1>5. IsFiniteSet(olds \cup vers) /\ Cardinality(olds \cup vers) <= 2 * Cardinality(Writers)
  <2>1. /\ IsFiniteSet(olds \cup vers)
        /\ Cardinality(olds \cup vers) = Cardinality(olds) + Cardinality(vers) - Cardinality(olds \cap vers)
    <3> HIDE DEF olds, vers
    <3> QED
      BY <1>3, <1>4, FS_Union
  <2>2. IsFiniteSet(olds \cap vers)
    <3> HIDE DEF olds, vers
    <3> QED
      BY <1>3, FS_Intersection
  <2>3. /\ Cardinality(olds) \in Nat /\ Cardinality(vers) \in Nat
        /\ Cardinality(olds \cap vers) \in Nat /\ Cardinality(Writers) \in Nat
    BY <1>2, <1>3, <1>4, <2>2, FS_CardinalityType
  <2> HIDE DEF olds, vers
  <2> QED
    BY <1>3, <1>4, <2>1, <2>3
<1>6. L \in SUBSET ((olds \cup vers) \cup {act})
  BY DEF Named
<1> HIDE DEF L, olds, vers
<1>7. /\ IsFiniteSet((olds \cup vers) \cup {act})
      /\ Cardinality((olds \cup vers) \cup {act}) <= 2 * Cardinality(Writers) + 1
  <2>1. /\ IsFiniteSet((olds \cup vers) \cup {act})
        /\ Cardinality((olds \cup vers) \cup {act})
             = IF act \in olds \cup vers THEN Cardinality(olds \cup vers) ELSE Cardinality(olds \cup vers) + 1
    BY <1>5, FS_AddElement
  <2>2. Cardinality(olds \cup vers) \in Nat /\ Cardinality(Writers) \in Nat
    BY <1>2, <1>5, FS_CardinalityType
  <2> QED
    BY <1>5, <2>1, <2>2
<1>8. IsFiniteSet(L) /\ Cardinality(L) <= Cardinality((olds \cup vers) \cup {act})
  BY <1>6, <1>7, FS_Subset
<1>9. /\ Cardinality(L) \in Nat /\ Cardinality((olds \cup vers) \cup {act}) \in Nat
      /\ Cardinality(Writers) \in Nat
  BY <1>2, <1>7, <1>8, FS_CardinalityType
<1>10. Cardinality(L) < Cardinality(Numbers)
  BY <1>7, <1>8, <1>9, NumbersBound
<1> QED
  BY <1>1, <1>8, <1>9, <1>10 DEF L

\* What a renumbering keeps, given the numbers, the sets and the jobs before it.
Renaming(rank, act, s, w, jobs) ==
    /\ rank[0] = 0 /\ active' = rank[act]
    /\ \A n \in Named(act, jobs) : /\ rank[n] \in Numbers
                                   /\ snap'[rank[n]] = s[n] /\ wrote'[rank[n]] = w[n]
    /\ \A m, n \in Named(act, jobs) \cup {0} : rank[m] = rank[n] => m = n
    /\ \A p \in Writers :
         /\ job'[p].old = rank[jobs[p].old] /\ job'[p].ver = rank[jobs[p].ver]
         /\ job'[p].pc = jobs[p].pc /\ job'[p].todo = jobs[p].todo /\ job'[p].last = jobs[p].last
         /\ job'[p].copy = jobs[p].copy /\ job'[p].loaded = jobs[p].loaded

\* Renumbering is a renaming, keeps the types and leaves no gap.
LEMMA Renumbering ==
  ASSUME NEW act \in Numbers \cup {0}, NEW jobs \in [Writers -> Jobs],
         NEW s \in [Numbers -> SUBSET Accounts], NEW w \in [Numbers -> SUBSET Accounts],
         Renumbered(act, s, w, jobs)
  PROVE  /\ \E rank : Renaming(rank, act, s, w, jobs)
         /\ active' \in Numbers \cup {0} /\ job' \in [Writers -> Jobs]
         /\ snap' \in [Numbers -> SUBSET Accounts] /\ wrote' \in [Numbers -> SUBSET Accounts]
         /\ Compact'
<1> DEFINE L == Named(act, jobs)
           k == Cardinality(L)
           rank == [n \in L \cup {0} |-> Cardinality({m \in L : m <= n})]
<1>1. L \subseteq Numbers /\ IsFiniteSet(L) /\ k \in Nat /\ k < Cardinality(Numbers)
  BY NamedBound
<1>2. \A n \in L : n \in Nat /\ n > 0
  BY <1>1 DEF Numbers
<1>3. /\ rank[0] = 0 /\ \A n \in L : rank[n] \in 1 .. k
      /\ \A m, n \in L \cup {0} : rank[m] = rank[n] => m = n
      /\ \A i \in 1 .. k : \E n \in L : rank[n] = i
  <2> HIDE DEF L
  <2> QED
    BY <1>1, <1>2, Ranks
<1>4. act \in L \cup {0} /\ \A p \in Writers : jobs[p].old \in L \cup {0} /\ jobs[p].ver \in L \cup {0}
  BY DEF Named
<1> DEFINE named(n) == CHOOSE m \in L : Cardinality({j \in L : j <= m}) = n
           kept(f) == [n \in Numbers |-> IF n > k THEN {} ELSE f[named(n)]]
<1>5. /\ active' = rank[act]
      /\ snap' = kept(s) /\ wrote' = kept(w)
      /\ job' = [p \in Writers |-> [jobs[p] EXCEPT !.old = rank[jobs[p].old], !.ver = rank[jobs[p].ver]]]
  <2>1. \A n \in L \cup {0} : Cardinality({m \in L : m <= n}) = rank[n]
    OBVIOUS
  <2>3. active' = rank[act]
    BY <1>4, <2>1 DEF Renumbered
  <2>4. snap' = kept(s) /\ wrote' = kept(w)
    BY DEF Renumbered
  <2>5. job' = [p \in Writers |-> [jobs[p] EXCEPT !.old = Cardinality({m \in L : m <= jobs[p].old}),
                                                  !.ver = Cardinality({m \in L : m <= jobs[p].ver})]]
    BY DEF Renumbered
  <2>6. \A p \in Writers : /\ Cardinality({m \in L : m <= jobs[p].old}) = rank[jobs[p].old]
                           /\ Cardinality({m \in L : m <= jobs[p].ver}) = rank[jobs[p].ver]
    BY <1>4, <2>1
  <2> HIDE DEF rank, kept, L
  <2> QED
    BY <2>3, <2>4, <2>5, <2>6
<1>14. \A n \in 1 .. k : named(n) \in L /\ rank[named(n)] = n
  <2> SUFFICES ASSUME NEW n \in 1 .. k PROVE named(n) \in L /\ rank[named(n)] = n
    OBVIOUS
  <2>1. \E m \in L : Cardinality({j \in L : j <= m}) = n
    BY <1>3
  <2>2. named(n) \in L /\ Cardinality({j \in L : j <= named(n)}) = n
    BY <2>1
  <2> QED
    BY <2>2
<1> HIDE DEF rank, k, named
<1>6. rank[act] \in Numbers \cup {0} /\ \A n \in L \cup {0} : rank[n] \in Numbers \cup {0}
  BY <1>1, <1>3, <1>4, NumbersBound
<1>7. ASSUME NEW f \in [Numbers -> SUBSET Accounts]
      PROVE  /\ kept(f) \in [Numbers -> SUBSET Accounts]
             /\ \A n \in L : rank[n] \in Numbers /\ kept(f)[rank[n]] = f[n]
             /\ \A n \in Numbers : n \notin 1 .. k => kept(f)[n] = {}
  <2>2. \A n \in Numbers : n \in Nat /\ n >= 1 /\ (n > k <=> n \notin 1 .. k)
    BY <1>1, NumbersBound
  <2>3. \A n \in Numbers : n \in 1 .. k => f[named(n)] \in SUBSET Accounts
    BY <1>1, <1>14
  <2>4. ASSUME NEW n \in L
        PROVE  rank[n] \in Numbers /\ rank[n] \in 1 .. k /\ named(rank[n]) = n
    <3> HIDE DEF L
    <3>1. rank[n] \in 1 .. k
      BY <1>3
    <3>2. named(rank[n]) \in L /\ rank[named(rank[n])] = rank[n]
      BY <1>14, <3>1
    <3>3. named(rank[n]) = n
      BY <1>3, <3>2
    <3> QED
      BY <1>1, <3>1, <3>3, NumbersBound
  <2> HIDE DEF L
  <2> QED
    BY <2>2, <2>3, <2>4
<1>8. /\ snap' \in [Numbers -> SUBSET Accounts] /\ wrote' \in [Numbers -> SUBSET Accounts]
      /\ active' \in Numbers \cup {0}
  BY <1>5, <1>6, <1>7
<1>9. ASSUME NEW p \in Writers
      PROVE  /\ job'[p] \in Jobs
             /\ job'[p].old = rank[jobs[p].old] /\ job'[p].ver = rank[jobs[p].ver]
             /\ job'[p].pc = jobs[p].pc /\ job'[p].todo = jobs[p].todo /\ job'[p].last = jobs[p].last
             /\ job'[p].copy = jobs[p].copy /\ job'[p].loaded = jobs[p].loaded
  <2>1. /\ job'[p] = [jobs[p] EXCEPT !.old = rank[jobs[p].old], !.ver = rank[jobs[p].ver]]
        /\ jobs[p] \in Jobs
    BY <1>5
  <2>2. rank[jobs[p].old] \in Numbers \cup {0} /\ rank[jobs[p].ver] \in Numbers \cup {0}
    BY <1>4, <1>6
  <2> DEFINE old == rank[jobs[p].old]
             ver == rank[jobs[p].ver]
  <2>3. /\ old \in Numbers \cup {0} /\ ver \in Numbers \cup {0}
        /\ job'[p] = [jobs[p] EXCEPT !.old = old, !.ver = ver]
    BY <2>1, <2>2
  <2> HIDE DEF old, ver
  <2>4. job'[p] \in Jobs
    BY <2>1, <2>3 DEF Jobs
  <2>5. /\ job'[p].old = old /\ job'[p].ver = ver
        /\ job'[p].pc = jobs[p].pc /\ job'[p].todo = jobs[p].todo /\ job'[p].last = jobs[p].last
        /\ job'[p].copy = jobs[p].copy /\ job'[p].loaded = jobs[p].loaded
    BY <2>1, <2>3 DEF Jobs
  <2> QED
    BY <2>4, <2>5 DEF old, ver
<1>10. job' \in [Writers -> Jobs]
  BY <1>5, <1>9
<1>11. Renaming(rank, act, s, w, jobs)
  <2>1. ASSUME NEW n \in L
        PROVE  rank[n] \in Numbers /\ snap'[rank[n]] = s[n] /\ wrote'[rank[n]] = w[n]
    <3>1. snap' = kept(s) /\ wrote' = kept(w)
      BY <1>5
    <3> HIDE DEF kept
    <3>2. rank[n] \in Numbers /\ kept(s)[rank[n]] = s[n]
      BY <1>7
    <3>3. kept(w)[rank[n]] = w[n]
      BY <1>7
    <3> QED
      BY <3>1, <3>2, <3>3
  <2>2. rank[0] = 0 /\ active' = rank[act] /\ \A m, n \in L \cup {0} : rank[m] = rank[n] => m = n
    BY <1>3, <1>5
  <2> HIDE DEF kept
  <2> QED
    BY <1>9, <2>1, <2>2 DEF Renaming, L
<1>12. Named(active, job)' = 1 .. k
  <2>0. \A i : i \in Named(active, job)' <=>
          i # 0 /\ (i = active' \/ \E p \in Writers : i = job'[p].old \/ i = job'[p].ver)
    BY DEF Named
  <2>1. ASSUME NEW i \in Named(active, job)' PROVE i \in 1 .. k
    <3> HIDE DEF L
    <3>0. \E n : n \in L \cup {0} /\ i = rank[n]
      <4>1. CASE i = active'
        BY <1>4, <1>5, <4>1
      <4>2. ASSUME NEW p \in Writers, i = job'[p].old \/ i = job'[p].ver PROVE \E n : n \in L \cup {0} /\ i = rank[n]
        BY <1>4, <1>9, <4>2
      <4> QED
        BY <2>0, <2>1, <4>1, <4>2
    <3>1. i # 0 /\ \E n \in L \cup {0} : i = rank[n]
      BY <2>0, <2>1, <3>0
    <3> QED
      BY <1>3, <3>1
  <2>2. ASSUME NEW i \in 1 .. k PROVE i \in Named(active, job)'
    <3>1. PICK n \in L : rank[n] = i
      BY <1>3
    <3>2. n = act \/ \E p \in Writers : n = jobs[p].old \/ n = jobs[p].ver
      BY DEF Named
    <3>3. i # 0
      BY <1>1
    <3>4. i = active' \/ \E p \in Writers : i = job'[p].old \/ i = job'[p].ver
      <4>1. CASE n = act
        BY <1>5, <3>1, <4>1
      <4>2. ASSUME NEW p \in Writers, n = jobs[p].old \/ n = jobs[p].ver
            PROVE  i = job'[p].old \/ i = job'[p].ver
        <5>1. job'[p].old = rank[jobs[p].old] /\ job'[p].ver = rank[jobs[p].ver]
          BY <1>9
        <5> QED
          BY <3>1, <4>2, <5>1
      <4> QED
        BY <3>2, <4>1, <4>2
    <3> QED
      BY <2>0, <3>3, <3>4
  <2> QED
    BY <2>1, <2>2
<1>13. Compact'
  <2>1. k \in 0 .. Cardinality(Numbers)
    BY <1>1, NumbersBound
  <2>2. \A n \in Numbers \ (1 .. k) : snap'[n] = {}
    BY <1>5, <1>7
  <2> QED
    BY <1>12, <2>1, <2>2 DEF Compact
<1> QED
  BY <1>8, <1>10, <1>11, <1>13

\* The invariant does not depend on the names of the numbers.
LEMMA RenamedNumbers ==
  ASSUME NEW act \in Numbers \cup {0}, NEW jobs \in [Writers -> Jobs],
         NEW s \in [Numbers -> SUBSET Accounts], NEW w \in [Numbers -> SUBSET Accounts],
         Renumbered(act, s, w, jobs), NumbersOK(act, s, w, jobs)
  PROVE  Numbered'
<1>1. Compact' /\ \E rank : Renaming(rank, act, s, w, jobs)
  BY Renumbering
<1>2. PICK rank : Renaming(rank, act, s, w, jobs)
  BY <1>1
<1> DEFINE L == Named(act, jobs)
<1>3. /\ act \in L \cup {0} /\ 0 \notin L
      /\ \A p \in Writers : jobs[p].old \in L \cup {0} /\ jobs[p].ver \in L \cup {0}
  BY DEF Named
<1>4. /\ rank[0] = 0 /\ active' = rank[act]
      /\ \A n \in L : snap'[rank[n]] = s[n] /\ wrote'[rank[n]] = w[n]
      /\ \A m, n \in L \cup {0} : rank[m] = rank[n] => m = n
      /\ \A p \in Writers : /\ job'[p].old = rank[jobs[p].old] /\ job'[p].ver = rank[jobs[p].ver]
                            /\ job'[p].pc = jobs[p].pc /\ job'[p].loaded = jobs[p].loaded
  BY <1>2 DEF Renaming
<1> HIDE DEF L
<1>5. active' # 0 => snap'[active'] = wrote'[active']
  BY <1>3, <1>4 DEF NumbersOK
<1>6. ASSUME NEW p \in Writers
      PROVE  /\ job'[p].pc \notin Taken \cup {"drop"} => job'[p].old = 0
             /\ job'[p].pc \notin Taken \cup {"read"} => job'[p].ver = 0
             /\ job'[p].pc = "drop" => job'[p].old \notin {0, active'}
             /\ job'[p].pc = "read" /\ job'[p].ver # 0 => snap'[job'[p].ver] \in {wrote'[job'[p].ver], {}}
  <2>1. /\ jobs[p].pc \notin Taken \cup {"drop"} => jobs[p].old = 0
        /\ jobs[p].pc \notin Taken \cup {"read"} => jobs[p].ver = 0
        /\ jobs[p].pc = "drop" => jobs[p].old \notin {0, act}
        /\ jobs[p].pc = "read" /\ jobs[p].ver # 0 => s[jobs[p].ver] \in {w[jobs[p].ver], {}}
    BY DEF NumbersOK
  <2>2. /\ job'[p].old = rank[jobs[p].old] /\ job'[p].ver = rank[jobs[p].ver] /\ job'[p].pc = jobs[p].pc
        /\ jobs[p].old \in L \cup {0} /\ jobs[p].ver \in L \cup {0}
    BY <1>3, <1>4
  <2>3. job'[p].pc = "drop" => job'[p].old \notin {0, active'}
    BY <1>3, <1>4, <2>1, <2>2
  <2>4. job'[p].pc = "read" /\ job'[p].ver # 0 => snap'[job'[p].ver] \in {wrote'[job'[p].ver], {}}
    <3>1. jobs[p].ver # 0 => jobs[p].ver \in L
      BY <2>2
    <3> QED
      BY <1>4, <2>1, <2>2, <3>1
  <2> QED
    BY <1>4, <2>1, <2>2, <2>3, <2>4
<1>7. ASSUME NEW p \in Writers, job'[p].pc \in Taken
      PROVE  IsFresh(active', snap', wrote', job', p)
  <2>1. IsFresh(act, s, w, jobs, p)
    BY <1>4, <1>7 DEF NumbersOK
  <2>2. /\ jobs[p].ver \in L /\ jobs[p].ver # act
        /\ s[jobs[p].ver] = {} /\ w[jobs[p].ver] = jobs[p].loaded
    BY <1>3, <2>1 DEF IsFresh
  <2>3. \A q \in Writers : jobs[q].old # jobs[p].ver /\ (q # p => jobs[q].ver # jobs[p].ver)
    BY <2>1 DEF IsFresh
  <2>4. \A q \in Writers : job'[q].old # job'[p].ver /\ (q # p => job'[q].ver # job'[p].ver)
    BY <1>3, <1>4, <2>3
  <2> QED
    BY <1>3, <1>4, <2>2, <2>4 DEF IsFresh
<1> QED
  BY <1>1, <1>5, <1>6, <1>7 DEF Numbered, NumbersOK

\* A step of a worker that takes, gives up and publishes no number.
Quiet(p) ==
    /\ UNCHANGED <<active, snap, wrote>>
    /\ \A q \in Writers \ {p} : job'[q] = job[q]
    /\ job'[p].old = job[p].old /\ job'[p].ver = job[p].ver
    /\ \/ {job[p].pc, job'[p].pc} \cap (Taken \cup {"drop", "read"}) = {}
       \/ job[p].pc = "accounts" /\ job'[p].pc = "publish" /\ job'[p].loaded = job[p].loaded

\* The names in use are what the pointer and the jobs carry.
LEMMA NamesKept ==
  ASSUME active' = active,
         \A q \in Writers : job'[q].old = job[q].old /\ job'[q].ver = job[q].ver
  PROVE  Named(active, job)' = Named(active, job)
BY DEF Named

\* A step that is quiet keeps what is said of the numbers.
LEMMA QuietNumbers ==
  ASSUME NEW p \in Writers, Quiet(p), Numbered
  PROVE  Numbered'
<1>1. \A q \in Writers : job'[q].old = job[q].old /\ job'[q].ver = job[q].ver
  BY DEF Quiet
<1>2. Compact'
  BY <1>1, NamesKept DEF Quiet, Numbered, Compact
<1>3. \A q \in Writers : /\ job'[q].pc \in Taken <=> job[q].pc \in Taken
                         /\ job'[q].pc = "drop" <=> job[q].pc = "drop"
                         /\ job'[q].pc = "read" <=> job[q].pc = "read"
                         /\ job'[q].pc \in Taken => job'[q].loaded = job[q].loaded
  BY DEF Quiet, Taken
<1>4. \A q \in Writers : IsFresh(active, snap, wrote, job, q) /\ job'[q].loaded = job[q].loaded
                          => IsFresh(active', snap', wrote', job', q)
  BY <1>1 DEF Quiet, IsFresh
<1>5. NumbersOK(active', snap', wrote', job')
  BY <1>1, <1>3, <1>4 DEF Numbered, NumbersOK, Quiet
<1> QED
  BY <1>2, <1>5 DEF Numbered

\* The next number is above every number in use, and there is room for it.
LEMMA NextIsNew ==
  ASSUME Compact, active \in Numbers \cup {0}, job \in [Writers -> Jobs]
  PROVE  /\ NextNumber \in Numbers /\ NextNumber \notin Named(active, job) /\ NextNumber # 0
         /\ \A k \in Nat : Named(active, job) = 1 .. k => NextNumber = k + 1
<1> DEFINE L == Named(active, job)
<1>1. PICK k \in 0 .. Cardinality(Numbers) : L = 1 .. k
  BY DEF Compact
<1>2. Cardinality(Numbers) \in Nat
  BY NumbersBound
<1>3. k \in Nat /\ Cardinality(L) = k
  BY <1>1, <1>2, FS_Interval
<1>4. k < Cardinality(Numbers)
  BY <1>3, NamedBound
<1>5. Max(L \cup {0}) = k
  <2> DEFINE S == L \cup {0}
  <2>1. S = 0 .. k
    BY <1>1, <1>3
  <2>2. IsFiniteSet(0 .. k)
    BY <1>3, FS_Interval
  <2>5. S # {} /\ \A x \in S : x \in Int
    BY <2>1
  <2> HIDE DEF S
  <2>3. Max(S) \in S /\ \A y \in S : Max(S) >= y
    BY <2>1, <2>2, <2>5, MinMax
  <2>4. Max(S) = k
    BY <1>3, <2>1, <2>3
  <2> QED
    BY <2>4 DEF S
<1>6. NextNumber = k + 1
  BY <1>5 DEF NextNumber
<1>7. k + 1 \in Numbers /\ k + 1 \notin L /\ k + 1 # 0
  BY <1>1, <1>2, <1>3, <1>4, NumbersBound
<1>8. \A i \in Nat : L = 1 .. i => i = k
  <2> SUFFICES ASSUME NEW i \in Nat, L = 1 .. i PROVE i = k
    OBVIOUS
  <2>1. Cardinality(L) = i
    BY FS_Interval
  <2> QED
    BY <1>3, <2>1
<1> QED
  BY <1>6, <1>7, <1>8

----------------------------------------------------------------------------
(* What the steps of a writer do to its job *)

Outside == Taken \cup {"drop", "read"}

\* Between its uses of the numbers a job carries none.
LEMMA NoNumbers ==
  ASSUME Numbered, NEW p \in Writers, job[p].pc \notin Outside
  PROVE  job[p].old = 0 /\ job[p].ver = 0
BY DEF Numbered, NumbersOK, Outside, Taken

\* A worker that goes on with the numbers it had keeps the invariant.
LEMMA JobMoves ==
  ASSUME Shape, Numbered, NEW p \in Writers, NEW q, GoodJob(q), job' = [job EXCEPT ![p] = q],
         UNCHANGED <<outbox, active, snap, wrote>>, q.old = job[p].old, q.ver = job[p].ver,
         \/ {job[p].pc, q.pc} \cap Outside = {}
         \/ job[p].pc = "accounts" /\ q.pc = "publish" /\ q.loaded = job[p].loaded
  PROVE  JobsOK' /\ Numbered'
<1>1. job \in [Writers -> Jobs] /\ q \in Jobs /\ \A r \in Writers : GoodJob(job[r])
  BY DEF Shape, JobsOK, GoodJob
<1>2. job'[p] = q /\ (\A r \in Writers \ {p} : job'[r] = job[r]) /\ job' \in [Writers -> Jobs]
  BY <1>1
<1>3. JobsOK'
  BY <1>1, <1>2 DEF JobsOK, GoodJob
<1>4. Quiet(p)
  BY <1>2 DEF Quiet, Outside
<1> QED
  BY <1>3, <1>4, QuietNumbers

\* After a renumbering the invariant holds if it did for the old names.
LEMMA JobsRenumbered ==
  ASSUME Shape, NEW p \in Writers, NEW q, GoodJob(q), UNCHANGED outbox,
         NEW act \in Numbers \cup {0}, NEW s \in [Numbers -> SUBSET Accounts],
         Renumbered(act, s, wrote, [job EXCEPT ![p] = q]),
         NumbersOK(act, s, wrote, [job EXCEPT ![p] = q])
  PROVE  /\ JobsOK' /\ Numbered' /\ active' \in Numbers \cup {0}
         /\ snap' \in [Numbers -> SUBSET Accounts] /\ wrote' \in [Numbers -> SUBSET Accounts]
<1> DEFINE jobs == [job EXCEPT ![p] = q]
<1>1. job \in [Writers -> Jobs] /\ q \in Jobs /\ wrote \in [Numbers -> SUBSET Accounts]
  BY DEF Shape, JobsOK, GoodJob, StoresOK
<1>2. jobs \in [Writers -> Jobs] /\ \A r \in Writers : GoodJob(jobs[r])
  BY <1>1 DEF Shape, JobsOK
<1>3. Renumbered(act, s, wrote, jobs) /\ NumbersOK(act, s, wrote, jobs)
  OBVIOUS
<1> HIDE DEF jobs
<1>4. /\ active' \in Numbers \cup {0} /\ job' \in [Writers -> Jobs]
      /\ snap' \in [Numbers -> SUBSET Accounts] /\ wrote' \in [Numbers -> SUBSET Accounts]
      /\ \E rank : Renaming(rank, act, s, wrote, jobs)
  BY <1>1, <1>2, <1>3, Renumbering
<1>5. Numbered'
  BY <1>1, <1>2, <1>3, RenamedNumbers
<1>6. \A r \in Writers : /\ job'[r].pc = jobs[r].pc /\ job'[r].todo = jobs[r].todo
                         /\ job'[r].last = jobs[r].last
  BY <1>4 DEF Renaming
<1>7. JobsOK'
  BY <1>2, <1>4, <1>6 DEF JobsOK, GoodJob
<1> QED
  BY <1>4, <1>5, <1>7

\* A writer that ends with its numbers, having removed the old set or not.
LEMMA JobLeaves ==
  ASSUME Shape, Numbered, NEW p \in Writers, NEW q, GoodJob(q), UNCHANGED outbox,
         q.old = 0, q.ver = 0, q.pc \notin Outside, NEW s,
         s = snap \/ (job[p].pc = "drop" /\ s = [snap EXCEPT ![job[p].old] = {}]),
         Renumbered(active, s, wrote, [job EXCEPT ![p] = q])
  PROVE  /\ JobsOK' /\ Numbered' /\ active' \in Numbers \cup {0}
         /\ snap' \in [Numbers -> SUBSET Accounts] /\ wrote' \in [Numbers -> SUBSET Accounts]
<1> DEFINE jobs == [job EXCEPT ![p] = q]
<1>1. /\ job \in [Writers -> Jobs] /\ active \in Numbers \cup {0}
      /\ snap \in [Numbers -> SUBSET Accounts] /\ NumbersOK(active, snap, wrote, job)
  BY DEF Shape, JobsOK, StoresOK, Numbered
<1>2. jobs[p] = q /\ \A r \in Writers \ {p} : jobs[r] = job[r]
  BY <1>1
<1>3. s \in [Numbers -> SUBSET Accounts] /\ (\A n \in Numbers : s[n] = snap[n] \/ s[n] = {})
      /\ (active # 0 => s[active] = snap[active])
  <2>1. job[p].pc = "drop" => job[p].old # active
    BY <1>1 DEF NumbersOK
  <2> QED
    BY <1>1, <2>1
<1>4. \A r \in Writers : job[r].ver \in Numbers \cup {0}
  BY <1>1 DEF Jobs
<1> HIDE DEF jobs
<1>5. ASSUME NEW r \in Writers
      PROVE  /\ jobs[r].pc \notin Taken \cup {"drop"} => jobs[r].old = 0
             /\ jobs[r].pc \notin Taken \cup {"read"} => jobs[r].ver = 0
             /\ jobs[r].pc = "drop" => jobs[r].old \notin {0, active}
             /\ jobs[r].pc = "read" /\ jobs[r].ver # 0 => s[jobs[r].ver] \in {wrote[jobs[r].ver], {}}
             /\ jobs[r].pc \in Taken => IsFresh(active, s, wrote, jobs, r)
  <2>1. CASE r = p
    BY <1>2, <2>1 DEF Outside
  <2>2. CASE r # p
    <3>1. /\ jobs[r] = job[r]
          /\ job[r].pc \notin Taken \cup {"drop"} => job[r].old = 0
          /\ job[r].pc \notin Taken \cup {"read"} => job[r].ver = 0
          /\ job[r].pc = "drop" => job[r].old \notin {0, active}
          /\ job[r].pc = "read" /\ job[r].ver # 0 => snap[job[r].ver] \in {wrote[job[r].ver], {}}
          /\ job[r].pc \in Taken => IsFresh(active, snap, wrote, job, r)
      BY <1>1, <1>2, <2>2 DEF NumbersOK
    <3>2. ASSUME job[r].pc \in Taken PROVE IsFresh(active, s, wrote, jobs, r)
      <4>1. /\ job[r].ver \in Numbers /\ s[job[r].ver] = {}
            /\ job[r].ver # active /\ wrote[job[r].ver] = job[r].loaded
        BY <1>3, <1>4, <3>1, <3>2 DEF IsFresh
      <4>2. \A u \in Writers : jobs[u].old # job[r].ver /\ (u # r => jobs[u].ver # job[r].ver)
        BY <1>2, <3>1, <3>2, <4>1 DEF IsFresh, Numbers
      <4>3. job[r].ver # 0
        BY <3>1, <3>2 DEF IsFresh
      <4> QED
        BY <3>1, <4>1, <4>2, <4>3 DEF IsFresh
    <3>3. job[r].pc = "read" /\ job[r].ver # 0 => s[job[r].ver] \in {wrote[job[r].ver], {}}
      BY <1>3, <1>4, <3>1
    <3> QED
      BY <3>1, <3>2, <3>3
  <2> QED
    BY <2>1, <2>2
<1>6. NumbersOK(active, s, wrote, jobs)
  BY <1>1, <1>3, <1>5 DEF NumbersOK
<1> QED
  BY <1>1, <1>3, <1>6, JobsRenumbered DEF jobs

\* The stores and the editors, as a step of a worker leaves them.
LEMMA EditorsStay ==
  ASSUME Shape, UNCHANGED <<outbox, edit, made>>
  PROVE  EventsOK' /\ EditsOK'
<1>1. Inserting' = Inserting
  BY DEF Inserting
<1> QED
  BY <1>1 DEF Shape, EventsOK, EditsOK, GoodEdit

\* The stores keep their types when each written one does.
LEMMA StoresStay ==
  ASSUME Shape, UNCHANGED <<db, outbox, made>>,
         faults' \in 0 .. MaxFaults, watermark' \in 0 .. Len(outbox), locked' \in BOOLEAN,
         cached' \in [Accounts -> Flags], active' \in Numbers \cup {0},
         snap' \in [Numbers -> SUBSET Accounts], wrote' \in [Numbers -> SUBSET Accounts]
  PROVE  StoresOK'
BY DEF Shape, StoresOK

\* A worker that has no job.
LEMMA NoJobGood ==
  /\ NoJob \in Jobs /\ NoJob.pc = "idle" /\ NoJob.todo = {} /\ NoJob.last = 0
  /\ NoJob.old = 0 /\ NoJob.ver = 0
BY DEF NoJob, Jobs, JobPcs, Flags

\* A worker that is done with a bucket carries no number.
LEMMA DoneGood ==
  ASSUME Shape, NEW p \in Writers
  PROVE  GoodJob(Done(p)) /\ Done(p).old = 0 /\ Done(p).ver = 0 /\ Done(p).pc \in {"idle", "next"}
<1>1. GoodJob(job[p]) /\ outbox \in Seq(EventRows)
  BY DEF Shape, JobsOK, EventsOK
<1>2. Len(outbox) \in Nat
  BY <1>1
<1>3. CASE job[p].last = 0
  BY <1>2, <1>3, NoJobGood DEF Done, GoodJob
<1>4. CASE job[p].last # 0
  <2>1. Done(p) = [NoJob EXCEPT !.todo = job[p].todo, !.last = job[p].last, !.pc = "next"]
    BY <1>4 DEF Done
  <2>2. /\ Done(p) \in Jobs /\ Done(p).pc = "next" /\ Done(p).todo = job[p].todo
        /\ Done(p).last = job[p].last /\ Done(p).old = 0 /\ Done(p).ver = 0
    BY <1>1, <2>1 DEF GoodJob, Jobs, JobPcs, NoJob, Flags
  <2> QED
    BY <1>1, <2>2 DEF GoodJob
<1> QED
  BY <1>3, <1>4

\* A poller takes the rows it has read in their order.
LEMMA FirstEvent ==
  ASSUME Shape, NEW p \in Writers, job[p].todo # {}
  PROVE  /\ Min(job[p].todo) \in job[p].todo /\ Event(p) \in EventRows
         /\ Event(p).kind # "full" => Event(p).acct \in Accounts
         /\ Event(p) = outbox[Min(job[p].todo)]
<1>1. /\ job[p].todo \subseteq DOMAIN outbox /\ outbox \in Seq(EventRows)
      /\ \A i \in DOMAIN outbox : outbox[i].kind # "full" => outbox[i].acct \in Accounts
  BY DEF Shape, JobsOK, GoodJob, EventsOK
<1>2. Len(outbox) \in Nat /\ DOMAIN outbox = 1 .. Len(outbox)
  BY <1>1
<1>3. IsFiniteSet(job[p].todo) /\ \A i \in job[p].todo : i \in Int
  <2>2. IsFiniteSet(1 .. Len(outbox))
    BY <1>2, UpTo
  <2>3. IsFiniteSet(job[p].todo)
    BY <1>1, <1>2, <2>2, FS_Subset
  <2> QED
    BY <1>1, <1>2, <2>3
<1>4. Min(job[p].todo) \in job[p].todo
  BY <1>3, MinMax
<1> QED
  BY <1>1, <1>2, <1>4 DEF Event

\* A worker that goes on, with the numbers it had.
Moved(p, q) ==
    /\ GoodJob(q) /\ job' = [job EXCEPT ![p] = q] /\ q.old = job[p].old /\ q.ver = job[p].ver
    /\ \/ {job[p].pc, q.pc} \cap Outside = {}
       \/ job[p].pc = "accounts" /\ q.pc = "publish" /\ q.loaded = job[p].loaded

\* A worker that goes on, and changes no snapshot, keeps the invariant.
LEMMA Moves ==
  ASSUME Shape, Numbered, NEW p \in Writers, NEW q, Moved(p, q),
         UNCHANGED <<db, outbox, made, faults, active, snap, wrote, edit>>,
         watermark' \in 0 .. Len(outbox), locked' \in BOOLEAN, cached' \in [Accounts -> Flags]
  PROVE  Shape' /\ Numbered'
<1>1. JobsOK' /\ Numbered'
  BY JobMoves DEF Moved
<1>2. EventsOK' /\ EditsOK'
  BY EditorsStay
<1>3. StoresOK'
  <2>1. StoresOK
    BY DEF Shape
  <2> QED
    BY <2>1, StoresStay DEF StoresOK
<1> QED
  BY <1>1, <1>2, <1>3 DEF Shape

----------------------------------------------------------------------------
(* The steps of a worker *)

\* The load of the database and the copy of its accounts.
LEMMA KeepsLoaded ==
  ASSUME Shape, Numbered, NEW p \in Writers, LoadAccounts(p) \/ WriteAccounts(p)
  PROVE  Shape' /\ Numbered'
<1>0. /\ job \in [Writers -> Jobs] /\ GoodJob(job[p]) /\ StoresOK
  BY DEF Shape, JobsOK
<1>1. CASE LoadAccounts(p)
  <2> DEFINE q == [job[p] EXCEPT !.pc = "version", !.loaded = Schedulable]
  <2>1. job' = [job EXCEPT ![p] = q] /\ job[p].pc = "load"
    BY <1>0, <1>1 DEF LoadAccounts
  <2>2. /\ q \in Jobs /\ q.pc = "version" /\ q.todo = job[p].todo /\ q.last = job[p].last
        /\ q.old = job[p].old /\ q.ver = job[p].ver
    BY <1>0 DEF GoodJob, Jobs, JobPcs, Schedulable
  <2> HIDE DEF q
  <2>3. Moved(p, q)
    BY <1>0, <2>1, <2>2 DEF Moved, GoodJob, Outside, Taken
  <2>4. /\ UNCHANGED <<db, outbox, made, faults, active, snap, wrote, edit>>
        /\ watermark' \in 0 .. Len(outbox) /\ locked' \in BOOLEAN /\ cached' \in [Accounts -> Flags]
    BY <1>0, <1>1 DEF LoadAccounts, redis, StoresOK
  <2> QED
    BY <2>3, <2>4, Moves
<1>2. CASE WriteAccounts(p)
  <2> DEFINE q == [job[p] EXCEPT !.pc = "publish"]
  <2>1. job' = [job EXCEPT ![p] = q] /\ job[p].pc = "accounts"
    BY <1>0, <1>2 DEF WriteAccounts, To
  <2>2. /\ q \in Jobs /\ q.pc = "publish" /\ q.todo = job[p].todo /\ q.last = job[p].last
        /\ q.old = job[p].old /\ q.ver = job[p].ver /\ q.loaded = job[p].loaded
    BY <1>0 DEF GoodJob, Jobs, JobPcs
  <2> HIDE DEF q
  <2>3. Moved(p, q)
    BY <1>0, <2>1, <2>2 DEF Moved, GoodJob
  <2>4. /\ UNCHANGED <<db, outbox, made, faults, active, snap, wrote, edit>>
        /\ watermark' \in 0 .. Len(outbox) /\ locked' \in BOOLEAN /\ cached' \in [Accounts -> Flags]
    BY <1>0, <1>2 DEF WriteAccounts, StoresOK, Flags
  <2> QED
    BY <2>3, <2>4, Moves
<1> QED
  BY <1>1, <1>2

\* The lock of the bucket and the ticks of the full rebuild.
LEMMA KeepsStart ==
  ASSUME Shape, Numbered, NEW p \in Writers, TryLock(p) \/ FullRebuild(p)
  PROVE  Shape' /\ Numbered'
<1>0. /\ job \in [Writers -> Jobs] /\ GoodJob(job[p]) /\ StoresOK
  BY DEF Shape, JobsOK
<1>1. CASE TryLock(p) /\ locked
  <2>1. /\ job' = [job EXCEPT ![p] = Done(p)] /\ job[p].pc = "lock"
        /\ UNCHANGED <<db, outbox, made, faults, active, snap, wrote, edit>>
        /\ watermark' \in 0 .. Len(outbox) /\ locked' \in BOOLEAN /\ cached' \in [Accounts -> Flags]
    BY <1>0, <1>1 DEF TryLock, Finish, StoresOK
  <2>2. job[p].old = 0 /\ job[p].ver = 0
    BY <2>1, NoNumbers DEF Outside, Taken
  <2>3. Moved(p, Done(p))
    BY <2>1, <2>2, DoneGood DEF Moved, Outside, Taken
  <2> QED
    BY <2>1, <2>3, Moves
<1>2. CASE (TryLock(p) /\ ~locked) \/ FullRebuild(p)
  <2>0. PICK pc \in {"load", "lock"} : job' = [job EXCEPT ![p].pc = pc]
    BY <1>2 DEF TryLock, FullRebuild, To
  <2> DEFINE q == [job[p] EXCEPT !.pc = pc]
  <2>1. job' = [job EXCEPT ![p] = q] /\ job[p].pc \in {"lock", "idle"}
    BY <1>0, <1>2, <2>0 DEF TryLock, FullRebuild
  <2>2. /\ q \in Jobs /\ q.pc \in {"load", "lock"} /\ q.todo = job[p].todo /\ q.last = job[p].last
        /\ q.old = job[p].old /\ q.ver = job[p].ver
    BY <1>0 DEF GoodJob, Jobs, JobPcs
  <2> HIDE DEF q
  <2>3. Moved(p, q)
    BY <1>0, <2>1, <2>2 DEF Moved, GoodJob, Outside, Taken
  <2>4. /\ UNCHANGED <<db, outbox, made, faults, active, snap, wrote, edit>>
        /\ watermark' \in 0 .. Len(outbox) /\ locked' \in BOOLEAN /\ cached' \in [Accounts -> Flags]
    BY <1>0, <1>2 DEF TryLock, FullRebuild, redis, StoresOK
  <2> QED
    BY <2>3, <2>4, Moves
<1> QED
  BY <1>1, <1>2 DEF TryLock

\* The read of the outbox and the write of the watermark.
LEMMA KeepsPoll ==
  ASSUME Shape, Numbered, NEW p \in Writers, Poll(p) \/ SetWatermark(p)
  PROVE  Shape' /\ Numbered'
<1>0. /\ job \in [Writers -> Jobs] /\ GoodJob(job[p]) /\ StoresOK /\ outbox \in Seq(EventRows)
  BY DEF Shape, JobsOK, EventsOK
<1>00. Len(outbox) \in Nat /\ DOMAIN outbox = 1 .. Len(outbox)
  BY <1>0
<1>1. CASE Poll(p)
  <2> DEFINE later == {i \in Visible : i > watermark}
             last == Max(later)
             q == [NoJob EXCEPT !.pc = "next", !.todo = later, !.last = last]
  <2>1. job' = [job EXCEPT ![p] = q] /\ job[p].pc = "idle" /\ later # {}
    BY <1>1 DEF Poll
  <2>2. later \subseteq 1 .. Len(outbox)
    BY <1>00 DEF Visible
  <2>3. last \in 1 .. Len(outbox)
    <3>1. IsFiniteSet(1 .. Len(outbox))
      BY <1>00, UpTo
    <3> HIDE DEF later
    <3>2. IsFiniteSet(later)
      BY <2>2, <3>1, FS_Subset
    <3>4. \A x \in later : x \in Int
      BY <1>00, <2>2
    <3>3. Max(later) \in later
      BY <2>1, <3>2, <3>4, MinMax
    <3> QED
      BY <2>2, <3>3
  <2> HIDE DEF later, last
  <2>4. q \in Jobs /\ q.pc = "next" /\ q.todo = later /\ q.last = last /\ q.old = 0 /\ q.ver = 0
    <3>1. later \in SUBSET Nat /\ last \in Nat
      BY <1>00, <2>2, <2>3
    <3> QED
      BY <3>1, NoJobGood DEF Jobs, JobPcs, NoJob
  <2> HIDE DEF q
  <2>5. job[p].old = 0 /\ job[p].ver = 0
    BY <2>1, NoNumbers DEF Outside, Taken
  <2>6. Moved(p, q)
    BY <1>00, <2>1, <2>2, <2>3, <2>4, <2>5 DEF Moved, GoodJob, Outside, Taken
  <2>7. /\ UNCHANGED <<db, outbox, made, faults, active, snap, wrote, edit>>
        /\ watermark' \in 0 .. Len(outbox) /\ locked' \in BOOLEAN /\ cached' \in [Accounts -> Flags]
    BY <1>0, <1>1 DEF Poll, redis, StoresOK
  <2> QED
    BY <2>6, <2>7, Moves
<1>2. CASE SetWatermark(p)
  <2>0. PICK pc \in {"idle", "lock"} : job' = [job EXCEPT ![p] = [NoJob EXCEPT !.pc = pc]]
    BY <1>2 DEF SetWatermark
  <2> DEFINE q == [NoJob EXCEPT !.pc = pc]
  <2>1. job' = [job EXCEPT ![p] = q] /\ job[p].pc = "next"
    BY <1>2, <2>0 DEF SetWatermark
  <2>2. /\ q \in Jobs /\ q.pc \in {"idle", "lock"} /\ q.todo = {} /\ q.last = 0
        /\ q.old = 0 /\ q.ver = 0
    BY NoJobGood DEF Jobs, JobPcs, NoJob
  <2> HIDE DEF q
  <2>3. job[p].old = 0 /\ job[p].ver = 0
    BY <2>1, NoNumbers DEF Outside, Taken
  <2>4. Moved(p, q)
    BY <1>00, <2>1, <2>2, <2>3 DEF Moved, GoodJob, Outside, Taken
  <2>5. job[p].last \in 0 .. Len(outbox)
    BY <1>0, <1>00 DEF GoodJob, Jobs
  <2>6. /\ UNCHANGED <<db, outbox, made, faults, active, snap, wrote, edit>>
        /\ watermark' \in 0 .. Len(outbox) /\ locked' \in BOOLEAN /\ cached' \in [Accounts -> Flags]
    BY <1>0, <1>2, <2>5 DEF SetWatermark, StoresOK
  <2> QED
    BY <2>4, <2>6, Moves
<1> QED
  BY <1>1, <1>2

\* An event is handed to the handler of its kind.
LEMMA KeepsHandle ==
  ASSUME Shape, Numbered, NEW p \in Writers, Handle(p)
  PROVE  Shape' /\ Numbered'
<1> DEFINE pc == CASE Event(p).kind = "changed" -> "set" [] Event(p).kind = "used" -> "used"
                   [] OTHER -> "lock"
           copy == CASE Event(p).kind = "changed" -> db[Event(p).acct]
                     [] Event(p).kind = "used" -> cached[Event(p).acct] [] OTHER -> None
           todo == IF Event(p).kind = "full" THEN job[p].todo \ {Min(job[p].todo)} ELSE job[p].todo
           q == [job[p] EXCEPT !.pc = pc, !.copy = copy, !.todo = todo]
<1>0. /\ job \in [Writers -> Jobs] /\ GoodJob(job[p]) /\ StoresOK /\ job[p].pc = "next" /\ job[p].todo # {}
  BY DEF Shape, JobsOK, Handle
<1>1. job' = [job EXCEPT ![p] = q]
  BY <1>0 DEF Handle
<1>2. /\ Event(p) \in EventRows /\ (Event(p).kind # "full" => Event(p).acct \in Accounts)
      /\ Event(p) = outbox[Min(job[p].todo)]
  BY <1>0, FirstEvent
<1>3. copy \in Flags /\ todo \subseteq job[p].todo /\ pc \in {"set", "used", "lock"}
  BY <1>0, <1>2 DEF StoresOK, Flags, EventRows, EventKinds
<1>4. /\ pc = "set" => Event(p).kind = "changed" /\ todo = job[p].todo
      /\ pc = "used" => Event(p).kind = "used" /\ todo = job[p].todo
  OBVIOUS
<1> HIDE DEF pc, copy, todo
<1>5. /\ q \in Jobs /\ q.pc = pc /\ q.todo = todo /\ q.last = job[p].last
      /\ q.old = job[p].old /\ q.ver = job[p].ver
  BY <1>0, <1>3 DEF GoodJob, Jobs, JobPcs
<1> HIDE DEF q
<1>6. GoodJob(q)
  BY <1>0, <1>2, <1>3, <1>4, <1>5 DEF GoodJob
<1>7. Moved(p, q)
  BY <1>0, <1>1, <1>3, <1>5, <1>6 DEF Moved, Outside, Taken
<1>8. /\ UNCHANGED <<db, outbox, made, faults, active, snap, wrote, edit>>
      /\ watermark' \in 0 .. Len(outbox) /\ locked' \in BOOLEAN /\ cached' \in [Accounts -> Flags]
  BY <1>0 DEF Handle, redis, StoresOK
<1> QED
  BY <1>7, <1>8, Moves

\* The handlers that copy an account to Redis.
LEMMA KeepsCopy ==
  ASSUME Shape, Numbered, NEW p \in Writers, SetAccount(p) \/ UpdateLastUsed(p)
  PROVE  Shape' /\ Numbered'
<1>0. /\ job \in [Writers -> Jobs] /\ GoodJob(job[p]) /\ StoresOK /\ job[p].pc \in {"set", "used"}
  BY DEF Shape, JobsOK, SetAccount, UpdateLastUsed
<1>1. job[p].todo # {} /\ outbox[Min(job[p].todo)].kind # "full"
  BY <1>0 DEF GoodJob
<1>2. Event(p).acct \in Accounts /\ job[p].copy \in Flags
  BY <1>0, <1>1, FirstEvent DEF GoodJob, Jobs
<1>3. PICK pc \in {"lock", "next"} :
        job' = [job EXCEPT ![p].pc = pc, ![p].todo = @ \ {Min(@)}]
  BY DEF SetAccount, UpdateLastUsed
<1> DEFINE todo == job[p].todo \ {Min(job[p].todo)}
           q == [job[p] EXCEPT !.pc = pc, !.todo = todo]
<1>4. job' = [job EXCEPT ![p] = q]
  BY <1>0, <1>3
<1>5. todo \subseteq job[p].todo
  OBVIOUS
<1> HIDE DEF todo
<1>6. /\ q \in Jobs /\ q.pc = pc /\ q.todo = todo /\ q.last = job[p].last
      /\ q.old = job[p].old /\ q.ver = job[p].ver
  BY <1>0, <1>5 DEF GoodJob, Jobs, JobPcs
<1> HIDE DEF q
<1>7. Moved(p, q)
  BY <1>0, <1>4, <1>5, <1>6 DEF Moved, GoodJob, Outside, Taken
<1>8. /\ UNCHANGED <<db, outbox, made, faults, active, snap, wrote, edit>>
      /\ watermark' \in 0 .. Len(outbox) /\ locked' \in BOOLEAN /\ cached' \in [Accounts -> Flags]
  BY <1>0, <1>2 DEF SetAccount, UpdateLastUsed, StoresOK
<1> QED
  BY <1>7, <1>8, Moves

\* A worker that gives its numbers back.
LEMMA KeepsLeave ==
  ASSUME Shape, Numbered, NEW p \in Writers, JobFails(p) \/ ReadSnapshot(p) \/ DropOld(p)
  PROVE  Shape' /\ Numbered'
<1>0. job \in [Writers -> Jobs] /\ StoresOK
  BY DEF Shape, JobsOK
<1> DEFINE load == [NoJob EXCEPT !.pc = "load"]
           Left(q) == GoodJob(q) /\ q.old = 0 /\ q.ver = 0 /\ q.pc \notin Outside
<1>1. Left(Done(p)) /\ Left(NoJob) /\ Left(load)
  <2>1. Left(Done(p))
    BY DoneGood DEF Outside, Taken
  <2>2. Len(outbox) \in Nat
    BY DEF Shape, EventsOK
  <2>3. Left(NoJob)
    BY <2>2, NoJobGood DEF GoodJob, Outside, Taken
  <2>4. load \in Jobs /\ load.pc = "load" /\ load.todo = {} /\ load.last = 0 /\ load.old = 0 /\ load.ver = 0
    BY NoJobGood DEF Jobs, JobPcs, NoJob
  <2>5. Left(load)
    BY <2>2, <2>4 DEF GoodJob, Outside, Taken
  <2> QED
    BY <2>1, <2>3, <2>5
<1>2. \E q, s : /\ Left(q) /\ Renumbered(active, s, wrote, [job EXCEPT ![p] = q])
                /\ s = snap \/ (job[p].pc = "drop" /\ s = [snap EXCEPT ![job[p].old] = {}])
  <2> HIDE DEF Left, load
  <2>1. CASE JobFails(p)
    <3> DEFINE q == CASE job[p].pc = "drop" -> Done(p) [] job[p].pc = "read" -> load [] OTHER -> NoJob
    <3>1. [job EXCEPT ![p] = CASE @.pc = "drop" -> Done(p) [] @.pc = "read" -> [NoJob EXCEPT !.pc = "load"]
                               [] OTHER -> NoJob] = [job EXCEPT ![p] = q]
      BY <1>0 DEF load
    <3>2. Renumbered(active, snap, wrote, [job EXCEPT ![p] = q])
      BY <2>1, <3>1 DEF JobFails
    <3>3. Left(q)
      BY <1>1
    <3> QED
      BY <3>2, <3>3
  <2>2. CASE ReadSnapshot(p)
    <3> DEFINE q == IF Hit(job[p].ver) THEN NoJob ELSE load
    <3>1. [job EXCEPT ![p] = IF Hit(@.ver) THEN NoJob ELSE [NoJob EXCEPT !.pc = "load"]] = [job EXCEPT ![p] = q]
      BY <1>0 DEF load
    <3>2. Renumbered(active, snap, wrote, [job EXCEPT ![p] = q])
      BY <2>2, <3>1 DEF ReadSnapshot
    <3>3. Left(q)
      BY <1>1
    <3> QED
      BY <3>2, <3>3
  <2>3. CASE DropOld(p)
    BY <1>1, <2>3 DEF DropOld, Outdated
  <2> QED
    BY <2>1, <2>2, <2>3
<1>3. /\ UNCHANGED <<db, outbox, made, edit>> /\ faults' \in 0 .. MaxFaults
      /\ watermark' \in 0 .. Len(outbox) /\ locked' \in BOOLEAN /\ cached' \in [Accounts -> Flags]
  BY <1>0, SchedulerAssumption DEF JobFails, ReadSnapshot, DropOld, StoresOK
<1>4. /\ JobsOK' /\ Numbered' /\ active' \in Numbers \cup {0}
      /\ snap' \in [Numbers -> SUBSET Accounts] /\ wrote' \in [Numbers -> SUBSET Accounts]
  BY <1>2, <1>3, JobLeaves
<1>5. EventsOK' /\ EditsOK' /\ StoresOK'
  BY <1>3, <1>4, EditorsStay, StoresStay
<1> QED
  BY <1>4, <1>5 DEF Shape

\* A request holds the number it reads by: the pointer's.
LEMMA KeepsRead ==
  ASSUME Shape, Numbered, NEW p \in Writers, ReadActive(p)
  PROVE  Shape' /\ Numbered'
<1>0. /\ job \in [Writers -> Jobs] /\ GoodJob(job[p]) /\ StoresOK /\ job[p].pc = "idle"
      /\ \A r \in Writers : GoodJob(job[r])
  BY DEF Shape, JobsOK, ReadActive
<1>1. job[p].old = 0 /\ job[p].ver = 0
  BY <1>0, NoNumbers DEF Outside, Taken
<1> DEFINE q == [job[p] EXCEPT !.pc = "read", !.ver = active]
<1>2. /\ job' = [job EXCEPT ![p] = q] /\ UNCHANGED <<db, outbox, made, faults, redis, edit>>
  BY <1>0 DEF ReadActive
<1>3. /\ q \in Jobs /\ q.pc = "read" /\ q.todo = job[p].todo /\ q.last = job[p].last
      /\ q.old = 0 /\ q.ver = active
  BY <1>0, <1>1 DEF GoodJob, Jobs, JobPcs, StoresOK
<1> HIDE DEF q
<1>4. /\ job' \in [Writers -> Jobs] /\ job'[p] = q /\ \A r \in Writers \ {p} : job'[r] = job[r]
  BY <1>0, <1>2, <1>3
<1>5. JobsOK'
  BY <1>0, <1>2, <1>3, <1>4 DEF JobsOK, GoodJob
<1>6. Named(active, job)' = Named(active, job)
  <2>1. Named(active, job) = ({active} \cup {job[r].old : r \in Writers} \cup {job[r].ver : r \in Writers}) \ {0}
    BY DEF Named
  <2>2. Named(active, job)' = ({active} \cup {job'[r].old : r \in Writers} \cup {job'[r].ver : r \in Writers}) \ {0}
    BY <1>2 DEF Named, redis
  <2>3. ASSUME NEW n, n \in Named(active, job) PROVE n \in Named(active, job)'
    BY <1>1, <1>3, <1>4, <2>1, <2>2, <2>3
  <2>4. ASSUME NEW n, n \in Named(active, job)' PROVE n \in Named(active, job)
    BY <1>1, <1>3, <1>4, <2>1, <2>2, <2>4
  <2> QED
    BY <2>3, <2>4
<1>7. Compact'
  BY <1>2, <1>6 DEF Numbered, Compact, redis
<1>8. UNCHANGED <<active, snap, wrote>> /\ NumbersOK(active, snap, wrote, job)
  BY <1>2 DEF redis, Numbered
<1>9. ASSUME NEW r \in Writers, job'[r].pc \in Taken PROVE IsFresh(active', snap', wrote', job', r)
  <2>1. r # p /\ job'[r] = job[r]
    BY <1>3, <1>4, <1>9 DEF Taken
  <2>2. IsFresh(active, snap, wrote, job, r)
    BY <1>8, <1>9, <2>1 DEF NumbersOK
  <2>3. \A u \in Writers : job'[u].old # job[r].ver /\ (u # r => job'[u].ver # job[r].ver)
    BY <1>3, <1>4, <2>2 DEF IsFresh
  <2> QED
    BY <1>8, <2>1, <2>2, <2>3 DEF IsFresh
<1>10. ASSUME NEW r \in Writers
       PROVE  /\ job'[r].pc \notin Taken \cup {"drop"} => job'[r].old = 0
              /\ job'[r].pc \notin Taken \cup {"read"} => job'[r].ver = 0
              /\ job'[r].pc = "drop" => job'[r].old \notin {0, active}
              /\ job'[r].pc = "read" /\ job'[r].ver # 0 => snap[job'[r].ver] \in {wrote[job'[r].ver], {}}
  BY <1>3, <1>4, <1>8 DEF NumbersOK
<1>11. Numbered'
  BY <1>7, <1>8, <1>9, <1>10 DEF Numbered, NumbersOK
<1>12. EventsOK' /\ EditsOK' /\ StoresOK'
  BY <1>0, <1>2, EditorsStay, StoresStay DEF redis, StoresOK
<1> QED
  BY <1>5, <1>11, <1>12 DEF Shape

\* INCR: the number is nobody's, and its set is empty.
LEMMA KeepsTake ==
  ASSUME Shape, Numbered, NEW p \in Writers, TakeNumber(p)
  PROVE  Shape' /\ Numbered'
<1>0. /\ job \in [Writers -> Jobs] /\ GoodJob(job[p]) /\ StoresOK /\ job[p].pc = "version"
      /\ \A r \in Writers : GoodJob(job[r])
  BY DEF Shape, JobsOK, TakeNumber
<1>1. job[p].old = 0 /\ job[p].ver = 0
  BY <1>0, NoNumbers DEF Outside, Taken
<1> DEFINE n == NextNumber
           q == [job[p] EXCEPT !.pc = "accounts", !.old = active, !.ver = n]
<1>2. /\ n \in Numbers /\ n \notin Named(active, job) /\ n # 0
      /\ \A k \in Nat : Named(active, job) = 1 .. k => n = k + 1
  BY <1>0, NextIsNew DEF Numbered, StoresOK
<1>3. /\ job' = [job EXCEPT ![p] = q] /\ wrote' = [wrote EXCEPT ![n] = job[p].loaded]
      /\ UNCHANGED <<db, outbox, made, faults, watermark, locked, active, snap, cached, edit>>
  BY <1>0 DEF TakeNumber
<1> HIDE DEF n
<1>4. /\ q \in Jobs /\ q.pc = "accounts" /\ q.todo = job[p].todo /\ q.last = job[p].last
      /\ q.loaded = job[p].loaded /\ q.old = active /\ q.ver = n
  BY <1>0, <1>2 DEF GoodJob, Jobs, JobPcs, StoresOK
<1> HIDE DEF q
<1>5. /\ job' \in [Writers -> Jobs] /\ job'[p] = q /\ \A r \in Writers \ {p} : job'[r] = job[r]
  BY <1>0, <1>3, <1>4
<1>6. JobsOK'
  BY <1>0, <1>3, <1>4, <1>5 DEF JobsOK, GoodJob
<1>7. n # active /\ \A r \in Writers : n # job[r].old /\ n # job[r].ver
  BY <1>2 DEF Named
<1>8. Named(active, job)' = Named(active, job) \cup {n}
  <2>1. Named(active, job) = ({active} \cup {job[r].old : r \in Writers} \cup {job[r].ver : r \in Writers}) \ {0}
    BY DEF Named
  <2>2. Named(active, job)' = ({active} \cup {job'[r].old : r \in Writers} \cup {job'[r].ver : r \in Writers}) \ {0}
    BY <1>3 DEF Named
  <2>3. ASSUME NEW m, m \in Named(active, job) \cup {n} PROVE m \in Named(active, job)'
    BY <1>1, <1>2, <1>4, <1>5, <2>1, <2>2, <2>3
  <2>4. ASSUME NEW m, m \in Named(active, job)' PROVE m \in Named(active, job) \cup {n}
    BY <1>1, <1>4, <1>5, <2>1, <2>2, <2>4
  <2> QED
    BY <2>3, <2>4
<1>9. Compact' /\ snap[n] = {}
  <2>1. PICK k \in 0 .. Cardinality(Numbers) : Named(active, job) = 1 .. k
    BY DEF Numbered, Compact
  <2>2. Cardinality(Numbers) \in Nat /\ Numbers = 1 .. Cardinality(Numbers)
    BY NumbersBound
  <2>3. k \in Nat /\ n = k + 1 /\ k + 1 \in 0 .. Cardinality(Numbers)
    BY <1>2, <2>1, <2>2
  <2>4. Named(active, job)' = 1 .. (k + 1)
    BY <1>8, <2>1, <2>3
  <2>5. \A m \in Numbers \ Named(active, job) : snap[m] = {}
    BY DEF Numbered, Compact
  <2>6. \A m \in Numbers \ Named(active, job)' : snap'[m] = {}
    BY <1>3, <1>8, <2>5
  <2> QED
    BY <1>2, <2>3, <2>4, <2>5, <2>6 DEF Compact
<1>10. /\ wrote' \in [Numbers -> SUBSET Accounts] /\ wrote'[n] = job[p].loaded
       /\ \A m \in Numbers \ {n} : wrote'[m] = wrote[m]
  BY <1>0, <1>2, <1>3 DEF StoresOK, GoodJob, Jobs
<1>11. /\ NumbersOK(active, snap, wrote, job) /\ active \in Numbers \cup {0}
       /\ \A r \in Writers : job[r].ver \in Numbers \cup {0}
  BY <1>0 DEF Numbered, StoresOK, Jobs
<1>12. ASSUME NEW r \in Writers, job'[r].pc \in Taken PROVE IsFresh(active', snap', wrote', job', r)
  <2>1. CASE r = p
    <3>1. \A u \in Writers : job'[u].old # n /\ (u # p => job'[u].ver # n)
      BY <1>4, <1>5, <1>7
    <3> QED
      BY <1>2, <1>3, <1>4, <1>5, <1>7, <1>9, <1>10, <2>1, <3>1 DEF IsFresh
  <2>2. CASE r # p
    <3>1. job'[r] = job[r] /\ IsFresh(active, snap, wrote, job, r)
      BY <1>5, <1>11, <1>12, <2>2 DEF NumbersOK
    <3>2. job[r].ver \in Numbers \ {n}
      BY <1>7, <1>11, <3>1 DEF IsFresh
    <3>3. \A u \in Writers : job'[u].old # job[r].ver /\ (u # r => job'[u].ver # job[r].ver)
      BY <1>4, <1>5, <1>7, <3>1 DEF IsFresh
    <3> QED
      BY <1>3, <1>10, <3>1, <3>2, <3>3 DEF IsFresh
  <2> QED
    BY <2>1, <2>2
<1>13. ASSUME NEW r \in Writers
       PROVE  /\ job'[r].pc \notin Taken \cup {"drop"} => job'[r].old = 0
              /\ job'[r].pc \notin Taken \cup {"read"} => job'[r].ver = 0
              /\ job'[r].pc = "drop" => job'[r].old \notin {0, active}
              /\ job'[r].pc = "read" /\ job'[r].ver # 0 => snap[job'[r].ver] \in {wrote'[job'[r].ver], {}}
  <2>1. CASE r = p
    BY <1>4, <1>5, <2>1 DEF Taken
  <2>2. CASE r # p
    <3>1. job'[r] = job[r]
      BY <1>5, <2>2
    <3> QED
      BY <1>7, <1>10, <1>11, <3>1 DEF NumbersOK
  <2> QED
    BY <2>1, <2>2
<1>14. active # 0 => snap[active] = wrote'[active]
  BY <1>7, <1>10, <1>11 DEF NumbersOK
<1>15. Numbered'
  BY <1>3, <1>9, <1>12, <1>13, <1>14 DEF Numbered, NumbersOK
<1>16. EventsOK' /\ EditsOK' /\ StoresOK'
  BY <1>0, <1>3, <1>10, EditorsStay, StoresStay DEF StoresOK
<1> QED
  BY <1>6, <1>15, <1>16 DEF Shape

\* The pointer moves to a set that is what its writer has loaded.
LEMMA KeepsPublish ==
  ASSUME Shape, Numbered, NEW p \in Writers, Publish(p)
  PROVE  Shape' /\ Numbered'
<1> DEFINE n == job[p].ver
           s == Published(snap, p)
           drop == [job[p] EXCEPT !.pc = "drop", !.ver = 0, !.loaded = {}]
           q == IF job[p].old = 0 THEN Done(p) ELSE drop
           jobs == [job EXCEPT ![p] = q]
<1>0. /\ job \in [Writers -> Jobs] /\ GoodJob(job[p]) /\ StoresOK /\ job[p].pc = "publish"
      /\ NumbersOK(active, snap, wrote, job)
  BY DEF Shape, JobsOK, Publish, Numbered
<1>1. IsFresh(active, snap, wrote, job, p)
  BY <1>0 DEF NumbersOK, Taken
<1>2. /\ n \in Numbers /\ n # 0 /\ snap[n] = {} /\ wrote[n] = job[p].loaded
      /\ \A r \in Writers : job[r].old # n /\ (r # p => job[r].ver # n)
  BY <1>0, <1>1 DEF IsFresh, Jobs
<1>3. /\ s \in [Numbers -> SUBSET Accounts] /\ s[n] = wrote[n]
      /\ \A m \in Numbers \ {n} : s[m] = snap[m]
  BY <1>0, <1>2 DEF Published, StoresOK, GoodJob, Jobs
<1>4. GoodJob(drop) /\ drop.pc = "drop" /\ drop.old = job[p].old /\ drop.ver = 0
  <2>1. /\ drop \in Jobs /\ drop.pc = "drop" /\ drop.todo = job[p].todo /\ drop.last = job[p].last
        /\ drop.old = job[p].old /\ drop.ver = 0
    BY <1>0 DEF GoodJob, Jobs, JobPcs
  <2> HIDE DEF drop
  <2> QED
    BY <1>0, <2>1 DEF GoodJob
<1>5. /\ GoodJob(q) /\ q.ver = 0 /\ q.pc \notin Taken \cup {"read"} /\ q.old = job[p].old
      /\ q.pc \in {"idle", "next", "drop"} /\ (q.pc = "drop" <=> q.old # 0)
  <2>1. GoodJob(Done(p)) /\ Done(p).old = 0 /\ Done(p).ver = 0 /\ Done(p).pc \in {"idle", "next"}
    BY DoneGood
  <2> HIDE DEF drop
  <2> QED
    BY <1>4, <2>1 DEF Taken
<1>6. Renumbered(n, s, wrote, jobs)
  <2>1. [job EXCEPT ![p] = IF @.old = 0 THEN Done(p) ELSE [@ EXCEPT !.pc = "drop", !.ver = 0, !.loaded = {}]]
          = jobs
    BY <1>0
  <2> HIDE DEF jobs
  <2> QED
    BY <2>1 DEF Publish
<1> HIDE DEF s, drop, q
<1>7. jobs[p] = q /\ \A r \in Writers \ {p} : jobs[r] = job[r]
  BY <1>0
<1>8. \A r \in Writers : job[r].ver \in Numbers \cup {0}
  BY <1>0 DEF Jobs
<1> HIDE DEF jobs
<1>9. ASSUME NEW r \in Writers
      PROVE  /\ jobs[r].pc \notin Taken \cup {"drop"} => jobs[r].old = 0
             /\ jobs[r].pc \notin Taken \cup {"read"} => jobs[r].ver = 0
             /\ jobs[r].pc = "drop" => jobs[r].old \notin {0, n}
             /\ jobs[r].pc = "read" /\ jobs[r].ver # 0 => s[jobs[r].ver] \in {wrote[jobs[r].ver], {}}
             /\ jobs[r].pc \in Taken => IsFresh(n, s, wrote, jobs, r)
  <2>1. CASE r = p
    BY <1>2, <1>5, <1>7, <2>1
  <2>2. CASE r # p
    <3>1. /\ jobs[r] = job[r] /\ job[r].old # n /\ job[r].ver # n
          /\ job[r].pc \notin Taken \cup {"drop"} => job[r].old = 0
          /\ job[r].pc \notin Taken \cup {"read"} => job[r].ver = 0
          /\ job[r].pc = "drop" => job[r].old \notin {0, active}
          /\ job[r].pc = "read" /\ job[r].ver # 0 => snap[job[r].ver] \in {wrote[job[r].ver], {}}
          /\ job[r].pc \in Taken => IsFresh(active, snap, wrote, job, r)
      BY <1>0, <1>2, <1>7, <2>2 DEF NumbersOK
    <3>2. ASSUME job[r].pc \in Taken PROVE IsFresh(n, s, wrote, jobs, r)
      <4>1. /\ job[r].ver \in Numbers /\ job[r].ver # 0 /\ s[job[r].ver] = {}
            /\ wrote[job[r].ver] = job[r].loaded
        BY <1>3, <1>8, <3>1, <3>2 DEF IsFresh
      <4>2. \A u \in Writers : job[u].old # job[r].ver /\ (u # r => job[u].ver # job[r].ver)
        BY <3>1, <3>2 DEF IsFresh
      <4>3. \A u \in Writers : jobs[u].old # job[r].ver /\ (u # r => jobs[u].ver # job[r].ver)
        BY <1>5, <1>7, <4>1, <4>2
      <4> QED
        BY <3>1, <4>1, <4>3 DEF IsFresh
    <3>3. job[r].pc = "read" /\ job[r].ver # 0 => s[job[r].ver] \in {wrote[job[r].ver], {}}
      BY <1>3, <1>8, <3>1
    <3> QED
      BY <3>1, <3>2, <3>3
  <2> QED
    BY <2>1, <2>2
<1>10. NumbersOK(n, s, wrote, jobs)
  BY <1>3, <1>9 DEF NumbersOK
<1>11. /\ UNCHANGED <<db, outbox, made, faults, watermark, locked, cached, edit>>
       /\ faults' \in 0 .. MaxFaults
       /\ watermark' \in 0 .. Len(outbox) /\ locked' \in BOOLEAN /\ cached' \in [Accounts -> Flags]
  BY <1>0 DEF Publish, StoresOK
<1>12. /\ JobsOK' /\ Numbered' /\ active' \in Numbers \cup {0}
       /\ snap' \in [Numbers -> SUBSET Accounts] /\ wrote' \in [Numbers -> SUBSET Accounts]
  BY <1>2, <1>3, <1>5, <1>6, <1>10, <1>11, JobsRenumbered DEF jobs
<1>13. EventsOK' /\ EditsOK' /\ StoresOK'
  BY <1>11, <1>12, EditorsStay, StoresStay
<1> QED
  BY <1>12, <1>13 DEF Shape

----------------------------------------------------------------------------
(* The steps of an editor *)

\* What is said of the numbers depends on the pointer, the sets and the jobs.
LEMMA NumbersStay ==
  ASSUME Numbered, UNCHANGED <<active, snap, wrote, job>>
  PROVE  Numbered'
BY DEF Numbered, NumbersOK, Compact, Named, IsFresh

\* Rows are added and become visible, and change in nothing else.
Grows ==
    /\ DOMAIN outbox \subseteq DOMAIN outbox' /\ Len(outbox) <= Len(outbox')
    /\ \A i \in DOMAIN outbox : outbox'[i].kind = outbox[i].kind

\* The rows a poller has read stay where they are.
LEMMA JobsStay ==
  ASSUME Shape, Grows, EventsOK', UNCHANGED job
  PROVE  JobsOK'
<1>1. JobsOK /\ outbox \in Seq(EventRows) /\ outbox' \in Seq(EventRows)
  BY DEF Shape, EventsOK
<1>2. Len(outbox) \in Nat /\ Len(outbox') \in Nat
  BY <1>1
<1>3. ASSUME NEW p \in Writers PROVE GoodJob(job[p])'
  <2>1. GoodJob(job[p]) /\ job[p].last \in Nat
    BY <1>1 DEF JobsOK, GoodJob, Jobs
  <2>2. job[p].todo # {} => outbox'[Min(job[p].todo)].kind = outbox[Min(job[p].todo)].kind
    BY <2>1, FirstEvent DEF GoodJob, Grows
  <2>3. job[p].todo \subseteq DOMAIN outbox' /\ job[p].last <= Len(outbox')
    BY <1>2, <2>1 DEF GoodJob, Grows
  <2> QED
    BY <2>1, <2>2, <2>3 DEF GoodJob
<1> QED
  BY <1>1, <1>3 DEF JobsOK

\* An editor has a row or its turn to insert one for no more than its change.
Turn(x) == IF x.pc = "insert" THEN 1 ELSE 0

\* An editor that moves on has at most one row for each change made.
LEMMA EditMoves ==
  ASSUME Shape, Grows, NEW e \in Editors, NEW x \in Edits, edit' = [edit EXCEPT ![e] = x],
         x.pc # "idle" => x.acct \in Accounts, x.pc = "commit" => x.copy \in DOMAIN outbox',
         x.pc = "set" => x.copy \in Flags,
         made' \in Nat, outbox' \in Seq(EventRows),
         Len(outbox') + Turn(x) + made <= Len(outbox) + Turn(edit[e]) + made'
  PROVE  EditsOK'
<1>1. /\ edit \in [Editors -> Edits] /\ \A d \in Editors : GoodEdit(edit[d])
      /\ IsFiniteSet(Inserting) /\ Len(outbox) + Cardinality(Inserting) <= made
      /\ outbox \in Seq(EventRows) /\ made \in Nat
  BY SchedulerAssumption DEF Shape, EditsOK, EventsOK, StoresOK
<1>2. edit' \in [Editors -> Edits] /\ edit'[e] = x /\ \A d \in Editors \ {e} : edit'[d] = edit[d]
  BY <1>1
<1>3. \A d \in Editors : GoodEdit(edit[d])'
  BY <1>1, <1>2 DEF GoodEdit, Grows
<1>4. Inserting' = IF x.pc = "insert" THEN Inserting \cup {e} ELSE Inserting \ {e}
  <2>1. Inserting' = {d \in Editors : edit'[d].pc = "insert"}
    BY DEF Inserting
  <2> QED
    BY <1>2, <2>1 DEF Inserting
<1>5. e \in Inserting <=> edit[e].pc = "insert"
  BY DEF Inserting
<1>6. /\ IsFiniteSet(Inserting \cup {e}) /\ IsFiniteSet(Inserting \ {e})
      /\ Cardinality(Inserting \cup {e}) = IF e \in Inserting THEN Cardinality(Inserting) ELSE Cardinality(Inserting) + 1
      /\ Cardinality(Inserting \ {e}) = IF e \in Inserting THEN Cardinality(Inserting) - 1 ELSE Cardinality(Inserting)
  BY <1>1, FS_AddElement, FS_RemoveElement
<1>7. Cardinality(Inserting) \in Nat /\ Len(outbox) \in Nat /\ Len(outbox') \in Nat
  BY <1>1, FS_CardinalityType
<1>8. IsFiniteSet(Inserting') /\ Cardinality(Inserting') = Cardinality(Inserting) + Turn(x) - Turn(edit[e])
  BY <1>4, <1>5, <1>6, <1>7 DEF Turn
<1>9. Turn(x) \in 0 .. 1 /\ Turn(edit[e]) \in 0 .. 1
  BY DEF Turn
<1>10. Len(outbox') + Cardinality(Inserting') <= made'
  BY <1>1, <1>7, <1>8, <1>9
<1> QED
  BY <1>2, <1>3, <1>8, <1>10 DEF EditsOK

\* A change is committed and counted.
LEMMA KeepsChange ==
  ASSUME Shape, Numbered, NEW e \in Editors, Change(e)
  PROVE  Shape' /\ Numbered'
<1>1. PICK a \in Accounts, v \in Flags, k \in {"changed", "used", "full"} :
        /\ db' = [db EXCEPT ![a] = v]
        /\ edit' = [edit EXCEPT ![e] = [NoEdit EXCEPT !.pc = "insert", !.kind = k, !.acct = a]]
  BY DEF Change
<1> DEFINE x == [NoEdit EXCEPT !.pc = "insert", !.kind = k, !.acct = a]
<1>2. /\ x \in Edits /\ x.pc = "insert" /\ x.acct \in Accounts /\ edit' = [edit EXCEPT ![e] = x]
  BY <1>1 DEF Edits, EventKinds, NoEdit, Flags
<1> HIDE DEF x
<1>3. /\ edit[e].pc = "idle" /\ made' = made + 1 /\ made < MaxEvents
      /\ UNCHANGED <<outbox, faults, redis, job>>
      /\ StoresOK /\ outbox \in Seq(EventRows) /\ made \in Nat
  BY SchedulerAssumption DEF Change, Shape, StoresOK, EventsOK
<1>4. Grows
  BY <1>3 DEF Grows
<1>5. Len(outbox') + Turn(x) + made <= Len(outbox) + Turn(edit[e]) + made'
  BY <1>2, <1>3 DEF Turn
<1>6. EditsOK'
  <2>1. made' \in Nat /\ outbox' \in Seq(EventRows) /\ x \in Edits
    BY <1>2, <1>3
  <2>2. x.pc # "commit" /\ x.pc # "set"
    BY <1>2
  <2> QED
    BY <1>2, <1>4, <1>5, <2>1, <2>2, EditMoves
<1>7. EventsOK'
  BY <1>3 DEF Shape, EventsOK
<1>8. StoresOK'
  BY <1>1, <1>3, SchedulerAssumption DEF StoresOK, redis
<1> QED
  BY <1>3, <1>4, <1>6, <1>7, <1>8, JobsStay, NumbersStay DEF Shape, redis

\* An event is inserted, or suppressed by an equal one.
LEMMA KeepsInsert ==
  ASSUME Shape, Numbered, NEW e \in Editors, Insert(e)
  PROVE  Shape' /\ Numbered'
<1> DEFINE a == EventAccount(edit[e].kind, edit[e].acct)
           row == [kind |-> edit[e].kind, acct |-> a, visible |-> FALSE]
<1>1. /\ edit[e].pc = "insert" /\ UNCHANGED <<db, made, faults, redis, job>>
      /\ StoresOK /\ outbox \in Seq(EventRows) /\ made \in Nat /\ Len(outbox) \in Nat
      /\ edit \in [Editors -> Edits] /\ GoodEdit(edit[e])
      /\ \A i \in DOMAIN outbox : outbox[i].kind # "full" => outbox[i].acct \in Accounts
  BY SchedulerAssumption DEF Insert, Shape, StoresOK, EventsOK, EditsOK
<1>2. edit[e].acct \in Accounts /\ edit[e].kind \in EventKinds
  BY <1>1 DEF GoodEdit, Edits
<1>3. CASE UNCHANGED outbox /\ EditTo(e, "sync")
  <2> DEFINE x == [edit[e] EXCEPT !.pc = "sync"]
  <2>1. x \in Edits /\ x.pc = "sync" /\ x.acct \in Accounts /\ edit' = [edit EXCEPT ![e] = x]
    BY <1>1, <1>2, <1>3 DEF EditTo, Edits
  <2> HIDE DEF x
  <2>2. Grows /\ EventsOK'
    BY <1>1, <1>3 DEF Grows, EventsOK
  <2>3. Len(outbox') + Turn(x) + made <= Len(outbox) + Turn(edit[e]) + made'
    BY <1>1, <1>3, <2>1 DEF Turn
  <2>4. EditsOK'
    BY <1>1, <1>3, <2>1, <2>2, <2>3, EditMoves
  <2>5. StoresOK'
    BY <1>1, <1>3 DEF StoresOK, redis
  <2> QED
    BY <1>1, <2>2, <2>4, <2>5, JobsStay, NumbersStay DEF Shape, redis
<1>4. CASE /\ outbox' = Append(outbox, row)
           /\ edit' = [edit EXCEPT ![e].pc = "commit", ![e].copy = Len(outbox) + 1]
  <2> DEFINE x == [edit[e] EXCEPT !.pc = "commit", !.copy = Len(outbox) + 1]
  <2>1. /\ x \in Edits /\ x.pc = "commit" /\ x.acct \in Accounts /\ edit' = [edit EXCEPT ![e] = x]
        /\ x.copy = Len(outbox) + 1
    <3>1. edit' = [edit EXCEPT ![e] = x]
      BY <1>1, <1>4
    <3>2. edit[e] \in Edits /\ Len(outbox) + 1 \in Nat
      BY <1>1
    <3>3. x \in Edits /\ x.pc = "commit" /\ x.acct = edit[e].acct /\ x.copy = Len(outbox) + 1
      BY <3>2 DEF Edits
    <3> QED
      BY <1>2, <3>1, <3>3
  <2> HIDE DEF x
  <2>2. row \in EventRows /\ row.kind = edit[e].kind /\ row.acct = a /\ (row.kind # "full" => a \in Accounts)
    BY <1>2 DEF EventRows, EventAccount
  <2> HIDE DEF row, a
  <2>3. /\ outbox' \in Seq(EventRows) /\ Len(outbox') = Len(outbox) + 1
        /\ outbox'[Len(outbox) + 1] = row /\ \A i \in DOMAIN outbox : outbox'[i] = outbox[i]
        /\ DOMAIN outbox = 1 .. Len(outbox) /\ DOMAIN outbox' = 1 .. (Len(outbox) + 1)
    BY <1>1, <1>4, <2>2
  <2>4. Grows /\ EventsOK'
    BY <1>1, <2>2, <2>3 DEF Grows, EventsOK
  <2>5. Len(outbox') + Turn(x) + made <= Len(outbox) + Turn(edit[e]) + made'
    BY <1>1, <2>1, <2>3 DEF Turn
  <2>6. x.copy \in DOMAIN outbox'
    BY <1>1, <2>1, <2>3
  <2>7. EditsOK'
    BY <1>1, <2>1, <2>3, <2>4, <2>5, <2>6, EditMoves
  <2>8. watermark' \in 0 .. Len(outbox')
    BY <1>1, <2>3 DEF StoresOK, redis
  <2>9. StoresOK'
    BY <1>1, <2>8 DEF StoresOK, redis
  <2> QED
    BY <1>1, <2>4, <2>7, <2>9, JobsStay, NumbersStay DEF Shape, redis
<1> QED
  BY <1>3, <1>4 DEF Insert

\* An inserted event becomes visible.
LEMMA KeepsCommit ==
  ASSUME Shape, Numbered, NEW e \in Editors, CommitEvent(e)
  PROVE  Shape' /\ Numbered'
<1> DEFINE x == [edit[e] EXCEPT !.pc = "sync", !.copy = None]
           i == edit[e].copy
<1>1. /\ edit[e].pc = "commit" /\ UNCHANGED <<db, made, faults, redis, job>>
      /\ StoresOK /\ outbox \in Seq(EventRows) /\ made \in Nat /\ Len(outbox) \in Nat
      /\ edit \in [Editors -> Edits] /\ GoodEdit(edit[e])
      /\ \A j \in DOMAIN outbox : outbox[j].kind # "full" => outbox[j].acct \in Accounts
  BY SchedulerAssumption DEF CommitEvent, Shape, StoresOK, EventsOK, EditsOK
<1>2. x \in Edits /\ x.pc = "sync" /\ x.acct \in Accounts /\ edit' = [edit EXCEPT ![e] = x]
  BY <1>1 DEF CommitEvent, Edits, GoodEdit, Flags
<1>3. i \in DOMAIN outbox
  BY <1>1 DEF GoodEdit
<1> HIDE DEF x
<1> DEFINE row == [outbox[i] EXCEPT !.visible = TRUE]
<1>4. row \in EventRows /\ row.kind = outbox[i].kind /\ row.acct = outbox[i].acct
  <2>1. outbox[i] \in EventRows
    BY <1>1, <1>3
  <2> QED
    BY <2>1 DEF EventRows
<1>5. outbox' = [outbox EXCEPT ![i] = row]
  BY <1>3 DEF CommitEvent
<1> HIDE DEF row
<1>6. /\ outbox' \in Seq(EventRows) /\ Len(outbox') = Len(outbox) /\ DOMAIN outbox' = DOMAIN outbox
      /\ \A j \in DOMAIN outbox : outbox'[j] = IF j = i THEN row ELSE outbox[j]
  BY <1>1, <1>3, <1>4, <1>5, ExceptSeq
<1>7. Grows /\ EventsOK'
  BY <1>1, <1>4, <1>6 DEF Grows, EventsOK
<1>8. Len(outbox') + Turn(x) + made <= Len(outbox) + Turn(edit[e]) + made'
  BY <1>1, <1>2, <1>6 DEF Turn
<1>9. EditsOK'
  BY <1>1, <1>2, <1>6, <1>7, <1>8, EditMoves
<1>10. StoresOK'
  BY <1>1, <1>6 DEF StoresOK, redis
<1> QED
  BY <1>1, <1>7, <1>9, <1>10, JobsStay, NumbersStay DEF Shape, redis

\* The copy to Redis at once, its absence, and the failures.
LEMMA KeepsSync ==
  ASSUME Shape, Numbered, NEW e \in Editors, SyncRead(e) \/ SyncWrite(e) \/ EditFails(e)
  PROVE  Shape' /\ Numbered'
<1>1. /\ edit[e].pc \in {"insert", "sync", "set"}
      /\ UNCHANGED <<db, outbox, made, watermark, locked, active, snap, wrote, job>>
      /\ StoresOK /\ outbox \in Seq(EventRows) /\ made \in Nat /\ Len(outbox) \in Nat
      /\ edit \in [Editors -> Edits] /\ GoodEdit(edit[e]) /\ EventsOK
  BY SchedulerAssumption DEF SyncRead, SyncWrite, EditFails, redis, Shape, StoresOK, EventsOK, EditsOK
<1>2. edit[e].acct \in Accounts /\ db[edit[e].acct] \in Flags /\ (edit[e].pc = "set" => edit[e].copy \in Flags)
  BY <1>1 DEF GoodEdit, StoresOK
<1>3. NoEdit \in Edits /\ NoEdit.pc = "idle"
  BY DEF NoEdit, Edits, EventKinds, Flags
<1>4. PICK x \in Edits : /\ edit' = [edit EXCEPT ![e] = x] /\ (x.pc # "idle" => x.acct \in Accounts)
                         /\ x.pc \in {"idle", "sync", "set"} /\ (x.pc = "set" => x.copy \in Flags)
  <2>1. CASE edit' = [edit EXCEPT ![e] = NoEdit]
    BY <1>3, <2>1
  <2>2. CASE edit' = [edit EXCEPT ![e].pc = "sync"]
    <3> DEFINE x == [edit[e] EXCEPT !.pc = "sync"]
    <3>1. x \in Edits /\ x.pc = "sync" /\ x.acct \in Accounts /\ edit' = [edit EXCEPT ![e] = x]
      BY <1>1, <1>2, <2>2 DEF Edits
    <3> HIDE DEF x
    <3> QED
      BY <3>1
  <2>3. CASE edit' = [edit EXCEPT ![e].pc = "set", ![e].copy = db[edit[e].acct]]
    <3> DEFINE x == [edit[e] EXCEPT !.pc = "set", !.copy = db[edit[e].acct]]
    <3>1. /\ x \in Edits /\ x.pc = "set" /\ x.acct \in Accounts /\ edit' = [edit EXCEPT ![e] = x]
          /\ x.copy \in Flags
      BY <1>1, <1>2, <2>3 DEF Edits
    <3> HIDE DEF x
    <3> QED
      BY <3>1
  <2> QED
    BY <2>1, <2>2, <2>3 DEF SyncRead, SyncWrite, EditFails
<1>5. Grows
  BY <1>1 DEF Grows
<1>6. Len(outbox') + Turn(x) + made <= Len(outbox) + Turn(edit[e]) + made'
  BY <1>1, <1>4 DEF Turn
<1>7. EditsOK'
  BY <1>1, <1>4, <1>5, <1>6, EditMoves
<1>8. EventsOK'
  BY <1>1 DEF EventsOK
<1>9. faults' \in 0 .. MaxFaults /\ cached' \in [Accounts -> Flags]
  BY <1>1, <1>2, SchedulerAssumption DEF SyncRead, SyncWrite, EditFails, redis, StoresOK
<1>10. StoresOK'
  BY <1>1, <1>9 DEF StoresOK
<1> QED
  BY <1>1, <1>5, <1>7, <1>8, <1>10, JobsStay, NumbersStay DEF Shape

----------------------------------------------------------------------------
(* The theorems *)

\* The inductive invariant holds at the beginning.
LEMMA InitInv == Init => Shape /\ Numbered
<1> SUFFICES ASSUME Init PROVE Shape /\ Numbered
  OBVIOUS
<1>1. outbox = <<>> /\ outbox \in Seq(EventRows) /\ Len(outbox) = 0 /\ DOMAIN outbox = {}
  BY DEF Init
<1>2. NoEdit \in Edits /\ NoEdit.pc = "idle"
  BY DEF NoEdit, Edits, EventKinds, Flags
<1>3. EditsOK
  <2>1. edit \in [Editors -> Edits] /\ \A e \in Editors : GoodEdit(edit[e]) /\ edit[e].pc = "idle"
    BY <1>2 DEF Init, GoodEdit
  <2>2. Inserting = {}
    BY <2>1 DEF Inserting
  <2>3. made = 0
    BY DEF Init
  <2> QED
    BY <1>1, <2>1, <2>2, <2>3, FS_EmptySet DEF EditsOK
<1>4. \A p \in Writers : job[p] = NoJob
  BY DEF Init
<1>5. GoodJob(NoJob)
  BY <1>1, NoJobGood DEF GoodJob
<1>6. JobsOK
  BY <1>4, <1>5, NoJobGood DEF Init, JobsOK
<1>7. StoresOK
  <2>1. db \in [Accounts -> Flags]
    BY DEF Init, Flags
  <2>2. cached \in [Accounts -> Flags]
    BY DEF Init, Flags
  <2>3. snap \in [Numbers -> SUBSET Accounts] /\ wrote \in [Numbers -> SUBSET Accounts]
    BY DEF Init
  <2>4. made \in 0 .. MaxEvents /\ faults \in 0 .. MaxFaults /\ watermark \in 0 .. Len(outbox)
    BY <1>1, SchedulerAssumption DEF Init
  <2>5. locked \in BOOLEAN /\ active \in Numbers \cup {0}
    BY DEF Init
  <2> QED
    BY <2>1, <2>2, <2>3, <2>4, <2>5 DEF StoresOK
<1>8. Named(active, job) = {}
  BY <1>4, NoJobGood DEF Init, Named
<1>9. Compact
  <2>1. Cardinality(Numbers) \in Nat
    BY NumbersBound
  <2>2. 0 \in 0 .. Cardinality(Numbers) /\ 1 .. 0 = {}
    BY <2>1
  <2> QED
    BY <1>8, <2>2 DEF Init, Compact
<1>10. NumbersOK(active, snap, wrote, job)
  BY <1>4, NoJobGood DEF Init, NumbersOK, Taken
<1> QED
  BY <1>1, <1>3, <1>6, <1>7, <1>9, <1>10 DEF Shape, EventsOK, Numbered

\* The inductive invariant is kept by every step.
LEMMA NextInv == Shape /\ Numbered /\ [Next]_vars => Shape' /\ Numbered'
<1> SUFFICES ASSUME Shape, Numbered, [Next]_vars PROVE Shape' /\ Numbered'
  OBVIOUS
<1>1. ASSUME NEW e \in Editors, Change(e) \/ EditStep(e) \/ EditFails(e) PROVE Shape' /\ Numbered'
  BY <1>1, KeepsChange, KeepsInsert, KeepsCommit, KeepsSync DEF EditStep
<1>2. ASSUME NEW p \in Rebuilders, FullRebuild(p) PROVE Shape' /\ Numbered'
  BY <1>2, KeepsStart DEF Writers
<1>3. ASSUME NEW p \in Readers, ReadActive(p) \/ ReadSnapshot(p) PROVE Shape' /\ Numbered'
  BY <1>3, KeepsRead, KeepsLeave DEF Writers
<1>4. ASSUME NEW p \in Pollers, PollStep(p) PROVE Shape' /\ Numbered'
  BY <1>4, KeepsPoll, KeepsHandle, KeepsCopy DEF PollStep, Writers
<1>5. ASSUME NEW p \in Writers, Rebuild(p) \/ JobFails(p) PROVE Shape' /\ Numbered'
  BY <1>5, KeepsLoaded, KeepsStart, KeepsTake, KeepsPublish, KeepsLeave DEF Rebuild, SetSnapshot
<1>6. CASE LockExpires \/ UNCHANGED vars
  <2>1. /\ UNCHANGED <<db, outbox, made, faults, watermark, active, snap, wrote, cached, edit, job>>
        /\ locked' \in BOOLEAN
    BY <1>6 DEF LockExpires, vars, redis, Shape, StoresOK
  <2>2. EventsOK' /\ EditsOK'
    BY <2>1, EditorsStay
  <2>3. StoresOK'
    BY <2>1 DEF Shape, StoresOK
  <2>4. Grows
    BY <2>1 DEF Grows, Shape, EventsOK
  <2> QED
    BY <2>1, <2>2, <2>3, <2>4, JobsStay, NumbersStay DEF Shape
<1> QED
  BY <1>1, <1>2, <1>3, <1>4, <1>5, <1>6 DEF Next

\* Every variable keeps its shape, the watermark stays within the outbox, and
\* the numbers in use stay within two of each writer and the pointer.
THEOREM TypeCorrect == Spec => []TypeOK
<1>1. Shape => TypeOK
  <2> SUFFICES ASSUME Shape PROVE TypeOK
    OBVIOUS
  <2>1. /\ EventsOK /\ StoresOK /\ JobsOK /\ outbox \in Seq(EventRows)
        /\ Len(outbox) + Cardinality(Inserting) <= made /\ Cardinality(Inserting) \in Nat
    BY FS_CardinalityType DEF Shape, EventsOK, EditsOK
  <2>2. Len(outbox) \in Nat /\ Len(outbox) <= MaxEvents
    BY <2>1, SchedulerAssumption DEF StoresOK
  <2>3. DOMAIN outbox \subseteq Ids
    BY <2>1, <2>2, SchedulerAssumption DEF Ids
  <2>4. \A i \in DOMAIN outbox : outbox[i].acct \in Accounts \cup {None}
    <3>1. \A i \in DOMAIN outbox : outbox[i] \in EventRows
      BY <2>1
    <3> QED
      BY <3>1 DEF EventRows
  <2>5. \A p \in Writers : /\ job[p].loaded \subseteq Accounts /\ job[p].todo \subseteq Ids
                           /\ {job[p].old, job[p].ver} \subseteq Numbers \cup {0}
    BY <2>1, <2>3 DEF JobsOK, GoodJob, Jobs
  <2> QED
    BY <2>1, <2>3, <2>4, <2>5 DEF TypeOK, StoresOK
<1> QED
  BY <1>1, InitInv, NextInv, PTL DEF Spec

\* However many writers run SetSnapshot at once, with the lock of the bucket or
\* without it, the set that the active pointer names is what one load of the
\* database returned, and the set a request reads is either that or gone.
THEOREM SnapshotWhole == Spec => []ActiveIsWhole
<1>1. Numbered => ActiveIsWhole
  BY DEF Numbered, NumbersOK, ActiveIsWhole, Writers
<1> QED
  BY <1>1, InitInv, NextInv, PTL DEF Spec
=============================================================================
