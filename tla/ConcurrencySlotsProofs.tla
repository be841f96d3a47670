----------------------- MODULE ConcurrencySlotsProofs -----------------------
(***************************************************************************)
(* Proofs about ConcurrencySlots for every number of processes and         *)
(* requests, every limit and every number of failures and of clients that  *)
(* go away.                                                                *)
(***************************************************************************)
EXTENDS ConcurrencySlots, FiniteSetTheorems, TLAPS

\* The bounds are numbers; the requests are finitely many.
LEMMA Basics ==
  /\ Limit \in Nat /\ MaxWait \in Nat /\ MaxFaults \in Nat /\ MaxCancels \in Nat
  /\ \A S \in SUBSET Requests : IsFiniteSet(S) /\ Cardinality(S) \in Nat
  /\ \A S, T \in SUBSET Requests : S \subseteq T => Cardinality(S) <= Cardinality(T)
  /\ Cardinality({}) = 0
<1>1. IsFiniteSet(Requests)
  BY SlotsAssumption, FS_Product DEF Requests
<1>2. \A S \in SUBSET Requests : IsFiniteSet(S) /\ Cardinality(S) \in Nat
  BY <1>1, FS_Subset, FS_CardinalityType
<1>3. \A S, T \in SUBSET Requests : S \subseteq T => Cardinality(S) <= Cardinality(T)
  BY <1>2, FS_Subset
<1> QED
  BY <1>2, <1>3, SlotsAssumption, FS_EmptySet

\* A set of requests from which at most one has come or gone.
LEMMA OneMoves ==
  ASSUME NEW S \in SUBSET Requests, NEW T \in SUBSET Requests, NEW w \in Requests,
         \A v \in Requests \ {w} : v \in S <=> v \in T
  PROVE  /\ (w \in S <=> w \in T) => Cardinality(T) = Cardinality(S)
         /\ w \notin S /\ w \in T => Cardinality(T) = Cardinality(S) + 1
         /\ w \in S /\ w \notin T => Cardinality(S) = Cardinality(T) + 1
<1>1. (w \in S <=> w \in T) => T = S
  OBVIOUS
<1>2. w \notin S /\ w \in T => T = S \cup {w}
  OBVIOUS
<1>3. w \in S /\ w \notin T => S = T \cup {w}
  OBVIOUS
<1>4. IsFiniteSet(S) /\ IsFiniteSet(T)
  BY Basics
<1> QED
  BY <1>1, <1>2, <1>3, <1>4, FS_AddElement

----------------------------------------------------------------------------
(* The sets of slots *)

StoreOK == slots \in [Resources -> SUBSET Requests] /\ orphans \in [Resources -> Nat]

\* A set never has more members than the limit.
Room == \A r \in Resources : Occupied(r) <= Limit

\* What the scripts do to one set, and that they keep it within the limit.
LEMMA Scripts ==
  ASSUME StoreOK, Room, NEW r \in Resources, NEW w \in Requests,
         \/ AddSlot(w, r) /\ HasRoom(r)
         \/ AddOrphan(r) /\ HasRoom(r)
         \/ RemoveSlot(w, r) \/ LoseSlot(w, r)
  PROVE  StoreOK' /\ Room'
<1> USE DEF StoreOK, Room, Occupied
<1>1. /\ Cardinality(slots[r]) \in Nat /\ Cardinality(slots'[r]) \in Nat
      /\ orphans[r] \in Nat
  BY Basics DEF AddSlot, AddOrphan, RemoveSlot, LoseSlot, Stopped
<1>2. ASSUME \A s \in Resources \ {r} : slots'[s] = slots[s] /\ orphans'[s] = orphans[s], StoreOK',
             Cardinality(slots'[r]) + orphans'[r] <= Limit
      PROVE  Room'
  BY <1>2
<1>3. CASE AddSlot(w, r) /\ HasRoom(r)
  <2>1. StoreOK' /\ slots'[r] = slots[r] \cup {w} /\ orphans' = orphans
    BY <1>3 DEF AddSlot
  <2>2. Cardinality(slots'[r]) <= Cardinality(slots[r]) + 1
    BY <2>1, <1>1, Basics, FS_AddElement
  <2> QED
    BY <1>1, <1>2, <1>3, <2>1, <2>2, Basics DEF AddSlot, HasRoom
<1>4. CASE AddOrphan(r) /\ HasRoom(r)
  <2>1. StoreOK' /\ orphans'[r] = orphans[r] + 1 /\ slots' = slots
    BY <1>1, <1>4 DEF AddOrphan
  <2> QED
    BY <1>1, <1>2, <1>4, <2>1, Basics DEF AddOrphan, HasRoom
<1>5. CASE RemoveSlot(w, r)
  <2>1. StoreOK' /\ slots'[r] \subseteq slots[r] /\ orphans' = orphans
    BY <1>5 DEF RemoveSlot, Stopped
  <2>2. Cardinality(slots'[r]) <= Cardinality(slots[r])
    BY <2>1, Basics
  <2> QED
    BY <1>1, <1>2, <1>5, <2>1, <2>2, Basics DEF RemoveSlot, Stopped
<1>6. CASE LoseSlot(w, r)
  <2>1. StoreOK' /\ slots'[r] = slots[r] \ {w} /\ orphans'[r] = IF w \in slots[r] THEN orphans[r] + 1 ELSE orphans[r]
    BY <1>1, <1>6 DEF LoseSlot
  <2>2. w \in slots[r] => Cardinality(slots[r]) = Cardinality(slots'[r]) + 1
    BY <2>1, OneMoves
  <2>3. w \notin slots[r] => slots'[r] = slots[r]
    BY <2>1
  <2>4. Cardinality(slots'[r]) + orphans'[r] <= Limit
    BY <1>1, <2>1, <2>2, <2>3, Basics
  <2> QED
    BY <1>2, <1>6, <2>1, <2>4 DEF LoseSlot
<1> QED
  BY <1>3, <1>4, <1>5, <1>6

\* Every step keeps the sets within the limit.
LEMMA StoreSteps ==
  ASSUME StoreOK, Room, req \in [Requests -> Reqs], [Next]_vars PROVE StoreOK' /\ Room'
<1>1. ASSUME UNCHANGED <<slots, orphans>> PROVE StoreOK' /\ Room'
  BY <1>1 DEF StoreOK, Room, Occupied
<1>2. ASSUME NEW w \in Requests, NEW r \in Resources, Release(w, r) PROVE StoreOK' /\ Room'
  BY <1>2, Scripts DEF Release
<1>3. "user" \in Resources /\ "account" \in Resources
  BY DEF Resources
<1>4. ASSUME NEW w \in Requests, Begin(w) \/ Count(w) \/ Uncount(w) \/ Forward(w) \/ Cancel(w)
      PROVE  StoreOK' /\ Room'
  BY <1>1, <1>4 DEF Begin, Count, Uncount, Forward, Cancel, redis
<1>5. ASSUME NEW w \in Requests, Acquire(w) PROVE StoreOK' /\ Room'
  <2>1. req[w].r \in Resources
    BY DEF Reqs
  <2> QED
    BY <1>1, <1>5, <2>1, Scripts DEF Acquire
<1>6. ASSUME NEW w \in Requests, SelectAccount(w) PROVE StoreOK' /\ Room'
  BY <1>1, <1>3, <1>6, Scripts DEF SelectAccount
<1>7. ASSUME NEW w \in Requests, Hydrate(w) PROVE StoreOK' /\ Room'
  BY <1>1, <1>2, <1>3, <1>7, Scripts DEF Hydrate
<1>8. ASSUME NEW w \in Requests, ReleaseAccount(w) \/ Finish(w) PROVE StoreOK' /\ Room'
  BY <1>1, <1>2, <1>3, <1>8 DEF ReleaseAccount, Finish, redis
<1>9. ASSUME NEW w \in Requests, NEW r \in Resources, AfterDone(w, r) PROVE StoreOK' /\ Room'
  BY <1>2, <1>9 DEF AfterDone
<1>10. ASSUME NEW r \in Resources, Expire(r) PROVE StoreOK' /\ Room'
  <2>1. CASE \E w \in slots[r] : slots' = [slots EXCEPT ![r] = @ \ {w}] /\ UNCHANGED orphans
    <3>1. PICK w \in slots[r] : RemoveSlot(w, r)
      BY <2>1 DEF RemoveSlot, Stopped
    <3> QED
      BY <3>1, Scripts DEF StoreOK
  <2>2. CASE orphans[r] > 0 /\ orphans' = [orphans EXCEPT ![r] = @ - 1] /\ UNCHANGED slots
    <3>1. orphans[r] - 1 \in Nat
      BY <2>2 DEF StoreOK
    <3>2. StoreOK'
      BY <2>2, <3>1 DEF StoreOK
    <3>3. \A s \in Resources : orphans'[s] <= orphans[s] /\ orphans'[s] \in Nat /\ orphans[s] \in Nat
      BY <2>2, <3>1 DEF StoreOK
    <3> QED
      BY <2>2, <3>2, <3>3, Basics DEF StoreOK, Room, Occupied
  <2> QED
    BY <1>10, <2>1, <2>2 DEF Expire
<1>11. ASSUME NEW p \in Processes, Restart(p) PROVE StoreOK' /\ Room'
  <2>1. \A r \in Resources : /\ slots'[r] = slots[r] \ Busy(p)
                             /\ orphans'[r] = orphans[r] + Cardinality(slots[r] \cap Busy(p))
    BY <1>11 DEF Restart
  <2>2. \A r \in Resources : /\ slots[r] \cap Busy(p) \in SUBSET Requests
                             /\ slots'[r] \in SUBSET Requests /\ orphans[r] \in Nat
    BY <2>1 DEF StoreOK
  <2>3. \A r \in Resources : Cardinality(slots[r] \cap Busy(p)) \in Nat /\ Cardinality(slots'[r]) \in Nat
    BY <2>2, Basics
  <2>4. StoreOK'
    <3>1. \A r \in Resources : orphans[r] + Cardinality(slots[r] \cap Busy(p)) \in Nat
      BY <2>2, <2>3
    <3> QED
      BY <1>11, <2>2, <3>1 DEF StoreOK, Restart
  <2>5. ASSUME NEW r \in Resources
        PROVE  Cardinality(slots'[r]) + orphans'[r] = Cardinality(slots[r]) + orphans[r]
    <3> DEFINE lost == Cardinality(slots[r] \cap Busy(p))
    <3>1. slots'[r] = slots[r] \ Busy(p) /\ orphans'[r] = orphans[r] + lost
      BY <2>1
    <3>2. IsFiniteSet(slots[r])
      BY Basics DEF StoreOK
    <3>3. Cardinality(slots'[r]) = Cardinality(slots[r]) - lost
      BY <3>1, <3>2, FS_Difference
    <3>4. Cardinality(slots[r]) \in Int /\ lost \in Int /\ orphans[r] \in Int
      BY <2>2, <2>3, <3>2, FS_CardinalityType
    <3> HIDE DEF lost
    <3> QED
      BY <3>1, <3>3, <3>4
  <2> QED
    BY <2>4, <2>5 DEF Room, Occupied
<1>12. ASSUME NEW p \in Processes, Clean(p) PROVE StoreOK' /\ Room'
  <2>1. ASSUME NEW r \in Resources, RemoveForeign(r) PROVE StoreOK' /\ Room'
    <3>1. StoreOK' /\ \A s \in Resources : (slots'[s] = {} /\ orphans'[s] = 0) \/ (slots'[s] = slots[s] /\ orphans'[s] = orphans[s])
      BY <2>1 DEF RemoveForeign, StoreOK
    <3> QED
      BY <3>1, Basics DEF Room, Occupied
  <2> QED
    BY <1>1, <1>3, <1>12, <2>1 DEF Clean, DeleteCounter, redis
<1>13. ASSUME NEW r \in Resources, WaitExpires(r) PROVE StoreOK' /\ Room'
  BY <1>1, <1>13 DEF WaitExpires
<1>14. CASE UNCHANGED vars
  BY <1>1, <1>14 DEF vars
<1> QED
  BY <1>4, <1>5, <1>6, <1>7, <1>8, <1>9, <1>10, <1>11, <1>12, <1>13, <1>14 DEF Next

----------------------------------------------------------------------------
(* The requests *)

ReqOK == req \in [Requests -> Reqs]

\* What the code knows at each point of the handler: which slots a request may
\* hold and which queue may have counted it. It decides what is given back.
Sane(q) ==
    /\ q.pc = "idle" => q = NoReq
    /\ "account" \in q.holds => q.r = "account" /\ q.pc \in {"uncount", "hydrate", "serve", "served"}
    /\ q.pc \in {"acquire", "uncount"} => q.counted[q.r] # "no"
    /\ q.counted["user"] # "no" => q.r = "user" /\ q.pc \in {"acquire", "uncount", "finish"}
    /\ q.counted["account"] # "no" => q.r = "account" /\ q.pc \in {"acquire", "uncount"}
    /\ q.pc = "hydrate" => q.r = "account"

Control == \A w \in Requests : Sane(req[w])

\* A request that has not begun satisfies what is known of every request.
LEMMA NoReqSane == NoReq \in Reqs /\ Sane(NoReq)
<1>1. [r \in Resources |-> "no"] \in [Resources -> {"no", "open", "real"}]
  OBVIOUS
<1> QED
  BY <1>1 DEF NoReq, Reqs, Sane, Pcs, Resources

\* One request moves.
LEMMA ReqMoves ==
  ASSUME ReqOK, Control, NEW w \in Requests, NEW q \in Reqs, Sane(q),
         req' = [req EXCEPT ![w] = q]
  PROVE  ReqOK' /\ Control'
BY DEF ReqOK, Control

\* Every step keeps what is known of the requests.
LEMMA ReqSteps ==
  ASSUME ReqOK, Control, [Next]_vars PROVE ReqOK' /\ Control'
<1> USE DEF Resources
<1>1. ASSUME NEW w \in Requests
      PROVE  /\ req[w] \in Reqs /\ Sane(req[w]) /\ req[w].r \in Resources
             /\ req[w].counted \in [Resources -> {"no", "open", "real"}]
  BY DEF ReqOK, Control, Reqs
<1>2. ASSUME NEW w \in Requests, NEW pc \in Pcs, Goto(w, pc), Sane([req[w] EXCEPT !.pc = pc])
      PROVE  ReqOK' /\ Control'
  <2>1. [req[w] EXCEPT !.pc = pc] \in Reqs
    BY <1>1 DEF Reqs
  <2>2. req' = [req EXCEPT ![w] = [req[w] EXCEPT !.pc = pc]]
    BY <1>2 DEF Goto
  <2> QED
    BY <1>2, <2>1, <2>2, ReqMoves
<1>3. ASSUME NEW w \in Requests, Begin(w) PROVE ReqOK' /\ Control'
  <2>1. req[w] = NoReq
    BY <1>1, <1>3 DEF Begin, At, Sane
  <2>2. Sane([req[w] EXCEPT !.pc = "count"])
    BY <2>1 DEF NoReq, Sane
  <2> QED
    BY <1>2, <1>3, <2>2 DEF Begin, Pcs
<1>4. ASSUME NEW w \in Requests, Count(w) PROVE ReqOK' /\ Control'
  <2>1. CASE Goto(w, "finish")
    <3>1. Sane([req[w] EXCEPT !.pc = "finish"])
      BY <1>1, <1>4 DEF Count, At, Sane, Reqs
    <3> QED
      BY <1>2, <2>1, <3>1 DEF Pcs
  <2>2. ASSUME NEW c \in {"open", "real"},
               req' = [req EXCEPT ![w].pc = "acquire", ![w].counted[req[w].r] = c]
        PROVE  ReqOK' /\ Control'
    <3> DEFINE q == [req[w] EXCEPT !.pc = "acquire", !.counted = [req[w].counted EXCEPT ![req[w].r] = c]]
    <3>1. q \in Reqs
      BY <1>1 DEF Reqs, Pcs
    <3>2. Sane(q)
      BY <1>1, <1>4 DEF Count, At, Sane, Reqs
    <3>3. req' = [req EXCEPT ![w] = q]
      BY <2>2
    <3> QED
      BY <3>1, <3>2, <3>3, ReqMoves
  <2> QED
    BY <1>4, <2>1, <2>2 DEF Count
<1>5. ASSUME NEW w \in Requests, Acquire(w) PROVE ReqOK' /\ Control'
  <2>1. CASE Goto(w, RefusedPc(req[w].r))
    <3>1. Sane([req[w] EXCEPT !.pc = RefusedPc(req[w].r)])
      BY <1>1, <1>5 DEF Acquire, At, Sane, Reqs, RefusedPc
    <3> QED
      BY <1>2, <2>1, <3>1 DEF Pcs, RefusedPc
  <2>2. CASE req' = [req EXCEPT ![w].pc = "uncount", ![w].holds = @ \cup {req[w].r}]
    <3> DEFINE q == [req[w] EXCEPT !.pc = "uncount", !.holds = req[w].holds \cup {req[w].r}]
    <3>1. q \in Reqs
      BY <1>1 DEF Reqs, Pcs
    <3>2. Sane(q)
      BY <1>1, <1>5 DEF Acquire, At, Sane, Reqs
    <3>3. req' = [req EXCEPT ![w] = q]
      BY <2>2
    <3> QED
      BY <3>1, <3>2, <3>3, ReqMoves
  <2> QED
    BY <1>5, <2>1, <2>2 DEF Acquire
<1>6. ASSUME NEW w \in Requests, Uncount(w) PROVE ReqOK' /\ Control'
  <2> DEFINE next == IF req[w].r \notin req[w].holds THEN "finish"
                     ELSE IF req[w].r = "user" THEN "select" ELSE "serve"
             q == [req[w] EXCEPT !.pc = next, !.counted = [req[w].counted EXCEPT ![req[w].r] = "no"]]
  <2>1. q \in Reqs
    BY <1>1 DEF Reqs, Pcs
  <2>2. Sane(q)
    BY <1>1, <1>6 DEF Uncount, At, Sane, Reqs
  <2>3. req' = [req EXCEPT ![w] = q]
    BY <1>6 DEF Uncount, Counted
  <2> QED
    BY <2>1, <2>2, <2>3, ReqMoves
<1>7. ASSUME NEW w \in Requests, SelectAccount(w) PROVE ReqOK' /\ Control'
  <2>1. /\ Sane([req[w] EXCEPT !.pc = "finish"])
        /\ Sane([req[w] EXCEPT !.pc = "count", !.r = "account"])
        /\ Sane([req[w] EXCEPT !.pc = "hydrate", !.r = "account", !.holds = req[w].holds \cup {"account"}])
    <3>1. req[w] \in Reqs /\ Sane(req[w]) /\ req[w].pc = "select"
      BY <1>1, <1>7 DEF SelectAccount, At
    <3>2. Sane([req[w] EXCEPT !.pc = "finish"])
      BY <3>1 DEF Sane, Reqs
    <3>3. Sane([req[w] EXCEPT !.pc = "count", !.r = "account"])
      BY <3>1 DEF Sane, Reqs
    <3>4. Sane([req[w] EXCEPT !.pc = "hydrate", !.r = "account", !.holds = req[w].holds \cup {"account"}])
      BY <3>1 DEF Sane, Reqs
    <3> QED
      BY <3>2, <3>3, <3>4
  <2>2. /\ [req[w] EXCEPT !.pc = "count", !.r = "account"] \in Reqs
        /\ [req[w] EXCEPT !.pc = "hydrate", !.r = "account", !.holds = req[w].holds \cup {"account"}] \in Reqs
    <3>1. req[w] \in Reqs /\ "count" \in Pcs /\ "hydrate" \in Pcs
      BY <1>1 DEF Pcs
    <3>2. [req[w] EXCEPT !.pc = "count", !.r = "account"] \in Reqs
      BY <3>1 DEF Reqs
    <3> QED
      BY <3>1, <3>2 DEF Reqs
  <2>3. \/ Goto(w, "finish")
        \/ req' = [req EXCEPT ![w] = [req[w] EXCEPT !.pc = "count", !.r = "account"]]
        \/ req' = [req EXCEPT ![w] = [req[w] EXCEPT !.pc = "hydrate", !.r = "account",
                                                    !.holds = req[w].holds \cup {"account"}]]
    BY <1>7 DEF SelectAccount
  <2> QED
    BY <1>2, <2>1, <2>2, <2>3, ReqMoves DEF Pcs
<1>8. ASSUME NEW w \in Requests, Hydrate(w) PROVE ReqOK' /\ Control'
  <2>1. ASSUME NEW pc \in {"select", "finish"}
        PROVE  /\ Sane([req[w] EXCEPT !.pc = pc, !.holds = req[w].holds \ {"account"}])
               /\ [req[w] EXCEPT !.pc = pc, !.holds = req[w].holds \ {"account"}] \in Reqs
    <3>1. req[w] \in Reqs /\ Sane(req[w]) /\ req[w].pc = "hydrate" /\ pc \in Pcs
      BY <1>1, <1>8 DEF Hydrate, At, Pcs
    <3>2. [req[w] EXCEPT !.pc = pc, !.holds = req[w].holds \ {"account"}] \in Reqs
      BY <3>1 DEF Reqs
    <3> QED
      BY <3>1, <3>2 DEF Sane, Reqs
  <2>2. Sane([req[w] EXCEPT !.pc = "serve"])
    BY <1>1, <1>8 DEF Hydrate, At, Sane, Reqs
  <2>3. \/ Goto(w, "serve")
        \/ \E pc \in {"select", "finish"} :
             req' = [req EXCEPT ![w] = [req[w] EXCEPT !.pc = pc, !.holds = req[w].holds \ {"account"}]]
    BY <1>8 DEF Hydrate
  <2> QED
    BY <1>2, <2>1, <2>2, <2>3, ReqMoves DEF Pcs
<1>9. ASSUME NEW w \in Requests, Forward(w) PROVE ReqOK' /\ Control'
  <2>1. Sane([req[w] EXCEPT !.pc = "served"])
    BY <1>1, <1>9 DEF Forward, At, Sane, Reqs
  <2> QED
    BY <1>2, <1>9, <2>1 DEF Forward, Pcs
<1>10. ASSUME NEW w \in Requests, ReleaseAccount(w) PROVE ReqOK' /\ Control'
  <2>1. PICK pc \in {"select", "finish"} :
          req' = [req EXCEPT ![w] = [req[w] EXCEPT !.pc = pc, !.holds = req[w].holds \ {"account"}]]
    BY <1>10 DEF ReleaseAccount
  <2>2. /\ Sane([req[w] EXCEPT !.pc = pc, !.holds = req[w].holds \ {"account"}])
        /\ [req[w] EXCEPT !.pc = pc, !.holds = req[w].holds \ {"account"}] \in Reqs
    <3>1. req[w] \in Reqs /\ Sane(req[w]) /\ At(w, "served") /\ pc \in Pcs
      BY <1>1, <1>10 DEF ReleaseAccount, Pcs
    <3>2. [req[w] EXCEPT !.pc = pc, !.holds = req[w].holds \ {"account"}] \in Reqs
      BY <3>1 DEF Reqs
    <3> QED
      BY <3>1, <3>2 DEF At, Sane, Reqs
  <2> QED
    BY <2>1, <2>2, ReqMoves
<1>11. ASSUME NEW w \in Requests, Finish(w) PROVE ReqOK' /\ Control'
  <2>1. /\ Sane([req[w] EXCEPT !.holds = req[w].holds \ {"user"}])
        /\ [req[w] EXCEPT !.holds = req[w].holds \ {"user"}] \in Reqs
    BY <1>1, <1>11 DEF Finish, At, Sane, Reqs, Pcs
  <2>2. /\ Sane([req[w] EXCEPT !.counted = [req[w].counted EXCEPT !["user"] = "no"]])
        /\ [req[w] EXCEPT !.counted = [req[w].counted EXCEPT !["user"] = "no"]] \in Reqs
    BY <1>1, <1>11 DEF Finish, At, Sane, Reqs, Pcs
  <2>3. \/ req' = [req EXCEPT ![w] = [req[w] EXCEPT !.holds = req[w].holds \ {"user"}]]
        \/ req' = [req EXCEPT ![w] = [req[w] EXCEPT !.counted = [req[w].counted EXCEPT !["user"] = "no"]]]
        \/ req' = [req EXCEPT ![w] = NoReq]
    BY <1>11 DEF Finish
  <2> QED
    BY <2>1, <2>2, <2>3, ReqMoves, NoReqSane
<1>12. ASSUME NEW w \in Requests, Cancel(w) PROVE ReqOK' /\ Control'
  <2>1. /\ Sane([req[w] EXCEPT !.gone = TRUE]) /\ [req[w] EXCEPT !.gone = TRUE] \in Reqs
        /\ req' = [req EXCEPT ![w] = [req[w] EXCEPT !.gone = TRUE]]
    BY <1>1, <1>12 DEF Cancel, At, Sane, Reqs
  <2> QED
    BY <2>1, ReqMoves
<1>13. ASSUME NEW w \in Requests, NEW r \in Resources, AfterDone(w, r) PROVE ReqOK' /\ Control'
  <2>1. /\ Sane([req[w] EXCEPT !.holds = req[w].holds \ {r}])
        /\ [req[w] EXCEPT !.holds = req[w].holds \ {r}] \in Reqs
        /\ req' = [req EXCEPT ![w] = [req[w] EXCEPT !.holds = req[w].holds \ {r}]]
    BY <1>1, <1>13 DEF AfterDone, Sane, Reqs, NoReq
  <2> QED
    BY <2>1, ReqMoves
<1>14. ASSUME NEW p \in Processes, Restart(p) PROVE ReqOK' /\ Control'
  <2>1. req' = [w \in Requests |-> IF w \in Busy(p) THEN NoReq ELSE req[w]]
    BY <1>14 DEF Restart
  <2> QED
    BY <2>1, NoReqSane DEF ReqOK, Control
<1>15. CASE UNCHANGED req
  BY <1>15 DEF ReqOK, Control
<1> QED
  BY <1>3, <1>4, <1>5, <1>6, <1>7, <1>8, <1>9, <1>10, <1>11, <1>12, <1>13, <1>14, <1>15
     DEF Next, vars, Expire, WaitExpires, Clean

----------------------------------------------------------------------------
(* The counters *)

WaitsOK == waits \in [Resources -> 0..MaxWait]

\* A counter is read as it is incremented, and never falls below zero.
LEMMA CounterScripts ==
  ASSUME WaitsOK, NEW r \in Resources, NEW w \in Requests,
         \/ Increment(r) /\ ~QueueFull(r)
         \/ Decrement(w, r)
         \/ UNCHANGED waits
         \/ waits' = [waits EXCEPT ![r] = 0]
  PROVE  WaitsOK'
<1>1. waits[r] \in Nat /\ waits[r] <= MaxWait /\ MaxWait \in Nat /\ 0 \in 0..MaxWait
  BY Basics DEF WaitsOK
<1>2. CASE Increment(r) /\ ~QueueFull(r)
  <2>1. waits[r] + 1 \in 0..MaxWait
    BY <1>1, <1>2 DEF QueueFull
  <2> QED
    BY <1>2, <2>1 DEF Increment, WaitsOK
<1>3. CASE Decremented(r)
  <2>1. waits[r] > 0 => waits[r] - 1 \in 0..MaxWait
    BY <1>1
  <2> QED
    BY <1>3, <2>1 DEF Decremented, WaitsOK
<1>4. CASE UNCHANGED waits
  BY <1>4 DEF WaitsOK
<1>5. CASE waits' = [waits EXCEPT ![r] = 0]
  BY <1>1, <1>5 DEF WaitsOK
<1> QED
  BY <1>2, <1>3, <1>4, <1>5 DEF Decrement, Stopped

\* The counters keep their type and their bound in every step.
LEMMA WaitsSteps ==
  ASSUME WaitsOK, ReqOK, [Next]_vars PROVE WaitsOK'
<1>1. "user" \in Resources /\ "account" \in Resources /\ \A w \in Requests : req[w].r \in Resources
  BY DEF Resources, ReqOK, Reqs
<1>2. ASSUME NEW w \in Requests, Count(w) PROVE WaitsOK'
  BY <1>1, <1>2, CounterScripts DEF Count
<1>3. ASSUME NEW w \in Requests, Uncount(w) \/ Finish(w) PROVE WaitsOK'
  BY <1>1, <1>3, CounterScripts DEF Uncount, Finish, redis
<1>4. ASSUME NEW p \in Processes, Clean(p) PROVE WaitsOK'
  <2>1. UNCHANGED waits \/ \E r \in Resources : waits' = [waits EXCEPT ![r] = 0]
    BY <1>1, <1>4 DEF Clean, RemoveForeign, DeleteCounter, redis
  <2> QED
    BY <2>1, Basics DEF WaitsOK
<1>5. ASSUME NEW r \in Resources, WaitExpires(r) PROVE WaitsOK'
  <2>1. waits' = [waits EXCEPT ![r] = 0]
    BY <1>5 DEF WaitExpires
  <2> QED
    BY <2>1, Basics DEF WaitsOK
<1>6. CASE UNCHANGED waits
  BY <1>6 DEF WaitsOK
<1> QED
  BY <1>2, <1>3, <1>4, <1>5, <1>6
     DEF Next, vars, redis, Begin, Acquire, SelectAccount, Hydrate, Forward, ReleaseAccount,
         Cancel, AfterDone, Expire, Restart

----------------------------------------------------------------------------
(* Types *)

Rest == /\ boot \in [Processes -> 0..Booted]
        /\ faults \in 0..MaxFaults /\ cancels \in 0..MaxCancels
        /\ evicted \in [Resources -> BOOLEAN] /\ reset \in [Resources -> BOOLEAN]

\* The faults and cancels never go down.
LEMMA FaultSteps ==
  ASSUME Rest, [Next]_vars
  PROVE  /\ faults \in Nat /\ cancels \in Nat /\ faults' \in 0..MaxFaults /\ cancels' \in 0..MaxCancels
         /\ faults <= faults' /\ cancels <= cancels'
<1>1. /\ faults \in Nat /\ cancels \in Nat /\ MaxFaults \in Nat /\ MaxCancels \in Nat
      /\ faults <= MaxFaults /\ cancels <= MaxCancels
  BY Basics DEF Rest
<1>2. /\ UNCHANGED faults => faults' \in 0..MaxFaults /\ faults <= faults'
      /\ Fails => faults' \in 0..MaxFaults /\ faults <= faults'
      /\ UNCHANGED cancels => cancels' \in 0..MaxCancels /\ cancels <= cancels'
  BY <1>1 DEF Fails
<1>3. ASSUME NEW w \in Requests, Begin(w) \/ Count(w) \/ Acquire(w) \/ Uncount(w) \/ SelectAccount(w)
      PROVE  UNCHANGED cancels /\ (UNCHANGED faults \/ Fails)
  BY <1>3 DEF Begin, Count, Acquire, Uncount, SelectAccount, NoFault, Decrement
<1>4. ASSUME NEW w \in Requests, Hydrate(w) \/ Forward(w) \/ ReleaseAccount(w) \/ Finish(w)
      PROVE  UNCHANGED cancels /\ (UNCHANGED faults \/ Fails)
  BY <1>4 DEF Hydrate, Forward, ReleaseAccount, Finish, NoFault, Release, Decrement
<1>5. ASSUME NEW w \in Requests, Cancel(w)
      PROVE  UNCHANGED faults /\ cancels' \in 0..MaxCancels /\ cancels <= cancels'
  BY <1>1, <1>5 DEF Cancel
<1>6. ASSUME NEW p \in Processes, Restart(p)
      PROVE  UNCHANGED cancels /\ faults' \in 0..MaxFaults /\ faults <= faults'
  <2>1. Cardinality(Busy(p)) \in Nat
    BY Basics DEF Busy, Requests
  <2> QED
    BY <1>1, <1>6, <2>1 DEF Restart
<1>7. ASSUME NEW p \in Processes, Clean(p)
      PROVE  UNCHANGED cancels /\ (UNCHANGED faults \/ Fails)
  BY <1>7 DEF Clean, NoFault
<1>8. ASSUME NEW w \in Requests, NEW r \in Resources, AfterDone(w, r)
      PROVE  UNCHANGED cancels /\ (UNCHANGED faults \/ Fails)
  BY <1>8 DEF AfterDone, Release, NoFault
<1>9. ASSUME NEW r \in Resources, Expire(r) \/ WaitExpires(r) PROVE UNCHANGED <<faults, cancels>>
  BY <1>9 DEF Expire, WaitExpires
<1>10. CASE UNCHANGED vars
  BY <1>1, <1>2, <1>10 DEF vars
<1> QED
  BY <1>1, <1>2, <1>3, <1>4, <1>5, <1>6, <1>7, <1>8, <1>9, <1>10 DEF Next

\* The boots, the failures and the histories keep their types in every step.
LEMMA RestSteps ==
  ASSUME Rest, StoreOK, WaitsOK, [Next]_vars PROVE Rest'
<1>1. faults' \in 0..MaxFaults /\ cancels' \in 0..MaxCancels
  BY FaultSteps
<1>2. evicted' \in [Resources -> BOOLEAN]
  <2>1. \/ UNCHANGED evicted
        \/ \E r \in Resources, b \in BOOLEAN : evicted' = [evicted EXCEPT ![r] = b]
    BY DEF Next, vars, history, Begin, Count, Acquire, Uncount, SelectAccount, Hydrate, Forward,
           ReleaseAccount, Finish, Cancel, AfterDone, Expire, WaitExpires, Restart, Clean,
           RemoveForeign, DeleteCounter, Resources, Rest
  <2> QED
    BY <2>1 DEF Rest
<1>3. reset' \in [Resources -> BOOLEAN]
  <2>1. \/ UNCHANGED reset
        \/ \E r \in Resources, b \in BOOLEAN : reset' = [reset EXCEPT ![r] = b]
    BY DEF Next, vars, history, Begin, Count, Acquire, Uncount, SelectAccount, Hydrate, Forward,
           ReleaseAccount, Finish, Cancel, AfterDone, Expire, WaitExpires, Restart, Clean,
           RemoveForeign, DeleteCounter, Resources, Rest
  <2> QED
    BY <2>1 DEF Rest
<1>4. boot' \in [Processes -> 0..Booted]
  <2>1. /\ 0 \in 0..Booted /\ Booted \in 0..Booted
        /\ \A p \in Processes : boot[p] \in {0, 1, 2, 3} => boot[p] + 1 \in 0..Booted
    BY DEF Booted
  <2>2. ASSUME NEW p \in Processes, Clean(p) PROVE boot' \in [Processes -> 0..Booted]
    <3>1. \/ boot[p] \in {0, 1, 2, 3} /\ boot' = [boot EXCEPT ![p] = boot[p] + 1]
          \/ boot' = [boot EXCEPT ![p] = Booted]
      BY <2>2 DEF Clean
    <3> QED
      BY <2>1, <3>1 DEF Rest
  <2>3. ASSUME NEW p \in Processes, Restart(p) PROVE boot' \in [Processes -> 0..Booted]
    BY <2>1, <2>3 DEF Restart, Rest
  <2>4. CASE UNCHANGED boot
    BY <2>4 DEF Rest
  <2> QED
    BY <2>2, <2>3, <2>4
       DEF Next, vars, Begin, Count, Acquire, Uncount, SelectAccount, Hydrate, Forward,
           ReleaseAccount, Finish, Cancel, AfterDone, Expire, WaitExpires
<1> QED
  BY <1>1, <1>2, <1>3, <1>4 DEF Rest

\* What the types rest on: the limits, and the program of a request.
Shape == StoreOK /\ Room /\ ReqOK /\ Control /\ WaitsOK /\ Rest

\* Types, room in the slots and the places of the requests hold in every reachable state.
LEMMA AlwaysShape == Spec => []Shape
<1>1. Init => Shape
  <2> SUFFICES ASSUME Init PROVE Shape
    OBVIOUS
  <2>1. StoreOK /\ Room
    BY Basics DEF Init, StoreOK, Room, Occupied
  <2>2. ReqOK /\ Control
    BY NoReqSane DEF Init, ReqOK, Control
  <2>3. WaitsOK
    BY Basics DEF Init, WaitsOK
  <2>4. Rest
    BY Basics DEF Init, Rest, Booted
  <2> QED
    BY <2>1, <2>2, <2>3, <2>4 DEF Shape
<1>2. Shape /\ [Next]_vars => Shape'
  BY StoreSteps, ReqSteps, WaitsSteps, RestSteps DEF Shape, ReqOK
<1> QED
  BY <1>1, <1>2, PTL DEF Spec

\* Every variable has its type; no set of slots and no counter of waiting
\* requests passes its limit.
THEOREM TypeCorrect == Spec => []TypeOK
<1>1. Shape => TypeOK
  <2> SUFFICES ASSUME Shape PROVE TypeOK
    OBVIOUS
  <2>1. \A r \in Resources : orphans[r] \in 0..Limit
    <3> SUFFICES ASSUME NEW r \in Resources PROVE orphans[r] \in 0..Limit
      OBVIOUS
    <3>1. Cardinality(slots[r]) \in Nat /\ orphans[r] \in Nat /\ Limit \in Nat
      BY Basics DEF Shape, StoreOK
    <3>2. Cardinality(slots[r]) + orphans[r] <= Limit
      BY DEF Shape, Room, Occupied
    <3> QED
      BY <3>1, <3>2
  <2>2. orphans \in [Resources -> 0..Limit]
    BY <2>1 DEF Shape, StoreOK
  <2> QED
    BY <2>2 DEF Shape, StoreOK, ReqOK, WaitsOK, Rest, TypeOK
<1> QED
  BY <1>1, AlwaysShape, PTL

----------------------------------------------------------------------------
(* The slots of a request *)

\* Every member of a set is the slot of a request that will give it back.
Owned == \A r \in Resources : slots[r] \subseteq Holders(r)

\* Only a TTL or a starting process takes a slot from the request that holds it.
Kept == \A r \in Resources : ~evicted[r] => Holders(r) \subseteq slots[r]

\* One slot of one request comes or goes, in the set and in the handler.
LEMMA SlotMoves ==
  ASSUME StoreOK, ReqOK, Owned, Kept, NEW w \in Requests, NEW r \in Resources, UNCHANGED evicted,
         \A v \in Requests \ {w} : req'[v].holds = req[v].holds,
         \/ /\ slots' = [slots EXCEPT ![r] = @ \cup {w}]
            /\ req'[w].holds = req[w].holds \cup {r}
         \/ /\ slots' = [slots EXCEPT ![r] = @ \ {w}]
            /\ req'[w].holds = req[w].holds \ {r}
         \/ UNCHANGED slots /\ req'[w].holds = req[w].holds
  PROVE  Owned' /\ Kept'
BY DEF StoreOK, Owned, Kept, Holders

\* Every step keeps slots with those who hold them, and holders with their slots.
LEMMA SlotSteps ==
  ASSUME Shape, Owned, Kept, [Next]_vars PROVE Owned' /\ Kept'
<1> USE DEF Shape
<1>1. /\ "user" \in Resources /\ "account" \in Resources
      /\ \A w \in Requests : req[w] \in Reqs /\ req[w].r \in Resources /\ req[w].holds \subseteq Resources
  BY DEF Resources, ReqOK, Reqs
<1>2. ASSUME UNCHANGED <<slots, evicted>>, \A v \in Requests : req'[v].holds = req[v].holds
      PROVE  Owned' /\ Kept'
  BY <1>2 DEF Owned, Kept, Holders
<1>3. ASSUME NEW w \in Requests, Begin(w) \/ Count(w) \/ Uncount(w) \/ Forward(w) \/ Cancel(w)
      PROVE  Owned' /\ Kept'
  <2>1. \A v \in Requests : req'[v].holds = req[v].holds
    BY <1>1, <1>3 DEF Begin, Count, Uncount, Forward, Cancel, ReqOK, Reqs, Goto
  <2> QED
    BY <1>2, <1>3, <2>1 DEF Begin, Count, Uncount, Forward, Cancel, redis, history
<1>4. ASSUME NEW w \in Requests, NEW r \in Resources, Release(w, r)
      PROVE  slots' = [slots EXCEPT ![r] = @ \ {w}]
  BY <1>4 DEF Release, RemoveSlot, LoseSlot, Stopped
<1>5. ASSUME NEW w \in Requests, Acquire(w) PROVE Owned' /\ Kept'
  <2>1. /\ \A v \in Requests \ {w} : req'[v].holds = req[v].holds
        /\ \/ AddSlot(w, req[w].r) /\ req'[w].holds = req[w].holds \cup {req[w].r}
           \/ UNCHANGED slots /\ req'[w].holds = req[w].holds
    BY <1>1, <1>5 DEF Acquire, ReqOK, Reqs, Goto, AddOrphan
  <2> QED
    BY <1>1, <1>5, <2>1, SlotMoves DEF Acquire, history, AddSlot
<1>6. ASSUME NEW w \in Requests, SelectAccount(w) PROVE Owned' /\ Kept'
  <2>1. /\ \A v \in Requests \ {w} : req'[v].holds = req[v].holds
        /\ \/ AddSlot(w, "account") /\ req'[w].holds = req[w].holds \cup {"account"}
           \/ UNCHANGED slots /\ req'[w].holds = req[w].holds
    BY <1>1, <1>6 DEF SelectAccount, ReqOK, Reqs, Goto, AddOrphan
  <2> QED
    BY <1>1, <1>6, <2>1, SlotMoves DEF SelectAccount, history, AddSlot
<1>7. ASSUME NEW w \in Requests, Hydrate(w) PROVE Owned' /\ Kept'
  <2>1. /\ \A v \in Requests \ {w} : req'[v].holds = req[v].holds
        /\ \/ /\ slots' = [slots EXCEPT !["account"] = @ \ {w}]
              /\ req'[w].holds = req[w].holds \ {"account"}
           \/ UNCHANGED slots /\ req'[w].holds = req[w].holds
    BY <1>1, <1>4, <1>7 DEF Hydrate, ReqOK, Reqs, Goto, LoseSlot
  <2> QED
    BY <1>1, <1>7, <2>1, SlotMoves DEF Hydrate, history
<1>8. ASSUME NEW w \in Requests, ReleaseAccount(w) PROVE Owned' /\ Kept'
  <2>1. /\ \A v \in Requests \ {w} : req'[v].holds = req[v].holds
        /\ req'[w].holds = req[w].holds \ {"account"}
    BY <1>1, <1>8 DEF ReleaseAccount, ReqOK, Reqs
  <2>2. CASE "account" \in req[w].holds
    BY <1>1, <1>4, <1>8, <2>1, <2>2, SlotMoves DEF ReleaseAccount, history
  <2>3. CASE "account" \notin req[w].holds
    BY <1>2, <1>8, <2>1, <2>3 DEF ReleaseAccount, history
  <2> QED
    BY <2>2, <2>3
<1>9. ASSUME NEW w \in Requests, Finish(w) PROVE Owned' /\ Kept'
  <2>1. /\ \A v \in Requests \ {w} : req'[v].holds = req[v].holds
        /\ \/ Release(w, "user") /\ req'[w].holds = req[w].holds \ {"user"}
           \/ UNCHANGED slots /\ req'[w].holds = req[w].holds
    <3>1. req[w].pc = "finish" /\ Sane(req[w])
      BY <1>9 DEF Finish, At, Control
    <3>2. "account" \notin req[w].holds
      BY <3>1 DEF Sane
    <3>3. "user" \notin req[w].holds => req[w].holds = {}
      BY <1>1, <3>2 DEF Resources
    <3>4. CASE req' = [req EXCEPT ![w] = NoReq]
      BY <1>1, <1>9, <3>3, <3>4 DEF Finish, ReqOK, redis, NoReq
    <3>5. CASE req' = [req EXCEPT ![w].holds = @ \ {"user"}] /\ Release(w, "user")
      BY <1>1, <3>5 DEF ReqOK, Reqs
    <3>6. CASE req' = [req EXCEPT ![w].counted["user"] = "no"] /\ UNCHANGED slots
      BY <1>1, <3>6 DEF ReqOK, Reqs
    <3> QED
      BY <1>9, <3>4, <3>5, <3>6 DEF Finish, redis
  <2> QED
    BY <1>1, <1>4, <1>9, <2>1, SlotMoves DEF Finish, history
<1>10. ASSUME NEW w \in Requests, NEW r \in Resources, AfterDone(w, r) PROVE Owned' /\ Kept'
  <2>1. /\ \A v \in Requests \ {w} : req'[v].holds = req[v].holds
        /\ req'[w].holds = req[w].holds \ {r}
    BY <1>1, <1>10 DEF AfterDone, ReqOK, Reqs
  <2> QED
    BY <1>4, <1>10, <2>1, SlotMoves DEF AfterDone, history
<1>11. ASSUME NEW r \in Resources, Expire(r) PROVE Owned' /\ Kept'
  <2>1. /\ \A s \in Resources : slots'[s] \subseteq slots[s] /\ (~evicted'[s] => slots'[s] = slots[s] /\ ~evicted[s])
        /\ UNCHANGED req
    BY <1>11 DEF Expire, StoreOK, Rest
  <2> QED
    BY <2>1 DEF Owned, Kept, Holders
<1>12. ASSUME NEW p \in Processes, Clean(p) PROVE Owned' /\ Kept'
  <2>1. /\ \A s \in Resources : slots'[s] \subseteq slots[s] /\ (~evicted'[s] => slots'[s] = slots[s] /\ ~evicted[s])
        /\ UNCHANGED req
    BY <1>12 DEF Clean, RemoveForeign, DeleteCounter, redis, history, StoreOK, Rest
  <2> QED
    BY <2>1 DEF Owned, Kept, Holders
<1>13. ASSUME NEW p \in Processes, Restart(p) PROVE Owned' /\ Kept'
  <2>1. \A w \in Requests : req'[w].holds = IF w \in Busy(p) THEN {} ELSE req[w].holds
    BY <1>13 DEF Restart, NoReq
  <2>2. UNCHANGED evicted /\ \A r \in Resources : slots'[r] = slots[r] \ Busy(p)
    BY <1>13 DEF Restart, history
  <2> QED
    BY <2>1, <2>2 DEF Owned, Kept, Holders, StoreOK
<1>14. ASSUME NEW r \in Resources, WaitExpires(r) PROVE Owned' /\ Kept'
  BY <1>2, <1>14 DEF WaitExpires, history
<1>15. CASE UNCHANGED vars
  BY <1>2, <1>15 DEF vars
<1> QED
  BY <1>3, <1>5, <1>6, <1>7, <1>8, <1>9, <1>10, <1>11, <1>12, <1>13, <1>14, <1>15 DEF Next

\* The slots of a user and of an account are those of the requests that hold them, always.
LEMMA AlwaysOwned == Spec => [](Shape /\ Owned /\ Kept)
<1>1. Init => Owned /\ Kept
  BY DEF Init, Owned, Kept, Holders, NoReq, Resources
<1>2. Shape /\ Owned /\ Kept /\ [Next]_vars => Owned' /\ Kept'
  BY SlotSteps
<1> QED
  BY <1>1, <1>2, AlwaysShape, PTL DEF Spec

\* The requests that hold a slot of a user or an account are never more than its
\* limit, unless the TTL or a starting process took the slot of one that runs.
THEOREM SlotsBounded == Spec => []SlotsWithinLimit
<1>1. Shape /\ Kept => SlotsWithinLimit
  <2> SUFFICES ASSUME Shape, Kept, NEW r \in Resources, ~evicted[r]
               PROVE  Cardinality(Holders(r)) <= Limit
    BY DEF SlotsWithinLimit
  <2>1. Holders(r) \subseteq slots[r] /\ slots[r] \in SUBSET Requests /\ orphans[r] \in Nat
    BY DEF Kept, Shape, StoreOK
  <2>2. /\ Cardinality(Holders(r)) <= Cardinality(slots[r])
        /\ Cardinality(Holders(r)) \in Nat /\ Cardinality(slots[r]) \in Nat
    BY <2>1, Basics DEF Holders
  <2>3. Cardinality(slots[r]) + orphans[r] <= Limit
    BY DEF Shape, Room, Occupied
  <2> QED
    BY <2>1, <2>2, <2>3, Basics
<1> QED
  BY <1>1, AlwaysOwned, PTL

----------------------------------------------------------------------------
(* The slots nobody gives back *)

\* A client that has gone spoils one more call: the request has still to be
\* counted for the account, or to leave while its account is read.
Spoils(q) == q.gone /\ \/ q.pc \in {"count", "select", "hydrate", "serve", "served"}
                       \/ q.pc = "uncount" /\ q.r \in q.holds
Coming == {w \in Requests : Spoils(req[w])}

\* One failure loses at most one slot, and a client that has gone one of an account.
Orphaned ==
    /\ orphans["user"] <= faults
    /\ orphans["account"] + Cardinality(Coming) <= faults + cancels

\* A request comes to spoil a call by a cancellation, and spoils one only.
LEMMA SpoilSteps ==
  ASSUME Shape, [Next]_vars
  PROVE  /\ \A v \in Requests : Spoils(req'[v]) => Spoils(req[v]) \/ Cancel(v)
         /\ \A v \in Requests : Count(v) /\ req[v].gone => Spoils(req[v]) /\ ~Spoils(req'[v])
         /\ \A v \in Requests : Hydrate(v) /\ req[v].gone => Spoils(req[v]) /\ ~Spoils(req'[v])
<1> USE DEF Shape
<1>1. \A w \in Requests : req[w] \in Reqs /\ Sane(req[w])
  BY DEF ReqOK, Control
<1>2. ASSUME NEW w \in Requests, Begin(w) PROVE ~Spoils(req'[w]) /\ \A v \in Requests \ {w} : req'[v] = req[v]
  <2>1. req[w] = NoReq
    BY <1>1, <1>2 DEF Begin, At, Sane
  <2> QED
    BY <1>2, <2>1 DEF Begin, Goto, ReqOK, Spoils, NoReq
<1>3. ASSUME NEW w \in Requests, Count(w)
      PROVE  ~Spoils(req'[w]) /\ (\A v \in Requests \ {w} : req'[v] = req[v]) /\ (req[w].gone => Spoils(req[w]))
  BY <1>1, <1>3 DEF Count, At, Goto, ReqOK, Reqs, Spoils
<1>4. ASSUME NEW w \in Requests, Acquire(w) PROVE ~Spoils(req'[w]) /\ \A v \in Requests \ {w} : req'[v] = req[v]
  <2>1. CASE Goto(w, RefusedPc(req[w].r))
    BY <1>1, <1>4, <2>1 DEF Acquire, At, Goto, ReqOK, Reqs, Resources, Sane, RefusedPc, Spoils
  <2>2. CASE ~req[w].gone /\ req' = [req EXCEPT ![w].pc = "uncount", ![w].holds = @ \cup {req[w].r}]
    BY <1>1, <2>2 DEF ReqOK, Reqs, Spoils
  <2> QED
    BY <1>4, <2>1, <2>2 DEF Acquire
<1>5. ASSUME NEW w \in Requests, Uncount(w)
      PROVE  (Spoils(req'[w]) => Spoils(req[w])) /\ \A v \in Requests \ {w} : req'[v] = req[v]
  BY <1>1, <1>5 DEF Uncount, At, ReqOK, Reqs, Spoils
<1>6. ASSUME NEW w \in Requests, SelectAccount(w)
      PROVE  (Spoils(req'[w]) => Spoils(req[w])) /\ \A v \in Requests \ {w} : req'[v] = req[v]
  BY <1>1, <1>6 DEF SelectAccount, At, Goto, ReqOK, Reqs, Spoils
<1>7. ASSUME NEW w \in Requests, Hydrate(w)
      PROVE  /\ Spoils(req'[w]) => Spoils(req[w])
             /\ req[w].gone => Spoils(req[w]) /\ ~Spoils(req'[w])
             /\ \A v \in Requests \ {w} : req'[v] = req[v]
  BY <1>1, <1>7 DEF Hydrate, At, Goto, ReqOK, Reqs, Spoils
<1>8. ASSUME NEW w \in Requests, Forward(w) \/ ReleaseAccount(w)
      PROVE  (Spoils(req'[w]) => Spoils(req[w])) /\ \A v \in Requests \ {w} : req'[v] = req[v]
  BY <1>1, <1>8 DEF Forward, ReleaseAccount, At, Goto, ReqOK, Reqs, Spoils
<1>9. ASSUME NEW w \in Requests, Finish(w)
      PROVE  ~Spoils(req'[w]) /\ \A v \in Requests \ {w} : req'[v] = req[v]
  <2>1. CASE req' = [req EXCEPT ![w] = NoReq]
    BY <2>1 DEF ReqOK, NoReq, Spoils
  <2>2. req[w].pc = "finish"
    BY <1>9 DEF Finish, At
  <2>3. CASE req' = [req EXCEPT ![w].holds = @ \ {"user"}]
    BY <1>1, <2>2, <2>3 DEF ReqOK, Reqs, Spoils
  <2>4. CASE req' = [req EXCEPT ![w].counted["user"] = "no"]
    BY <1>1, <2>2, <2>4 DEF ReqOK, Reqs, Spoils
  <2> QED
    BY <1>9, <2>1, <2>3, <2>4 DEF Finish
<1>10. ASSUME NEW w \in Requests, NEW r \in Resources, AfterDone(w, r)
       PROVE  (Spoils(req'[w]) => Spoils(req[w])) /\ \A v \in Requests \ {w} : req'[v] = req[v]
  BY <1>1, <1>10 DEF AfterDone, ReqOK, Reqs, Spoils
<1>11. ASSUME NEW p \in Processes, Restart(p) PROVE \A v \in Requests : Spoils(req'[v]) => Spoils(req[v])
  <2>1. ~Spoils(NoReq)
    BY DEF NoReq, Spoils
  <2> QED
    BY <1>11, <2>1 DEF Restart
<1>12. ASSUME NEW w \in Requests, Cancel(w)
       PROVE  \A v \in Requests \ {w} : req'[v] = req[v]
  BY <1>12 DEF Cancel, ReqOK
<1>13. CASE UNCHANGED req
  BY <1>3, <1>7, <1>13
<1> QED
  BY <1>2, <1>3, <1>4, <1>5, <1>6, <1>7, <1>8, <1>9, <1>10, <1>11, <1>12, <1>13
     DEF Next, vars, Expire, WaitExpires, Clean

\* How many calls a client that has gone can still spoil.
LEMMA ComingMoves ==
  ASSUME Shape, [Next]_vars
  PROVE  /\ Cardinality(Coming) \in Nat /\ Cardinality(Coming)' \in Nat
         /\ Cardinality(Coming)' + cancels <= Cardinality(Coming) + cancels'
         /\ \A w \in Requests : (Count(w) \/ Hydrate(w)) /\ req[w].gone =>
              Cardinality(Coming)' + 1 <= Cardinality(Coming)
<1>1. /\ Coming \in SUBSET Requests /\ Coming' \in SUBSET Requests
      /\ Cardinality(Coming) \in Nat /\ Cardinality(Coming)' \in Nat
      /\ cancels \in Nat /\ cancels' \in Nat /\ cancels <= cancels'
  BY Basics, FaultSteps DEF Coming, Shape
<1>2. ASSUME NEW w \in Requests, Cancel(w)
      PROVE  Cardinality(Coming)' + cancels <= Cardinality(Coming) + cancels'
  <2>1. \A v \in Requests \ {w} : v \in Coming <=> v \in Coming'
    BY <1>2 DEF Cancel, Coming, Shape, ReqOK
  <2>2. Cardinality(Coming)' <= Cardinality(Coming) + 1
    BY <1>1, <2>1, OneMoves
  <2> QED
    BY <1>1, <1>2, <2>2 DEF Cancel
<1>3. ASSUME \A w \in Requests : ~Cancel(w)
      PROVE  Cardinality(Coming)' + cancels <= Cardinality(Coming) + cancels'
  <2>1. Coming' \subseteq Coming
    BY <1>3, SpoilSteps DEF Coming
  <2> QED
    BY <1>1, <2>1, Basics
<1>4. ASSUME NEW w \in Requests, (Count(w) \/ Hydrate(w)) /\ req[w].gone
      PROVE  Cardinality(Coming)' + 1 <= Cardinality(Coming)
  <2>1. w \in Coming /\ w \notin Coming'
    BY <1>4, SpoilSteps DEF Coming
  <2>2. \A v \in Requests : ~Cancel(v)
    BY <1>1, <1>4 DEF Count, Hydrate, Cancel
  <2>3. Coming' \subseteq Coming \ {w}
    BY <2>1, <2>2, SpoilSteps DEF Coming
  <2>4. Cardinality(Coming) = Cardinality(Coming \ {w}) + 1
    BY <1>1, <2>1, OneMoves
  <2>5. Cardinality(Coming)' <= Cardinality(Coming \ {w}) /\ Cardinality(Coming \ {w}) \in Nat
    BY <1>1, <2>3, Basics
  <2> QED
    BY <1>1, <2>4, <2>5
<1> QED
  BY <1>1, <1>2, <1>3, <1>4

\* A slot is lost with a failure, or to a client that has gone while the account
\* was read.
LEMMA OrphanGrowth ==
  ASSUME Shape, [Next]_vars, NEW r \in Resources
  PROVE  \/ orphans'[r] + faults <= orphans[r] + faults'
         \/ /\ r = "account" /\ orphans'[r] <= orphans[r] + 1 /\ faults <= faults'
            /\ \E w \in Requests : Hydrate(w) /\ req[w].gone
<1> USE DEF Shape
<1>1. /\ orphans \in [Resources -> Nat] /\ faults \in Nat /\ faults' \in Nat /\ faults <= faults'
      /\ "user" \in Resources /\ "account" \in Resources
      /\ \A w \in Requests : req[w].r \in Resources
  BY FaultSteps DEF StoreOK, Resources, ReqOK, Reqs
<1>2. ASSUME \A s \in Resources : orphans'[s] \in Nat /\ orphans'[s] <= orphans[s]
      PROVE  orphans'[r] + faults <= orphans[r] + faults'
  BY <1>1, <1>2
<1>3. ASSUME Fails, \A s \in Resources : orphans'[s] \in Nat /\ orphans'[s] <= orphans[s] + 1
      PROVE  orphans'[r] + faults <= orphans[r] + faults'
  BY <1>1, <1>3 DEF Fails
<1>4. ASSUME NEW s \in Resources, AddOrphan(s)
      PROVE  \A t \in Resources : orphans'[t] \in Nat /\ orphans'[t] <= orphans[t] + 1
  BY <1>1, <1>4 DEF AddOrphan
<1>5. ASSUME NEW w \in Requests, NEW s \in Resources, LoseSlot(w, s)
      PROVE  \A t \in Resources : /\ orphans'[t] \in Nat /\ orphans'[t] <= orphans[t] + 1
                                  /\ t # s => orphans'[t] <= orphans[t]
  <2>1. orphans[s] + 1 \in Nat
    BY <1>1
  <2> QED
    BY <1>1, <1>5, <2>1 DEF LoseSlot
<1>6. ASSUME NEW w \in Requests, NEW s \in Resources, Release(w, s)
      PROVE  orphans'[r] + faults <= orphans[r] + faults'
  <2>1. CASE RemoveSlot(w, s)
    BY <1>1, <1>2, <2>1 DEF RemoveSlot, Stopped
  <2>2. CASE Fails /\ LoseSlot(w, s)
    BY <1>3, <1>5, <2>2
  <2> QED
    BY <1>6, <2>1, <2>2 DEF Release
<1>7. ASSUME NEW w \in Requests, Begin(w) \/ Count(w) \/ Uncount(w) \/ Forward(w) \/ Cancel(w)
      PROVE  orphans'[r] + faults <= orphans[r] + faults'
  BY <1>1, <1>2, <1>7 DEF Begin, Count, Uncount, Forward, Cancel, redis
<1>8. ASSUME NEW w \in Requests, Acquire(w) \/ SelectAccount(w)
      PROVE  orphans'[r] + faults <= orphans[r] + faults'
  <2>1. \/ UNCHANGED orphans
        \/ Fails /\ \E s \in Resources : AddOrphan(s)
    BY <1>1, <1>8 DEF Acquire, SelectAccount, AddSlot
  <2> QED
    BY <1>1, <1>2, <1>3, <1>4, <2>1
<1>9. ASSUME NEW w \in Requests, Hydrate(w)
      PROVE  \/ orphans'[r] + faults <= orphans[r] + faults'
             \/ r = "account" /\ req[w].gone /\ orphans'[r] <= orphans[r] + 1 /\ faults <= faults'
  <2>1. \/ UNCHANGED orphans
        \/ Release(w, "account")
        \/ Fails /\ LoseSlot(w, "account")
        \/ req[w].gone /\ LoseSlot(w, "account")
    BY <1>9 DEF Hydrate
  <2>2. CASE UNCHANGED orphans
    BY <1>1, <1>2, <2>2
  <2>3. CASE Release(w, "account")
    BY <1>1, <1>6, <2>3
  <2>4. CASE Fails /\ LoseSlot(w, "account")
    BY <1>1, <1>3, <1>5, <2>4
  <2>5. CASE req[w].gone /\ LoseSlot(w, "account")
    BY <1>1, <1>5, <2>5
  <2> QED
    BY <2>1, <2>2, <2>3, <2>4, <2>5
<1>10. ASSUME NEW w \in Requests, ReleaseAccount(w) \/ Finish(w) \/ \E s \in Resources : AfterDone(w, s)
       PROVE  orphans'[r] + faults <= orphans[r] + faults'
  <2>1. UNCHANGED orphans \/ \E s \in Resources : Release(w, s)
    BY <1>1, <1>10 DEF ReleaseAccount, Finish, AfterDone, redis
  <2> QED
    BY <1>1, <1>2, <1>6, <2>1
<1>11. ASSUME NEW s \in Resources, Expire(s) \/ WaitExpires(s)
       PROVE  orphans'[r] + faults <= orphans[r] + faults'
  <2>1. orphans[s] > 0 => orphans[s] - 1 \in Nat
    BY <1>1
  <2>2. \A t \in Resources : orphans'[t] \in Nat /\ orphans'[t] <= orphans[t]
    BY <1>1, <1>11, <2>1 DEF Expire, WaitExpires
  <2> QED
    BY <1>2, <2>2
<1>12. ASSUME NEW p \in Processes, Clean(p)
       PROVE  orphans'[r] + faults <= orphans[r] + faults'
  <2>1. \A t \in Resources : orphans'[t] \in Nat /\ orphans'[t] <= orphans[t]
    BY <1>1, <1>12 DEF Clean, RemoveForeign, DeleteCounter, redis
  <2> QED
    BY <1>2, <2>1
<1>13. ASSUME NEW p \in Processes, Restart(p)
       PROVE  orphans'[r] + faults <= orphans[r] + faults'
  <2>1. /\ orphans'[r] = orphans[r] + Cardinality(slots[r] \cap Busy(p))
        /\ faults' = faults + Cardinality(Busy(p))
    BY <1>13 DEF Restart
  <2>2. /\ Busy(p) \in SUBSET Requests /\ slots[r] \cap Busy(p) \in SUBSET Requests
        /\ slots[r] \cap Busy(p) \subseteq Busy(p)
    BY DEF Busy, Requests
  <2>3. /\ Cardinality(slots[r] \cap Busy(p)) \in Nat /\ Cardinality(Busy(p)) \in Nat
        /\ Cardinality(slots[r] \cap Busy(p)) <= Cardinality(Busy(p))
    BY <2>2, Basics
  <2> QED
    BY <1>1, <2>1, <2>3
<1>14. CASE UNCHANGED vars
  BY <1>1, <1>2, <1>14 DEF vars
<1> QED
  BY <1>7, <1>8, <1>9, <1>10, <1>11, <1>12, <1>13, <1>14 DEF Next

\* Slots left behind stay within the failures and the cancellations.
LEMMA OrphanSteps ==
  ASSUME Shape, Orphaned, [Next]_vars PROVE Orphaned'
<1>1. /\ "user" \in Resources /\ "account" \in Resources
      /\ orphans \in [Resources -> Nat] /\ orphans' \in [Resources -> Nat]
  BY StoreSteps DEF Shape, StoreOK, ReqOK, Resources
<1>2. /\ faults \in Nat /\ faults' \in Nat /\ cancels \in Nat /\ cancels' \in Nat
      /\ faults <= faults' /\ cancels <= cancels'
  BY FaultSteps DEF Shape
<1>3. orphans["user"] \in Nat /\ orphans'["user"] \in Nat /\ orphans["account"] \in Nat /\ orphans'["account"] \in Nat
  BY <1>1
<1>4. orphans'["user"] <= faults'
  <2>1. orphans'["user"] + faults <= orphans["user"] + faults'
    BY <1>1, OrphanGrowth
  <2> QED
    BY <1>2, <1>3, <2>1 DEF Orphaned
<1>5. orphans'["account"] + Cardinality(Coming)' <= faults' + cancels'
  <2>1. /\ Cardinality(Coming) \in Nat /\ Cardinality(Coming)' \in Nat
        /\ Cardinality(Coming)' + cancels <= Cardinality(Coming) + cancels'
    BY ComingMoves
  <2>2. CASE orphans'["account"] + faults <= orphans["account"] + faults'
    BY <1>2, <1>3, <2>1, <2>2 DEF Orphaned
  <2>3. CASE /\ orphans'["account"] <= orphans["account"] + 1
             /\ \E w \in Requests : Hydrate(w) /\ req[w].gone
    <3>1. Cardinality(Coming)' + 1 <= Cardinality(Coming)
      BY <2>3, ComingMoves
    <3> QED
      BY <1>2, <1>3, <2>1, <2>3, <3>1 DEF Orphaned
  <2> QED
    BY <1>1, <2>2, <2>3, OrphanGrowth
<1> QED
  BY <1>4, <1>5 DEF Orphaned

\* However requests end, an occupied slot belongs to a request that will release
\* it, except one for each failure and, of an account, one for each client that
\* goes while its account is read.
THEOREM SlotsKept == Spec => []SlotsNotLost
<1>1. Init => Orphaned
  <2> SUFFICES ASSUME Init PROVE Orphaned
    OBVIOUS
  <2>1. Coming = {}
    BY DEF Init, Coming, Spoils, NoReq
  <2> QED
    BY <2>1, Basics DEF Init, Orphaned, Resources
<1>2. Shape /\ Orphaned /\ [Next]_vars => Orphaned'
  BY OrphanSteps
<1>3. Shape /\ Owned /\ Orphaned => SlotsNotLost
  <2> SUFFICES ASSUME Shape, Owned, Orphaned, NEW r \in Resources
               PROVE  Occupied(r) <= Cardinality(Holders(r)) + faults
                                     + (IF r = "account" THEN cancels ELSE 0)
    BY DEF SlotsNotLost
  <2>1. /\ Cardinality(slots[r]) \in Nat /\ Cardinality(Holders(r)) \in Nat
        /\ Cardinality(slots[r]) <= Cardinality(Holders(r))
    <3>1. slots[r] \in SUBSET Requests /\ Holders(r) \in SUBSET Requests /\ slots[r] \subseteq Holders(r)
      BY DEF Shape, StoreOK, Owned, Holders
    <3> QED
      BY <3>1, Basics
  <2>2. /\ orphans[r] \in Nat /\ faults \in Nat /\ cancels \in Nat
        /\ Cardinality(Coming) \in Nat
    BY Basics DEF Shape, StoreOK, Rest, Coming
  <2>3. CASE r = "account"
    BY <2>1, <2>2, <2>3 DEF Orphaned, Occupied
  <2>4. CASE r = "user"
    BY <2>1, <2>2, <2>4 DEF Orphaned, Occupied
  <2> QED
    BY <2>3, <2>4 DEF Resources
<1> QED
  BY <1>1, <1>2, <1>3, AlwaysOwned, PTL DEF Spec

----------------------------------------------------------------------------
(* The queues *)

Queued(r) == {w \in Requests : req[w].counted[r] # "no"}
Open(r) == {w \in Requests : req[w].counted[r] = "open"}

\* Who is counted although the counter was not incremented: one request for each
\* failure, and one for each client that went before it was counted.
OpenCharged ==
    \A r \in Resources : Cardinality(Open(r)) + Cardinality(Coming) <= faults + cancels

\* A counter lacks a unit only for such a request.
QueueCharged ==
    \A r \in Resources : ~reset[r] =>
        Cardinality(Queued(r)) + Cardinality(Coming) <= waits[r] + faults + cancels

\* What a step does to one queue.
Alone(w, r) == \A v \in Requests \ {w} : req'[v].counted[r] = req[v].counted[r]
Joins(w, r, c) == req[w].counted[r] = "no" /\ req'[w].counted[r] = c /\ Alone(w, r)
Leaves(w, r) == req[w].counted[r] # "no" /\ req'[w].counted[r] = "no" /\ Alone(w, r)

Stays(r) == /\ waits'[r] = waits[r] /\ reset'[r] = reset[r]
            /\ \A v \in Requests : req'[v].counted[r] = req[v].counted[r]
CountsOne(r) == /\ waits'[r] = waits[r] + 1 /\ reset'[r] = reset[r]
                /\ \E w \in Requests : Joins(w, r, "real")
LetsOneIn(r) == /\ waits'[r] = waits[r] /\ reset'[r] = reset[r]
                /\ \E w \in Requests : Joins(w, r, "open") /\ (Fails \/ (Count(w) /\ req[w].gone))
GivesBack(r) == /\ waits'[r] <= waits[r] /\ waits[r] <= waits'[r] + 1 /\ reset'[r] = reset[r]
                /\ waits'[r] = 0 \/ waits'[r] + 1 <= waits[r] \/ Fails
                /\ \E w \in Requests : Leaves(w, r)
Clears(r) == /\ waits'[r] = 0 /\ UNCHANGED req
             /\ \/ reset'[r]
                \/ reset'[r] = reset[r] /\ waits[r] = 0
                \/ reset'[r] = reset[r] /\ \A w \in Requests : req[w].counted[r] # "real"

\* What a step can do to one queue: a request joins, is let in or leaves, or the queue is cleared.
LEMMA QueueMoves ==
  ASSUME Shape, [Next]_vars, NEW r \in Resources
  PROVE  \/ Stays(r) \/ CountsOne(r) \/ LetsOneIn(r) \/ GivesBack(r) \/ Clears(r)
         \/ \E p \in Processes : Restart(p)
<1> USE DEF Shape
<1>1. /\ "user" \in Resources /\ "account" \in Resources
      /\ \A w \in Requests : /\ req[w] \in Reqs /\ req[w].r \in Resources /\ Sane(req[w])
                             /\ req[w].counted \in [Resources -> {"no", "open", "real"}]
      /\ waits \in [Resources -> 0..MaxWait] /\ \A s \in Resources : waits[s] \in Nat
      /\ reset \in [Resources -> BOOLEAN]
  BY Basics DEF Resources, ReqOK, Reqs, Control, WaitsOK, Rest
<1>2. ASSUME UNCHANGED <<waits, reset>>, \A v \in Requests : req'[v].counted = req[v].counted
      PROVE  Stays(r)
  BY <1>2 DEF Stays
<1>3. ASSUME NEW w \in Requests, Count(w) PROVE Stays(r) \/ CountsOne(r) \/ LetsOneIn(r)
  <2>1. req[w].counted[req[w].r] = "no" /\ UNCHANGED reset
    BY <1>1, <1>3 DEF Count, At, Sane, Resources, history
  <2>2. CASE Goto(w, "finish") /\ UNCHANGED waits
    BY <1>1, <1>2, <2>1, <2>2 DEF Goto, ReqOK, Reqs
  <2>3. ASSUME NEW c \in {"open", "real"}, req' = [req EXCEPT ![w].pc = "acquire", ![w].counted[req[w].r] = c]
        PROVE  /\ Joins(w, req[w].r, c)
               /\ r # req[w].r => \A v \in Requests : req'[v].counted[r] = req[v].counted[r]
    <3>1. /\ req'[w].counted = [req[w].counted EXCEPT ![req[w].r] = c]
          /\ \A v \in Requests \ {w} : req'[v] = req[v]
      BY <1>1, <2>3 DEF ReqOK, Reqs
    <3> QED
      BY <1>1, <2>1, <3>1 DEF Joins, Alone
  <2>4. CASE /\ req' = [req EXCEPT ![w].pc = "acquire", ![w].counted[req[w].r] = "real"]
             /\ Increment(req[w].r)
    <3>1. /\ Joins(w, req[w].r, "real")
          /\ r # req[w].r => \A v \in Requests : req'[v].counted[r] = req[v].counted[r]
      BY <2>3, <2>4
    <3>2. waits'[req[w].r] = waits[req[w].r] + 1 /\ (r # req[w].r => waits'[r] = waits[r])
      BY <1>1, <2>4 DEF Increment
    <3> QED
      BY <2>1, <3>1, <3>2 DEF CountsOne, Stays
  <2>5. CASE /\ req' = [req EXCEPT ![w].pc = "acquire", ![w].counted[req[w].r] = "open"]
             /\ UNCHANGED waits /\ (Fails \/ req[w].gone)
    <3>1. /\ Joins(w, req[w].r, "open")
          /\ r # req[w].r => \A v \in Requests : req'[v].counted[r] = req[v].counted[r]
      BY <2>3, <2>5
    <3>2. /\ UNCHANGED waits /\ UNCHANGED reset
          /\ Fails \/ (Count(w) /\ req[w].gone)
      <4>1. Count(w)
        BY <1>3
      <4> HIDE DEF Count
      <4> QED
        BY <2>1, <2>5, <4>1
    <3>3. CASE r = req[w].r
      <4>1. Joins(w, r, "open")
        BY <3>1, <3>3
      <4> QED
        BY <3>2, <4>1, Zenon DEF LetsOneIn
    <3>4. CASE r # req[w].r
      BY <3>1, <3>2, <3>4 DEF Stays
    <3> QED
      BY <3>3, <3>4
  <2> QED
    BY <1>3, <2>2, <2>4, <2>5 DEF Count
<1>4. ASSUME NEW w \in Requests, NEW s \in Resources, Decrement(w, s), UNCHANGED reset,
             req[w].counted[s] # "no", req'[w].counted = [req[w].counted EXCEPT ![s] = "no"],
             \A v \in Requests \ {w} : req'[v].counted = req[v].counted
      PROVE  Stays(r) \/ GivesBack(r)
  <2>1. Leaves(w, s) /\ (r # s => \A v \in Requests : req'[v].counted[r] = req[v].counted[r])
    BY <1>1, <1>4 DEF Leaves, Alone
  <2>2. /\ r # s => waits'[r] = waits[r]
        /\ waits'[s] <= waits[s] /\ waits[s] <= waits'[s] + 1
        /\ waits'[s] = 0 \/ waits'[s] + 1 <= waits[s] \/ Fails
    <3>1. CASE Decremented(s)
      BY <1>1, <3>1 DEF Decremented
    <3>2. CASE Fails /\ UNCHANGED waits
      BY <1>1, <3>2
    <3> QED
      BY <1>4, <3>1, <3>2 DEF Decrement, Stopped
  <2> QED
    BY <1>4, <2>1, <2>2 DEF Stays, GivesBack
<1>5. ASSUME NEW w \in Requests, Uncount(w) PROVE Stays(r) \/ GivesBack(r)
  <2>1. /\ req'[w].counted = [req[w].counted EXCEPT ![req[w].r] = "no"]
        /\ \A v \in Requests \ {w} : req'[v].counted = req[v].counted
    BY <1>1, <1>5 DEF Uncount, Counted, ReqOK, Reqs
  <2>2. req[w].counted[req[w].r] # "no"
    BY <1>1, <1>5 DEF Uncount, At, Sane
  <2> QED
    BY <1>1, <1>4, <1>5, <2>1, <2>2 DEF Uncount, history
<1>6. ASSUME NEW w \in Requests, Finish(w) PROVE Stays(r) \/ GivesBack(r)
  <2>1. req[w].pc = "finish" /\ UNCHANGED reset
    BY <1>6 DEF Finish, At, history
  <2>2. CASE UNCHANGED waits /\ req' = [req EXCEPT ![w].holds = @ \ {"user"}]
    <3>1. \A v \in Requests : req'[v].counted = req[v].counted
      BY <1>1, <2>2 DEF ReqOK, Reqs
    <3> QED
      BY <1>2, <2>1, <2>2, <3>1
  <2>3. CASE /\ req[w].counted["user"] # "no" /\ Decrement(w, "user")
             /\ req' = [req EXCEPT ![w].counted["user"] = "no"]
    <3>1. /\ req'[w].counted = [req[w].counted EXCEPT !["user"] = "no"]
          /\ \A v \in Requests \ {w} : req'[v].counted = req[v].counted
      BY <1>1, <2>3 DEF ReqOK, Reqs
    <3> QED
      BY <1>1, <1>4, <2>1, <2>3, <3>1
  <2>4. CASE /\ req[w].counted["user"] = "no" /\ UNCHANGED waits /\ req' = [req EXCEPT ![w] = NoReq]
    <3>1. req[w].counted["account"] = "no"
      BY <1>1, <2>1 DEF Sane
    <3>2. \A s \in Resources : req[w].counted[s] = "no" /\ NoReq.counted[s] = "no"
      BY <2>4, <3>1 DEF NoReq, Resources
    <3>3. \A v \in Requests, s \in Resources : req'[v].counted[s] = req[v].counted[s]
      BY <2>4, <3>2 DEF ReqOK
    <3> QED
      BY <2>1, <2>4, <3>3 DEF Stays
  <2> QED
    BY <1>6, <2>2, <2>3, <2>4 DEF Finish, redis
<1>7. ASSUME NEW w \in Requests, Begin(w) \/ Acquire(w) \/ SelectAccount(w) \/ Hydrate(w)
      PROVE  Stays(r)
  <2>0. ASSUME NEW pc, NEW s, NEW h,
               \/ req' = [req EXCEPT ![w].pc = pc]
               \/ req' = [req EXCEPT ![w].pc = pc, ![w].r = s]
               \/ req' = [req EXCEPT ![w].pc = pc, ![w].holds = h]
               \/ req' = [req EXCEPT ![w].pc = pc, ![w].r = s, ![w].holds = h]
        PROVE  \A v \in Requests : req'[v].counted = req[v].counted
    <3>1. req \in [Requests -> Reqs]
      BY <1>1 DEF ReqOK
    <3>2. req[w] \in Reqs
      BY <3>1
    <3>3. \/ req'[w] = [req[w] EXCEPT !.pc = pc]
          \/ req'[w] = [req[w] EXCEPT !.pc = pc, !.r = s]
          \/ req'[w] = [req[w] EXCEPT !.pc = pc, !.holds = h]
          \/ req'[w] = [req[w] EXCEPT !.pc = pc, !.r = s, !.holds = h]
      BY <2>0, <3>1
    <3>4. req'[w].counted = req[w].counted
      BY <3>2, <3>3 DEF Reqs
    <3>5. \A v \in Requests \ {w} : req'[v] = req[v]
      BY <2>0, <3>1
    <3> QED
      BY <3>4, <3>5
  <2>1. \A v \in Requests : req'[v].counted = req[v].counted
    <3>1. CASE Begin(w)
      BY <1>1, <3>1 DEF Begin, Goto, ReqOK, Reqs
    <3>2. CASE Acquire(w)
      <4>1. \/ req' = [req EXCEPT ![w].pc = "uncount", ![w].holds = @ \cup {req[w].r}]
            \/ req' = [req EXCEPT ![w].pc = RefusedPc(req[w].r)]
        BY <3>2 DEF Acquire, Goto
      <4> QED
        BY <4>1, <2>0
    <3>3. CASE SelectAccount(w)
      <4>1. \/ req' = [req EXCEPT ![w].pc = "finish"]
            \/ req' = [req EXCEPT ![w].pc = "count", ![w].r = "account"]
            \/ req' = [req EXCEPT ![w].pc = "hydrate", ![w].r = "account", ![w].holds = @ \cup {"account"}]
        BY <3>3 DEF SelectAccount, Goto
      <4> QED
        BY <4>1, <2>0
    <3>4. CASE Hydrate(w)
      <4>1. \/ req' = [req EXCEPT ![w].pc = "serve"]
            \/ \E pc \in Pcs : req' = [req EXCEPT ![w].pc = pc, ![w].holds = @ \ {"account"}]
        BY <3>4 DEF Hydrate, Goto, Pcs
      <4> QED
        BY <4>1, <2>0
    <3> QED
      BY <1>7, <3>1, <3>2, <3>3, <3>4
  <2> QED
    BY <1>2, <1>7, <2>1 DEF Begin, Acquire, SelectAccount, Hydrate, redis, history
<1>8. ASSUME NEW w \in Requests, Forward(w) \/ ReleaseAccount(w) \/ Cancel(w) \/ \E s \in Resources : AfterDone(w, s)
      PROVE  Stays(r)
  <2>1. \A v \in Requests : req'[v].counted = req[v].counted
    <3>1. CASE Forward(w)
      BY <1>1, <3>1 DEF Forward, Goto, ReqOK, Reqs
    <3>2. CASE ReleaseAccount(w)
      BY <1>1, <3>2 DEF ReleaseAccount, ReqOK, Reqs
    <3>3. CASE Cancel(w)
      BY <1>1, <3>3 DEF Cancel, ReqOK, Reqs
    <3>4. CASE \E s \in Resources : AfterDone(w, s)
      BY <1>1, <3>4 DEF AfterDone, ReqOK, Reqs
    <3> QED
      BY <1>8, <3>1, <3>2, <3>3, <3>4
  <2> QED
    BY <1>2, <1>8, <2>1 DEF Forward, ReleaseAccount, Cancel, AfterDone, redis, history
<1>9. ASSUME NEW s \in Resources, Expire(s) PROVE Stays(r)
  BY <1>2, <1>9 DEF Expire
<1>10. ASSUME NEW s \in Resources, WaitExpires(s) PROVE Stays(r) \/ Clears(r)
  BY <1>1, <1>10 DEF WaitExpires, Stays, Clears, history
<1>11. ASSUME NEW p \in Processes, Clean(p) PROVE Stays(r) \/ Clears(r)
  <2>1. ASSUME NEW s \in Resources, DeleteCounter(s), UNCHANGED req PROVE Stays(r) \/ Clears(r)
    <3>1. waits[s] \in Nat /\ (waits[s] > 0 \/ waits[s] = 0)
      BY <1>1
    <3>2. waits'[s] = 0 /\ (reset'[s] \/ (reset'[s] = reset[s] /\ waits[s] = 0))
      <4>1. waits'[s] = 0 /\ (reset'[s] <=> reset[s] \/ waits[s] > 0) /\ reset'[s] \in BOOLEAN /\ reset[s] \in BOOLEAN
        BY <1>1, <2>1 DEF DeleteCounter
      <4>2. CASE waits[s] > 0
        BY <4>1, <4>2
      <4>3. CASE waits[s] = 0
        BY <4>1, <4>3
      <4> QED
        BY <3>1, <4>2, <4>3
    <3>3. r # s => waits'[r] = waits[r] /\ reset'[r] = reset[r]
      BY <1>1, <2>1 DEF DeleteCounter
    <3> QED
      BY <2>1, <3>2, <3>3 DEF Stays, Clears
  <2> QED
    BY <1>1, <1>2, <1>11, <2>1 DEF Clean, RemoveForeign, redis, history
<1>12. CASE UNCHANGED vars
  BY <1>2, <1>12 DEF vars
<1> QED
  BY <1>3, <1>5, <1>6, <1>7, <1>8, <1>9, <1>10, <1>11, <1>12 DEF Next

\* The sizes that the queues are measured with.
LEMMA Sizes ==
  ASSUME Shape, [Next]_vars, NEW r \in Resources
  PROVE  /\ Queued(r) \in SUBSET Requests /\ Queued(r)' \in SUBSET Requests
         /\ Counting(r) \in SUBSET Requests /\ Counting(r)' \in SUBSET Requests
         /\ Open(r) \in SUBSET Requests /\ Open(r)' \in SUBSET Requests
         /\ Cardinality(Queued(r)) \in Nat /\ Cardinality(Queued(r))' \in Nat
         /\ Cardinality(Counting(r)) \in Nat /\ Cardinality(Counting(r))' \in Nat
         /\ Cardinality(Open(r)) \in Nat /\ Cardinality(Open(r))' \in Nat
         /\ waits[r] \in Nat /\ waits'[r] \in Nat
         /\ faults \in Nat /\ faults' \in Nat /\ cancels \in Nat /\ cancels' \in Nat
         /\ faults <= faults' /\ cancels <= cancels'
<1>1. waits[r] \in Nat /\ waits'[r] \in Nat
  BY WaitsSteps, Basics DEF Shape, WaitsOK
<1> QED
  BY <1>1, Basics, FaultSteps DEF Shape, Queued, Counting, Open

\* A process that restarts takes its requests out of the queues.
LEMMA RestartQueues ==
  ASSUME Shape, [Next]_vars, NEW r \in Resources, NEW p \in Processes, Restart(p)
  PROVE  /\ waits' = waits /\ reset' = reset
         /\ Cardinality(Queued(r))' <= Cardinality(Queued(r))
         /\ Cardinality(Open(r))' <= Cardinality(Open(r))
         /\ Cardinality(Counting(r)) + faults <= Cardinality(Counting(r))' + faults'
<1>1. \A v \in Requests : req'[v].counted[r] = IF v \in Busy(p) THEN "no" ELSE req[v].counted[r]
  BY DEF Restart, NoReq
<1>2. Queued(r)' \subseteq Queued(r) /\ Open(r)' \subseteq Open(r)
  BY <1>1 DEF Queued, Open
<1>3. Cardinality(Counting(r)) <= Cardinality(Counting(r))' + Cardinality(Busy(p))
  <2>1. Busy(p) \in SUBSET Requests /\ Counting(r) \cap Busy(p) \in SUBSET Requests
    BY DEF Busy, Requests
  <2>2. Counting(r) \ Busy(p) \subseteq Counting(r)' /\ Counting(r) \ Busy(p) \in SUBSET Requests
    BY <1>1, Sizes DEF Counting
  <2>3. Cardinality(Counting(r) \ Busy(p)) = Cardinality(Counting(r)) - Cardinality(Counting(r) \cap Busy(p))
    BY Sizes, Basics, FS_Difference
  <2>4. /\ Cardinality(Counting(r) \cap Busy(p)) <= Cardinality(Busy(p))
        /\ Cardinality(Counting(r) \cap Busy(p)) \in Nat /\ Cardinality(Busy(p)) \in Nat
    <3>1. Counting(r) \cap Busy(p) \subseteq Busy(p)
      OBVIOUS
    <3> QED
      BY <2>1, <3>1, Basics
  <2>5. Cardinality(Counting(r) \ Busy(p)) <= Cardinality(Counting(r))'
    BY <2>2, Sizes, Basics
  <2>6. Cardinality(Counting(r)) \in Nat /\ Cardinality(Counting(r))' \in Nat
    BY Sizes
  <2> QED
    BY <2>3, <2>4, <2>5, <2>6
<1>4. faults' = faults + Cardinality(Busy(p)) /\ Cardinality(Busy(p)) \in Nat
  BY Basics DEF Restart, Busy, Requests
<1> QED
  BY <1>2, <1>3, <1>4, Sizes, Basics DEF Restart, history

\* What joining and leaving does to the sizes.
LEMMA Queues ==
  ASSUME Shape, [Next]_vars, NEW r \in Resources, NEW w \in Requests, Alone(w, r)
  PROVE  /\ Joins(w, r, "real") => /\ Cardinality(Queued(r))' = Cardinality(Queued(r)) + 1
                                   /\ Cardinality(Open(r))' = Cardinality(Open(r))
                                   /\ Cardinality(Counting(r))' = Cardinality(Counting(r)) + 1
         /\ Joins(w, r, "open") => /\ Cardinality(Queued(r))' = Cardinality(Queued(r)) + 1
                                   /\ Cardinality(Open(r))' = Cardinality(Open(r)) + 1
                                   /\ Cardinality(Counting(r))' = Cardinality(Counting(r))
         /\ Leaves(w, r) => /\ Cardinality(Queued(r)) = Cardinality(Queued(r))' + 1
                            /\ Cardinality(Open(r))' <= Cardinality(Open(r))
                            /\ Cardinality(Counting(r)) <= Cardinality(Counting(r))' + 1
<1>1. /\ \A v \in Requests \ {w} : v \in Queued(r) <=> v \in Queued(r)'
      /\ \A v \in Requests \ {w} : v \in Open(r) <=> v \in Open(r)'
      /\ \A v \in Requests \ {w} : v \in Counting(r) <=> v \in Counting(r)'
  BY DEF Alone, Queued, Open, Counting
<1>2. /\ Joins(w, r, "real") => /\ w \notin Queued(r) /\ w \in Queued(r)' /\ w \notin Open(r) /\ w \notin Open(r)'
                                /\ w \notin Counting(r) /\ w \in Counting(r)'
      /\ Joins(w, r, "open") => /\ w \notin Queued(r) /\ w \in Queued(r)' /\ w \notin Open(r) /\ w \in Open(r)'
                                /\ w \notin Counting(r) /\ w \notin Counting(r)'
      /\ Leaves(w, r) => w \in Queued(r) /\ w \notin Queued(r)' /\ w \notin Open(r)' /\ w \notin Counting(r)'
  BY DEF Joins, Leaves, Queued, Open, Counting
<1> DEFINE Q == Queued(r)
           O == Open(r)
           C == Counting(r)
<1>3. /\ Q \in SUBSET Requests /\ Q' \in SUBSET Requests
      /\ O \in SUBSET Requests /\ O' \in SUBSET Requests
      /\ C \in SUBSET Requests /\ C' \in SUBSET Requests
      /\ Cardinality(O) \in Nat /\ Cardinality(O') \in Nat
      /\ Cardinality(C) \in Nat /\ Cardinality(C') \in Nat
  BY Sizes
<1>4. /\ w \notin Q /\ w \in Q' => Cardinality(Q') = Cardinality(Q) + 1
      /\ w \in Q /\ w \notin Q' => Cardinality(Q) = Cardinality(Q') + 1
  BY <1>1, <1>3, OneMoves
<1>5. /\ w \notin O /\ w \in O' => Cardinality(O') = Cardinality(O) + 1
      /\ w \notin O /\ w \notin O' => Cardinality(O') = Cardinality(O)
      /\ w \in O /\ w \notin O' => Cardinality(O) = Cardinality(O') + 1
  BY <1>1, <1>3, OneMoves
<1>6. /\ w \notin C /\ w \in C' => Cardinality(C') = Cardinality(C) + 1
      /\ w \notin C /\ w \notin C' => Cardinality(C') = Cardinality(C)
      /\ w \in C /\ w \notin C' => Cardinality(C) = Cardinality(C') + 1
  BY <1>1, <1>3, OneMoves
<1> HIDE DEF Q, O, C
<1>7. w \notin O' => Cardinality(O') <= Cardinality(O)
  BY <1>3, <1>5
<1>8. w \notin C' => Cardinality(C) <= Cardinality(C') + 1
  BY <1>3, <1>6
<1> QED
  BY <1>2, <1>4, <1>5, <1>6, <1>7, <1>8 DEF Q, O, C

\* A counter exceeds those it counts by no more than the failures.
LEMMA PhantomSteps ==
  ASSUME Shape, NoPhantomWaiters, [Next]_vars, NEW r \in Resources
  PROVE  waits'[r] <= Cardinality(Counting(r))' + faults'
<1> DEFINE c == Cardinality(Counting(r))
           d == Cardinality(Counting(r))'
<1>1. /\ c \in Nat /\ d \in Nat /\ waits[r] \in Nat /\ waits'[r] \in Nat
      /\ faults \in Nat /\ faults' \in Nat /\ faults <= faults'
      /\ waits[r] <= c + faults
  BY Sizes DEF NoPhantomWaiters
<1> SUFFICES waits'[r] <= d + faults'
  OBVIOUS
<1>2. CASE Stays(r)
  <2>1. d = c
    <3>1. Counting(r)' = Counting(r)
      BY <1>2 DEF Stays, Counting
    <3> QED
      BY <3>1
  <2> QED
    BY <1>1, <1>2, <2>1 DEF Stays
<1>3. CASE CountsOne(r)
  <2>1. d = c + 1
    BY <1>3, Queues DEF CountsOne, Joins
  <2> QED
    BY <1>1, <1>3, <2>1 DEF CountsOne
<1>4. CASE LetsOneIn(r)
  <2>1. d = c
    BY <1>4, Queues DEF LetsOneIn, Joins
  <2> QED
    BY <1>1, <1>4, <2>1 DEF LetsOneIn
<1>5. CASE GivesBack(r)
  <2>1. c <= d + 1
    BY <1>5, Queues DEF GivesBack, Leaves
  <2> QED
    BY <1>1, <1>5, <2>1 DEF GivesBack, Fails
<1>6. CASE Clears(r)
  <2> QED
    BY <1>1, <1>6 DEF Clears
<1>7. CASE \E p \in Processes : Restart(p)
  <2>1. c + faults <= d + faults' /\ waits' = waits
    BY <1>7, RestartQueues
  <2> QED
    BY <1>1, <2>1
<1> QED
  BY <1>2, <1>3, <1>4, <1>5, <1>6, <1>7, QueueMoves

\* Requests counted without an increment stay within the failures and the cancellations.
LEMMA OpenSteps ==
  ASSUME Shape, OpenCharged, [Next]_vars, NEW r \in Resources
  PROVE  Cardinality(Open(r))' + Cardinality(Coming)' <= faults' + cancels'
<1> DEFINE o == Cardinality(Open(r))
           n == Cardinality(Open(r))'
           c == Cardinality(Coming)
           d == Cardinality(Coming)'
<1>1. /\ o \in Nat /\ n \in Nat /\ c \in Nat /\ d \in Nat
      /\ faults \in Nat /\ faults' \in Nat /\ faults <= faults'
      /\ cancels \in Nat /\ cancels' \in Nat /\ d + cancels <= c + cancels'
      /\ o + c <= faults + cancels
  BY Sizes, ComingMoves DEF OpenCharged
<1> SUFFICES n + d <= faults' + cancels'
  OBVIOUS
<1>2. ASSUME n <= o PROVE n + d <= faults' + cancels'
  <2> QED
    BY <1>1, <1>2
<1>3. CASE Stays(r) \/ Clears(r)
  <2>1. Open(r)' = Open(r)
    BY <1>3 DEF Stays, Clears, Open
  <2> QED
    BY <1>1, <1>2, <2>1
<1>4. CASE CountsOne(r)
  <2>1. n = o
    BY <1>4, Queues DEF CountsOne, Joins
  <2> QED
    BY <1>1, <1>2, <2>1
<1>5. CASE LetsOneIn(r)
  <2>1. PICK w \in Requests : Joins(w, r, "open") /\ (Fails \/ (Count(w) /\ req[w].gone))
    BY <1>5 DEF LetsOneIn
  <2>2. n = o + 1
    BY <2>1, Queues DEF Joins
  <2>3. CASE Fails
    <3> QED
      BY <1>1, <2>2, <2>3 DEF Fails
  <2>4. CASE Count(w) /\ req[w].gone
    <3>1. d + 1 <= c /\ cancels' = cancels
      BY <2>4, ComingMoves DEF Count
    <3> QED
      BY <1>1, <2>2, <3>1
  <2> QED
    BY <2>1, <2>3, <2>4
<1>6. CASE GivesBack(r)
  BY <1>2, <1>6, Queues DEF GivesBack, Leaves
<1>7. CASE \E p \in Processes : Restart(p)
  BY <1>2, <1>7, RestartQueues
<1> QED
  BY <1>3, <1>4, <1>5, <1>6, <1>7, QueueMoves

\* Those counted exceed the counter by no more than the failures and the cancellations.
LEMMA QueueSteps ==
  ASSUME Shape, OpenCharged, QueueCharged, [Next]_vars, NEW r \in Resources, ~reset'[r]
  PROVE  Cardinality(Queued(r))' + Cardinality(Coming)' <= waits'[r] + faults' + cancels'
<1> DEFINE q == Cardinality(Queued(r))
           n == Cardinality(Queued(r))'
           c == Cardinality(Coming)
           d == Cardinality(Coming)'
<1>1. /\ q \in Nat /\ n \in Nat /\ c \in Nat /\ d \in Nat
      /\ waits[r] \in Nat /\ waits'[r] \in Nat
      /\ faults \in Nat /\ faults' \in Nat /\ faults <= faults'
      /\ cancels \in Nat /\ cancels' \in Nat /\ d + cancels <= c + cancels'
      /\ ~reset[r] => q + c <= waits[r] + faults + cancels
  BY Sizes, ComingMoves DEF QueueCharged
<1> SUFFICES n + d <= waits'[r] + faults' + cancels'
  OBVIOUS
<1>2. CASE Stays(r)
  <2>1. Queued(r)' = Queued(r) /\ ~reset[r] /\ waits'[r] = waits[r]
    BY <1>2 DEF Stays, Queued
  <2>2. n = q
    BY <2>1
  <2> QED
    BY <1>1, <2>1, <2>2
<1>3. CASE CountsOne(r)
  <2>1. n = q + 1 /\ waits'[r] = waits[r] + 1 /\ ~reset[r]
    BY <1>3, Queues DEF CountsOne, Joins
  <2> QED
    BY <1>1, <2>1
<1>4. CASE LetsOneIn(r)
  <2>1. PICK w \in Requests : Joins(w, r, "open") /\ (Fails \/ (Count(w) /\ req[w].gone))
    BY <1>4 DEF LetsOneIn
  <2>2. n = q + 1 /\ waits'[r] = waits[r] /\ ~reset[r]
    BY <1>4, <2>1, Queues DEF LetsOneIn, Joins
  <2>3. CASE Fails
    <3> QED
      BY <1>1, <2>2, <2>3 DEF Fails
  <2>4. CASE Count(w) /\ req[w].gone
    <3>1. d + 1 <= c /\ cancels' = cancels
      BY <2>4, ComingMoves DEF Count
    <3> QED
      BY <1>1, <2>2, <3>1
  <2> QED
    BY <2>1, <2>3, <2>4
<1>5. CASE GivesBack(r)
  <2>1. q = n + 1 /\ waits[r] <= waits'[r] + 1 /\ ~reset[r]
    BY <1>5, Queues DEF GivesBack, Leaves
  <2> QED
    BY <1>1, <2>1
<1>6. CASE Clears(r)
  <2>1. Queued(r)' = Queued(r) /\ ~reset[r] /\ waits'[r] = 0
    BY <1>6 DEF Clears, Queued
  <2>2. CASE waits[r] = 0
    <3>1. n = q
      BY <2>1
    <3> QED
      BY <1>1, <2>1, <2>2, <3>1
  <2>3. CASE \A w \in Requests : req[w].counted[r] # "real"
    <3>1. \A w \in Requests : req[w].counted[r] \in {"no", "open", "real"}
      BY DEF Shape, ReqOK, Reqs
    <3>2. Queued(r)' = Open(r)'
      BY <1>6, <2>3, <3>1 DEF Clears, Queued, Open
    <3>3. n + d <= faults' + cancels'
      BY <3>2, OpenSteps
    <3> QED
      BY <1>1, <2>1, <3>3
  <2> QED
    BY <1>6, <2>2, <2>3 DEF Clears
<1>7. CASE \E p \in Processes : Restart(p)
  <2>1. n <= q /\ waits' = waits /\ reset' = reset
    BY <1>7, RestartQueues
  <2> QED
    BY <1>1, <2>1
<1> QED
  BY <1>2, <1>3, <1>4, <1>5, <1>6, <1>7, QueueMoves

\* At the start nobody is counted and no client has gone.
LEMMA InitQueues == ASSUME Init PROVE NoPhantomWaiters /\ OpenCharged /\ QueueCharged
<1>1. /\ \A r \in Resources : Queued(r) = {} /\ Open(r) = {} /\ Counting(r) = {} /\ waits[r] = 0
      /\ Coming = {} /\ faults = 0 /\ cancels = 0
  BY DEF Init, NoReq, Queued, Open, Counting, Coming, Spoils
<1> QED
  BY <1>1, Basics DEF NoPhantomWaiters, OpenCharged, QueueCharged

\* The counters do not leak: each unit is a request that was counted and will
\* decrement it, except one for each failure.
THEOREM CountersKept == Spec => []NoPhantomWaiters
<1>1. Shape /\ NoPhantomWaiters /\ [Next]_vars => NoPhantomWaiters'
  BY PhantomSteps DEF NoPhantomWaiters
<1> QED
  BY <1>1, InitQueues, AlwaysShape, PTL DEF Spec

\* Those who wait for a slot are at most MaxWait, and one more for each failed or
\* cancelled call, unless a starting process has deleted the counter.
THEOREM QueueBounded == Spec => []WaitersBounded
<1>1. Shape /\ OpenCharged /\ [Next]_vars => OpenCharged'
  BY OpenSteps DEF OpenCharged
<1>2. Shape /\ OpenCharged /\ QueueCharged /\ [Next]_vars => QueueCharged'
  BY QueueSteps DEF QueueCharged
<1>3. Shape /\ QueueCharged => WaitersBounded
  <2> SUFFICES ASSUME Shape, QueueCharged, NEW r \in Resources, ~reset[r]
               PROVE  Cardinality(Waiting(r)) <= MaxWait + faults + cancels
    BY DEF WaitersBounded
  <2>1. Waiting(r) \subseteq Queued(r)
    BY DEF Waiting, Queued, Shape, Control, Sane, At
  <2>2. /\ Cardinality(Waiting(r)) <= Cardinality(Queued(r))
        /\ Cardinality(Waiting(r)) \in Nat /\ Cardinality(Queued(r)) \in Nat /\ Cardinality(Coming) \in Nat
    BY <2>1, Basics DEF Waiting, Queued, Coming
  <2>3. waits[r] \in Nat /\ waits[r] <= MaxWait /\ MaxWait \in Nat /\ faults \in Nat /\ cancels \in Nat
    BY Basics DEF Shape, WaitsOK, Rest
  <2>4. Cardinality(Queued(r)) + Cardinality(Coming) <= waits[r] + faults + cancels
    BY DEF QueueCharged
  <2> QED
    BY <2>2, <2>3, <2>4
<1> QED
  BY <1>1, <1>2, <1>3, InitQueues, AlwaysShape, PTL DEF Spec
=============================================================================
