-------------------------- MODULE ConcurrencySlots --------------------------
(***************************************************************************)
(* Concurrency limits of the gateway. A request waits for a slot of its    *)
(* user, then for a slot of the account that serves it, and gives both     *)
(* back however it ends: answered, refused, timed out, failed over to the  *)
(* account again, or left by its client. Slots are members of Redis sets   *)
(* and have a TTL; a counter per user and account limits who may wait.     *)
(* A starting process removes the slots and counters it did not create.    *)
(*   (service/concurrency_service.go, repository/concurrency_cache.go,     *)
(*    handler/gateway_helper.go, handler/gateway_handler.go)               *)
(***************************************************************************)
EXTENDS Naturals, FiniteSets

CONSTANTS
    Processes,      \* instances of the server
    Lanes,          \* requests an instance handles together
    Limit,          \* maxConcurrency of the user and of the account
    MaxWait,        \* the limit on waiting requests of each
    MaxFaults,      \* bound: failed calls and dead requests
    MaxCancels      \* bound: clients that go away

ASSUME SlotsAssumption ==
    /\ Limit \in Nat \ {0} /\ MaxWait \in Nat \ {0}
    /\ MaxFaults \in Nat /\ MaxCancels \in Nat
    /\ IsFiniteSet(Processes) /\ IsFiniteSet(Lanes)

VARIABLES
    slots,      \* the requests that have a member in each sorted set
    orphans,    \* members that no request will release; only the TTL frees them
    waits,      \* the wait counters
    req,        \* what each request is doing
    boot,       \* steps of the startup cleanup each process has done
    faults,     \* failed calls and dead requests so far
    cancels,    \* clients gone so far
    evicted,    \* a live request has lost its slot to the TTL or to a cleanup
    reset       \* a cleanup has deleted a counter that was not zero

redis == <<slots, orphans, waits>>
history == <<evicted, reset>>
vars == <<slots, orphans, waits, req, boot, faults, cancels, evicted, reset>>

Resources == {"user", "account"}
Requests == Processes \X Lanes
Pcs == {"idle", "count", "acquire", "uncount", "select", "hydrate", "serve", "served", "finish"}
\* counted: waitCounted and accountWaitCounted, and whether the counter was
\* really incremented; holds: the slots whose release function was not called.
Reqs == [pc : Pcs, r : Resources, counted : [Resources -> {"no", "open", "real"}],
         holds : SUBSET Resources, gone : BOOLEAN]
NoReq == [pc |-> "idle", r |-> "user", counted |-> [r \in Resources |-> "no"],
          holds |-> {}, gone |-> FALSE]
Booted == 4

Init ==
    /\ slots = [r \in Resources |-> {}]
    /\ orphans = [r \in Resources |-> 0]
    /\ waits = [r \in Resources |-> 0]
    /\ req = [w \in Requests |-> NoReq]
    /\ boot = [p \in Processes |-> 0]
    /\ faults = 0 /\ cancels = 0
    /\ evicted = [r \in Resources |-> FALSE]
    /\ reset = [r \in Resources |-> FALSE]

At(w, pc) == req[w].pc = pc
Goto(w, pc) == req' = [req EXCEPT ![w].pc = pc]
Fails == faults < MaxFaults /\ faults' = faults + 1
NoFault == UNCHANGED faults

----------------------------------------------------------------------------
(* The scripts *)

Occupied(r) == Cardinality(slots[r]) + orphans[r]
MutHasRoom(r) == Occupied(r) <= Limit \* mutant: one too many
HasRoom(r) == Occupied(r) < Limit
AddSlot(w, r) == slots' = [slots EXCEPT ![r] = @ \cup {w}] /\ UNCHANGED orphans
AddOrphan(r) == orphans' = [orphans EXCEPT ![r] = @ + 1] /\ UNCHANGED slots
\* A slot whose release is not executed stays until its TTL.
LoseSlot(w, r) ==
    /\ slots' = [slots EXCEPT ![r] = @ \ {w}]
    /\ orphans' = [orphans EXCEPT ![r] = IF w \in slots[r] THEN @ + 1 ELSE @]
\* ReleaseFunc and DecrementWaitCount use a context of their own, so that the
\* client that has gone does not stop them.
MutStopped(w) == req[w].gone \* mutant: they use the context of the request
Stopped(w) == FALSE
RemoveSlot(w, r) ==
    IF Stopped(w) THEN LoseSlot(w, r)
    ELSE slots' = [slots EXCEPT ![r] = @ \ {w}] /\ UNCHANGED orphans
Release(w, r) ==
    \/ NoFault /\ RemoveSlot(w, r)
    \/ Fails /\ (RemoveSlot(w, r) \/ LoseSlot(w, r))

MutQueueFull(r) == waits[r] > MaxWait \* mutant: one too many
QueueFull(r) == waits[r] >= MaxWait
Increment(r) == waits' = [waits EXCEPT ![r] = @ + 1]
Decremented(r) == waits' = [waits EXCEPT ![r] = IF @ > 0 THEN @ - 1 ELSE @]
Decrement(w, r) ==
    \/ NoFault /\ IF Stopped(w) THEN UNCHANGED waits ELSE Decremented(r)
    \/ Fails /\ (Decremented(r) \/ UNCHANGED waits)

----------------------------------------------------------------------------
(* The life of a request *)

Begin(w) ==
    /\ At(w, "idle") /\ boot[w[1]] = Booted
    /\ Goto(w, "count")
    /\ UNCHANGED <<redis, boot, faults, cancels, history>>

\* IncrementWaitCount and IncrementAccountWaitCount: a full queue refuses, an
\* error admits; a client that has gone makes the call fail before it is sent.
Count(w) ==
    LET r == req[w].r
        admit(c) == req' = [req EXCEPT ![w].pc = "acquire", ![w].counted[r] = c]
    IN  /\ At(w, "count")
        /\ \/ /\ NoFault /\ ~req[w].gone
              /\ IF QueueFull(r) THEN Goto(w, "finish") /\ UNCHANGED waits
                                 ELSE admit("real") /\ Increment(r)
           \/ /\ (NoFault /\ req[w].gone) \/ Fails
              /\ admit("open") /\ UNCHANGED waits
           \/ Fails /\ ~QueueFull(r) /\ admit("real") /\ Increment(r)
        /\ UNCHANGED <<slots, orphans, boot, cancels, history>>

\* A try that succeeds, the end of the wait (its timeout, or the client has
\* gone), or an error, after which the slot may be taken without an owner.
\* A try that finds no room changes nothing.
MutRefusedPc(r) == "finish" \* mutant: the account's counter is forgotten
RefusedPc(r) == IF r = "user" THEN "finish" ELSE "uncount"
Acquire(w) ==
    LET r == req[w].r
    IN  /\ At(w, "acquire")
        /\ \/ /\ NoFault /\ ~req[w].gone /\ HasRoom(r)
              /\ AddSlot(w, r)
              /\ req' = [req EXCEPT ![w].pc = "uncount", ![w].holds = @ \cup {r}]
           \/ NoFault /\ Goto(w, RefusedPc(r)) /\ UNCHANGED <<slots, orphans>>
           \/ /\ Fails /\ Goto(w, RefusedPc(r))
              /\ UNCHANGED <<slots, orphans>> \/ (HasRoom(r) /\ AddOrphan(r))
        /\ UNCHANGED <<waits, boot, cancels, history>>

\* The wait is over: DecrementWaitCount or releaseWait, once, whose error is ignored.
MutCounted(c) == c \* mutant: the flag stays and the deferred call repeats it
Counted(c) == "no"
Uncount(w) ==
    LET r == req[w].r
        next == IF r \notin req[w].holds THEN "finish"
                ELSE IF r = "user" THEN "select" ELSE "serve"
    IN  /\ At(w, "uncount")
        /\ Decrement(w, r)
        /\ req' = [req EXCEPT ![w].pc = next, ![w].counted[r] = Counted(@)]
        /\ UNCHANGED <<slots, orphans, boot, cancels, history>>

\* The billing check and the choice of an account, which tries its slot at once;
\* with no room, or after an error, the request waits for the account.
SelectAccount(w) ==
    /\ At(w, "select")
    /\ \/ NoFault /\ Goto(w, "finish") /\ UNCHANGED <<slots, orphans>>
       \/ /\ NoFault /\ ~req[w].gone /\ HasRoom("account")
          /\ AddSlot(w, "account")
          /\ req' = [req EXCEPT ![w].pc = "hydrate", ![w].r = "account",
                                ![w].holds = @ \cup {"account"}]
       \/ /\ req' = [req EXCEPT ![w].pc = "count", ![w].r = "account"]
          /\ \/ (NoFault \/ Fails) /\ UNCHANGED <<slots, orphans>>
             \/ Fails /\ HasRoom("account") /\ AddOrphan("account")
    /\ UNCHANGED <<waits, boot, cancels, history>>

\* The account is read again before it is returned. A session over its limit gives
\* the slot back and the choice goes on; an error, also that of a client that has
\* gone, returns without the release function.
Hydrate(w) ==
    LET drop(pc) == req' = [req EXCEPT ![w].pc = pc, ![w].holds = @ \ {"account"}]
    IN  /\ At(w, "hydrate")
        /\ \/ /\ NoFault /\ ~req[w].gone
              /\ Goto(w, "serve") /\ UNCHANGED <<slots, orphans>>
           \/ ~req[w].gone /\ Release(w, "account") /\ drop("select")
           \/ /\ (NoFault /\ req[w].gone) \/ Fails
              /\ LoseSlot(w, "account") /\ drop("finish")
        /\ UNCHANGED <<waits, boot, cancels, history>>

\* The upstream call returns; then the account's slot is released.
Forward(w) ==
    /\ At(w, "serve")
    /\ Goto(w, "served")
    /\ UNCHANGED <<redis, boot, faults, cancels, history>>

ReleaseAccount(w) ==
    /\ At(w, "served")
    /\ \E next \in {"select", "finish"} :   \* a failover chooses again
         req' = [req EXCEPT ![w].pc = next, ![w].holds = @ \ {"account"}]
    /\ IF "account" \in req[w].holds THEN Release(w, "account")
                                     ELSE NoFault /\ UNCHANGED <<slots, orphans>>
    /\ UNCHANGED <<waits, boot, cancels, history>>

\* The handler returns: its deferred calls give back the slot of the user, or the
\* place in the queue if the user's slot was never taken.
Finish(w) ==
    LET holding == "user" \in req[w].holds
        counted == req[w].counted["user"] # "no"
    IN  /\ At(w, "finish")
        /\ \/ /\ holding /\ Release(w, "user") /\ UNCHANGED waits
              /\ req' = [req EXCEPT ![w].holds = @ \ {"user"}]
           \/ /\ ~holding /\ counted
              /\ Decrement(w, "user") /\ UNCHANGED <<slots, orphans>>
              /\ req' = [req EXCEPT ![w].counted["user"] = "no"]
           \/ /\ ~holding /\ ~counted
              /\ NoFault /\ UNCHANGED redis
              /\ req' = [req EXCEPT ![w] = NoReq]
        /\ UNCHANGED <<boot, cancels, history>>

\* The client goes away, or the server cancels the request.
Cancel(w) ==
    /\ cancels < MaxCancels /\ ~At(w, "idle") /\ ~req[w].gone
    /\ req' = [req EXCEPT ![w].gone = TRUE]
    /\ cancels' = cancels + 1
    /\ UNCHANGED <<redis, boot, faults, history>>

\* context.AfterFunc of wrapReleaseOnDone, which the handler has registered once
\* it has left the queue: the slot is free while the handler still runs.
AfterDone(w, r) ==
    /\ req[w].gone /\ r \in req[w].holds
    /\ ~(req[w].pc \in {"uncount", "hydrate"} /\ req[w].r = r)
    /\ Release(w, r)
    /\ req' = [req EXCEPT ![w].holds = @ \ {r}]
    /\ UNCHANGED <<waits, boot, cancels, history>>

----------------------------------------------------------------------------
(* Time, crashes and the cleanup of a starting process *)

\* The TTL removes a member, whether or not its request still runs.
Expire(r) ==
    /\ \/ \E w \in slots[r] :
             /\ slots' = [slots EXCEPT ![r] = @ \ {w}]
             /\ evicted' = [evicted EXCEPT ![r] = TRUE]
             /\ UNCHANGED orphans
       \/ /\ orphans[r] > 0 /\ orphans' = [orphans EXCEPT ![r] = @ - 1]
          /\ UNCHANGED <<slots, evicted>>
    /\ UNCHANGED <<waits, req, boot, faults, cancels, reset>>

\* The TTL of a counter outlasts the longest wait, so none of those that it
\* counts is waiting any more.
WaitExpires(r) ==
    /\ waits[r] > 0 /\ \A w \in Requests : req[w].counted[r] # "real"
    /\ waits' = [waits EXCEPT ![r] = 0]
    /\ UNCHANGED <<slots, orphans, req, boot, faults, cancels, history>>

\* A process dies with the requests it handles and starts again.
Busy(p) == {w \in {p} \X Lanes : ~At(w, "idle")}
Restart(p) ==
    /\ faults + Cardinality(Busy(p)) <= MaxFaults
    /\ faults' = faults + Cardinality(Busy(p))
    /\ slots' = [r \in Resources |-> slots[r] \ Busy(p)]
    /\ orphans' = [r \in Resources |-> orphans[r] + Cardinality(slots[r] \cap Busy(p))]
    /\ req' = [w \in Requests |-> IF w \in Busy(p) THEN NoReq ELSE req[w]]
    /\ boot' = [boot EXCEPT ![p] = 0]
    /\ UNCHANGED <<waits, cancels, history>>

\* CleanupStaleProcessSlots, before the process serves: every member that has not
\* its fresh prefix, the account sets first, then every counter, the account
\* counters first. An error ends the cleanup and is logged.
RemoveForeign(r) ==
    /\ slots' = [slots EXCEPT ![r] = {}] /\ orphans' = [orphans EXCEPT ![r] = 0]
    /\ evicted' = [evicted EXCEPT ![r] = @ \/ slots[r] # {}]
    /\ UNCHANGED <<waits, reset>>
DeleteCounter(r) ==
    /\ waits' = [waits EXCEPT ![r] = 0]
    /\ reset' = [reset EXCEPT ![r] = @ \/ waits[r] > 0]
    /\ UNCHANGED <<slots, orphans, evicted>>
Clean(p) ==
    /\ \/ /\ NoFault
          /\ \/ boot[p] = 0 /\ RemoveForeign("account")
             \/ boot[p] = 1 /\ RemoveForeign("user")
             \/ boot[p] = 2 /\ DeleteCounter("account")
             \/ boot[p] = 3 /\ DeleteCounter("user")
          /\ boot' = [boot EXCEPT ![p] = @ + 1]
       \/ /\ boot[p] < Booted /\ Fails
          /\ boot' = [boot EXCEPT ![p] = Booted]
          /\ UNCHANGED <<redis, history>>
    /\ UNCHANGED <<req, cancels>>

Next ==
    \/ \E w \in Requests :
         \/ Begin(w) \/ Count(w) \/ Acquire(w) \/ Uncount(w) \/ SelectAccount(w)
         \/ Hydrate(w) \/ Forward(w) \/ ReleaseAccount(w) \/ Finish(w)
         \/ Cancel(w) \/ \E r \in Resources : AfterDone(w, r)
    \/ \E r \in Resources : Expire(r) \/ WaitExpires(r)
    \/ \E p \in Processes : Restart(p) \/ Clean(p)

Spec == Init /\ [][Next]_vars

----------------------------------------------------------------------------
(* Properties *)

Holders(r) == {w \in Requests : r \in req[w].holds}
Counting(r) == {w \in Requests : req[w].counted[r] = "real"}
Waiting(r) == {w \in Requests : At(w, "acquire") /\ req[w].r = r}

\* Every variable has its type; no set and no counter passes its limit.
TypeOK ==
    /\ slots \in [Resources -> SUBSET Requests]
    /\ orphans \in [Resources -> 0..Limit]
    /\ waits \in [Resources -> 0..MaxWait]
    /\ req \in [Requests -> Reqs]
    /\ boot \in [Processes -> 0..Booted]
    /\ faults \in 0..MaxFaults /\ cancels \in 0..MaxCancels
    /\ evicted \in [Resources -> BOOLEAN] /\ reset \in [Resources -> BOOLEAN]

\* The concurrency limit: requests that hold a slot of a user or an account are
\* never more than its maximum, unless a TTL or a starting process took the slot
\* of one that still runs (acquireScript with every way a slot is released).
SlotsWithinLimit ==
    \A r \in Resources : ~evicted[r] => Cardinality(Holders(r)) <= Limit

\* No slot leaks: however requests end, and whoever releases first, an occupied
\* slot belongs to a request that will release it, except one for each failure
\* and, of an account, one for each client that goes while its account is read
\* (AcquireResult.ReleaseFunc, wrapReleaseOnDone, newSelectionResult).
SlotsNotLost ==
    \A r \in Resources :
        Occupied(r) <= Cardinality(Holders(r)) + faults
                       + (IF r = "account" THEN cancels ELSE 0)

\* The queue limit: those who wait for a slot are at most MaxWait; the counter
\* that fails open lets one more in for each failed or cancelled call.
WaitersBounded ==
    \A r \in Resources :
        ~reset[r] => Cardinality(Waiting(r)) <= MaxWait + faults + cancels

\* The counters do not leak: each unit is a request that was counted and will
\* decrement it, except one for each failure; so a queue is refused only when it
\* is full (the deferred decrement and releaseWait on every path of the handler).
NoPhantomWaiters ==
    \A r \in Resources : waits[r] <= Cardinality(Counting(r)) + faults
=============================================================================
