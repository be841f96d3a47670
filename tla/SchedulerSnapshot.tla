------------------------- MODULE SchedulerSnapshot -------------------------
(***************************************************************************)
(* The scheduler's view of the accounts of one bucket (a group, a platform *)
(* and a mode).  The database holds the truth; Redis holds a numbered      *)
(* snapshot of the bucket, a pointer to the active number, a cached copy   *)
(* of every account and a lock per bucket; an outbox table in the database *)
(* carries the changes from the editors to the pollers.                    *)
(*                                                                         *)
(* Four kinds of process: editors are the account repository's callers,    *)
(* pollers the outbox workers, rebuilders the full rebuild workers and     *)
(* readers the requests that ask for schedulable accounts.  An account is  *)
(* abstracted to one flag, whether it belongs to the bucket as schedulable.*)
(***************************************************************************)
EXTENDS Integers, FiniteSets, FiniteSetsExt, Sequences

CONSTANTS Accounts, Editors, Pollers, Rebuilders, Readers,
          MaxEvents,   \* bound on the changes made, each with at most one event
          MaxFaults,   \* bound on the calls of Redis and of the database that fail
          None         \* an account that is not there

Writers == Pollers \cup Rebuilders \cup Readers
Numbers == 1 .. 2 * Cardinality(Writers) + 2
Ids == 1 .. MaxEvents
Flags == BOOLEAN \cup {None}

ASSUME SchedulerAssumption ==
    /\ MaxEvents \in Nat /\ MaxFaults \in Nat
    /\ None \notin BOOLEAN
    /\ IsFiniteSet(Writers)

VARIABLES db,        \* [Accounts -> Flags]
          outbox,    \* the rows of scheduler_outbox in the order of their ids
          made,      \* changes made so far
          faults,    \* calls that have failed so far
          watermark, \* sched:outbox:watermark
          locked,    \* sched:lock of the bucket
          active,    \* sched:active, 0 when there is none
          snap,      \* sched:<bucket>:v<n>, the empty set when the key is absent
          wrote,     \* what the writer of each number loaded from the database
          cached,    \* sched:acc and sched:meta
          edit,      \* [Editors -> the state of a call of the repository]
          job        \* [Writers -> the state of a worker or of a request]

redis == <<watermark, locked, active, snap, wrote, cached>>
vars == <<db, outbox, made, faults, redis, edit, job>>

NoEdit == [pc |-> "idle", kind |-> "changed", acct |-> None, copy |-> None]
NoJob == [pc |-> "idle", todo |-> {}, last |-> 0, copy |-> None,
          loaded |-> {}, old |-> 0, ver |-> 0]

Init ==
    /\ db \in [Accounts -> BOOLEAN]
    /\ outbox = <<>> /\ made = 0 /\ faults = 0
    /\ watermark = 0 /\ locked = FALSE /\ active = 0
    /\ snap = [n \in Numbers |-> {}] /\ wrote = [n \in Numbers |-> {}]
    /\ cached = [a \in Accounts |-> None]
    /\ edit = [e \in Editors |-> NoEdit]
    /\ job = [p \in Writers |-> NoJob]

Schedulable == {a \in Accounts : db[a] = TRUE}
Visible == {i \in DOMAIN outbox : outbox[i].visible}

(***************************************************************************)
(* Editors.  The change commits first, the event is inserted by a          *)
(* statement of its own, and its error is only logged.                     *)
(***************************************************************************)
EditTo(e, pc) == edit' = [edit EXCEPT ![e].pc = pc]

Change(e) ==
    /\ edit[e].pc = "idle" /\ made < MaxEvents
    /\ made' = made + 1
    /\ \E a \in Accounts, v \in Flags, k \in {"changed", "used", "full"} :
         /\ db[a] # None
         /\ k = "used" => v = db[a]
         /\ k = "full" => db[a] = TRUE /\ v = FALSE
         /\ k = "changed" => v # db[a]
         /\ db' = [db EXCEPT ![a] = v]
         /\ edit' = [edit EXCEPT ![e] = [NoEdit EXCEPT !.pc = "insert", !.kind = k, !.acct = a]]
    /\ UNCHANGED <<outbox, faults, redis, job>>

\* An event that supports deduplication is not written again within a second
\* of an equal one, whether or not that one has been handled.
MaySuppress(kind, a) ==
    kind # "used" /\ \E i \in Visible : outbox[i].kind = kind /\ outbox[i].acct = a

EventAccount(k, a) == IF k = "full" THEN None ELSE a

Insert(e) ==
    LET a == EventAccount(edit[e].kind, edit[e].acct) IN
    /\ edit[e].pc = "insert"
    /\ \/ /\ MaySuppress(edit[e].kind, a)
          /\ UNCHANGED outbox /\ EditTo(e, "sync")
       \/ /\ outbox' = Append(outbox, [kind |-> edit[e].kind, acct |-> a, visible |-> FALSE])
          /\ edit' = [edit EXCEPT ![e].pc = "commit", ![e].copy = Len(outbox) + 1]
    /\ UNCHANGED <<db, made, faults, redis, job>>

\* The number of a row is taken when it is inserted and the row is seen when
\* its transaction commits.
CommitEvent(e) ==
    /\ edit[e].pc = "commit"
    /\ outbox' = [outbox EXCEPT ![edit[e].copy].visible = TRUE]
    /\ edit' = [edit EXCEPT ![e].pc = "sync", ![e].copy = None]
    /\ UNCHANGED <<db, made, faults, redis, job>>

\* Changes that make an account unusable copy it to Redis at once; the others
\* leave that to the event.
SyncRead(e) ==
    /\ edit[e].pc = "sync"
    /\ \/ /\ edit[e].kind = "changed" /\ db[edit[e].acct] # None
          /\ edit' = [edit EXCEPT ![e].pc = "set", ![e].copy = db[edit[e].acct]]
       \/ edit' = [edit EXCEPT ![e] = NoEdit]
    /\ UNCHANGED <<db, outbox, made, faults, redis, job>>

SyncWrite(e) ==
    /\ edit[e].pc = "set"
    /\ cached' = [cached EXCEPT ![edit[e].acct] = edit[e].copy]
    /\ edit' = [edit EXCEPT ![e] = NoEdit]
    /\ UNCHANGED <<db, outbox, made, faults, watermark, locked, active, snap, wrote, job>>

EditFails(e) ==
    /\ edit[e].pc \in {"insert", "sync", "set"} /\ faults < MaxFaults
    /\ faults' = faults + 1
    /\ edit' = IF edit[e].pc = "insert" THEN [edit EXCEPT ![e].pc = "sync"]
                                        ELSE [edit EXCEPT ![e] = NoEdit]
    /\ UNCHANGED <<db, outbox, made, redis, job>>

(***************************************************************************)
(* SetSnapshot: the old pointer, a new number, the accounts, the set and   *)
(* the pointer, and the removal of the old set.                            *)
(***************************************************************************)
To(p, pc) == job' = [job EXCEPT ![p].pc = pc]

\* Where a worker goes when a bucket is done: the poller to its next event.
Done(p) == IF job[p].last = 0 THEN NoJob
           ELSE [NoJob EXCEPT !.todo = job[p].todo, !.last = job[p].last, !.pc = "next"]
Finish(p) == job' = [job EXCEPT ![p] = Done(p)]

\* INCR gives a number above every number taken before.  The numbers that are
\* still named are kept in their order and counted from one; the sets of the
\* others, which nothing can reach, are not part of the state.
Named(act, jobs) ==
    ({act} \cup {jobs[p].old : p \in Writers} \cup {jobs[p].ver : p \in Writers}) \ {0}

Renumbered(act, s, w, jobs) ==
    LET live == Named(act, jobs)
        Rank(n) == Cardinality({m \in live : m <= n})
        Kept(f) == [n \in Numbers |-> IF n > Cardinality(live) THEN {}
                                      ELSE f[CHOOSE m \in live : Rank(m) = n]]
    IN /\ active' = Rank(act) /\ snap' = Kept(s) /\ wrote' = Kept(w)
       /\ job' = [p \in Writers |-> [jobs[p] EXCEPT !.old = Rank(@), !.ver = Rank(@)]]

MutNextNumber == active + 1   \* mutant: the pointer plus one in place of INCR
NextNumber == Max(Named(active, job) \cup {0}) + 1

LoadAccounts(p) ==
    /\ job[p].pc = "load"
    /\ job' = [job EXCEPT ![p].pc = "version", ![p].loaded = Schedulable]
    /\ UNCHANGED <<db, outbox, made, faults, redis, edit>>

\* GET of the pointer and INCR of the counter: nothing else reads the counter.
TakeNumber(p) ==
    /\ job[p].pc = "version"
    /\ job' = [job EXCEPT ![p].pc = "accounts", ![p].old = active, ![p].ver = NextNumber]
    /\ wrote' = [wrote EXCEPT ![NextNumber] = job[p].loaded]
    /\ UNCHANGED <<db, outbox, made, faults, watermark, locked, active, snap, cached, edit>>

WriteAccounts(p) ==
    /\ job[p].pc = "accounts"
    /\ cached' = [a \in Accounts |-> IF a \in job[p].loaded THEN TRUE ELSE cached[a]]
    /\ To(p, "publish")
    /\ UNCHANGED <<db, outbox, made, faults, watermark, locked, active, snap, wrote, edit>>

\* ZADD adds to the set of its number; DEL when there is nothing to add.
Published(s, p) ==
    [s EXCEPT ![job[p].ver] = IF job[p].loaded = {} THEN {} ELSE @ \cup job[p].loaded]

Publish(p) ==
    /\ job[p].pc = "publish"
    /\ Renumbered(job[p].ver, Published(snap, p), wrote, [job EXCEPT
         ![p] = IF @.old = 0 THEN Done(p) ELSE [@ EXCEPT !.pc = "drop", !.ver = 0, !.loaded = {}]])
    /\ UNCHANGED <<db, outbox, made, faults, watermark, locked, cached, edit>>

\* The number whose set a writer removes: the pointer it read at its start.
Outdated(p) == job[p].old

DropOld(p) ==
    /\ job[p].pc = "drop"
    /\ Renumbered(active, [snap EXCEPT ![Outdated(p)] = {}], wrote, [job EXCEPT ![p] = Done(p)])
    /\ UNCHANGED <<db, outbox, made, faults, watermark, locked, cached, edit>>

SetSnapshot(p) ==
    LoadAccounts(p) \/ TakeNumber(p) \/ WriteAccounts(p) \/ Publish(p) \/ DropOld(p)

(***************************************************************************)
(* rebuildBucket: the lock is taken for thirty seconds and never released; *)
(* whoever finds it taken leaves the bucket as it is and reports success.  *)
(***************************************************************************)
TryLock(p) ==
    /\ job[p].pc = "lock"
    /\ IF locked THEN Finish(p) /\ UNCHANGED locked
                 ELSE To(p, "load") /\ locked' = TRUE
    /\ UNCHANGED <<db, outbox, made, faults, watermark, active, snap, wrote, cached, edit>>

MutLockExpires ==   \* mutant: SETNX without a time to live
    /\ locked /\ locked' = TRUE
    /\ UNCHANGED <<db, outbox, made, faults, watermark, active, snap, wrote, cached, edit, job>>

LockExpires ==
    /\ locked /\ locked' = FALSE
    /\ UNCHANGED <<db, outbox, made, faults, watermark, active, snap, wrote, cached, edit, job>>

MutFullRebuild(p) ==   \* mutant: the startup rebuild alone, no ticker
    /\ job[p].pc = "idle" /\ active = 0
    /\ To(p, "lock")
    /\ UNCHANGED <<db, outbox, made, faults, redis, edit>>

\* The startup rebuild and every tick of the full rebuild worker.
FullRebuild(p) ==
    /\ job[p].pc = "idle"
    /\ To(p, "lock")
    /\ UNCHANGED <<db, outbox, made, faults, redis, edit>>

(***************************************************************************)
(* ListSchedulableAccounts: a hit changes nothing; a miss loads the        *)
(* database and writes a snapshot without the lock.                        *)
(***************************************************************************)
Hit(n) == n # 0 /\ snap[n] # {} /\ \A a \in snap[n] : cached[a] # None

ReadActive(p) ==
    /\ job[p].pc = "idle"
    /\ job' = [job EXCEPT ![p].pc = "read", ![p].ver = active]
    /\ UNCHANGED <<db, outbox, made, faults, redis, edit>>

ReadSnapshot(p) ==
    /\ job[p].pc = "read"
    /\ Renumbered(active, snap, wrote, [job EXCEPT
         ![p] = IF Hit(@.ver) THEN NoJob ELSE [NoJob EXCEPT !.pc = "load"]])
    /\ UNCHANGED <<db, outbox, made, faults, watermark, locked, cached, edit>>

(***************************************************************************)
(* pollOutbox: the events above the watermark in the order of their ids;   *)
(* the first error ends the poll and leaves the watermark where it is.     *)
(***************************************************************************)
Poll(p) ==
    LET later == {i \in Visible : i > watermark} IN
    /\ job[p].pc = "idle" /\ later # {}
    /\ job' = [job EXCEPT ![p] = [NoJob EXCEPT !.pc = "next", !.todo = later, !.last = Max(later)]]
    /\ UNCHANGED <<db, outbox, made, faults, redis, edit>>

Event(p) == outbox[Min(job[p].todo)]

Handle(p) ==
    /\ job[p].pc = "next" /\ job[p].todo # {}
    /\ job' = [job EXCEPT
         ![p].pc = CASE Event(p).kind = "changed" -> "set" [] Event(p).kind = "used" -> "used"
                     [] OTHER -> "lock",
         ![p].copy = CASE Event(p).kind = "changed" -> db[Event(p).acct]
                       [] Event(p).kind = "used" -> cached[Event(p).acct] [] OTHER -> None,
         ![p].todo = IF Event(p).kind = "full" THEN @ \ {Min(@)} ELSE @]
    /\ UNCHANGED <<db, outbox, made, faults, redis, edit>>

\* handleAccountEvent: SetAccount, or DeleteAccount when the row is gone.
SetAccount(p) ==
    /\ job[p].pc = "set"
    /\ cached' = [cached EXCEPT ![Event(p).acct] = job[p].copy]
    /\ job' = [job EXCEPT ![p].pc = "lock", ![p].todo = @ \ {Min(@)}]
    /\ UNCHANGED <<db, outbox, made, faults, watermark, locked, active, snap, wrote, edit>>

\* UpdateLastUsed writes back the copy it read from Redis.
UpdateLastUsed(p) ==
    /\ job[p].pc = "used"
    /\ cached' = IF job[p].copy = None THEN cached
                 ELSE [cached EXCEPT ![Event(p).acct] = job[p].copy]
    /\ job' = [job EXCEPT ![p].pc = "next", ![p].todo = @ \ {Min(@)}]
    /\ UNCHANGED <<db, outbox, made, faults, watermark, locked, active, snap, wrote, edit>>

MutSetWatermark(p) ==   \* mutant: the id the next event would have
    /\ job[p].pc = "next" /\ job[p].todo = {}
    /\ watermark' = job[p].last + 1
    /\ job' = [job EXCEPT ![p] = NoJob]
    /\ UNCHANGED <<db, outbox, made, faults, locked, active, snap, wrote, cached, edit>>

\* checkOutboxLag may add a full rebuild to a poll that succeeded.
SetWatermark(p) ==
    /\ job[p].pc = "next" /\ job[p].todo = {}
    /\ watermark' = job[p].last
    /\ \E pc \in {"idle", "lock"} : job' = [job EXCEPT ![p] = [NoJob EXCEPT !.pc = pc]]
    /\ UNCHANGED <<db, outbox, made, faults, locked, active, snap, wrote, cached, edit>>

\* A call of Redis or of the database fails: the error ends the job, except
\* that a failed removal of the old set is ignored and a failed read of the
\* snapshot falls back to the database.
JobFails(p) ==
    /\ job[p].pc # "idle" /\ faults < MaxFaults
    /\ faults' = faults + 1
    /\ Renumbered(active, snap, wrote, [job EXCEPT
         ![p] = CASE @.pc = "drop" -> Done(p) [] @.pc = "read" -> [NoJob EXCEPT !.pc = "load"]
                  [] OTHER -> NoJob])
    /\ UNCHANGED <<db, outbox, made, watermark, locked, cached, edit>>

EditStep(e) == Insert(e) \/ CommitEvent(e) \/ SyncRead(e) \/ SyncWrite(e)
Rebuild(p) == TryLock(p) \/ SetSnapshot(p)
PollStep(p) == Poll(p) \/ Handle(p) \/ SetAccount(p) \/ UpdateLastUsed(p) \/ SetWatermark(p)

Next ==
    \/ \E e \in Editors : Change(e) \/ EditStep(e) \/ EditFails(e)
    \/ \E p \in Rebuilders : FullRebuild(p)
    \/ \E p \in Readers : ReadActive(p) \/ ReadSnapshot(p)
    \/ \E p \in Pollers : PollStep(p)
    \/ \E p \in Writers : Rebuild(p) \/ JobFails(p)
    \/ LockExpires

\* The workers run on tickers, a call of the repository goes on to its end and
\* the lock has a time to live; requests may stop anywhere.
Fairness ==
    /\ \A e \in Editors : WF_vars(EditStep(e))
    /\ \A p \in Rebuilders : WF_vars(FullRebuild(p) \/ Rebuild(p))
    /\ \A p \in Pollers : WF_vars(PollStep(p) \/ Rebuild(p))
    /\ WF_vars(LockExpires)

Spec == Init /\ [][Next]_vars /\ Fairness

(***************************************************************************)
(* Properties                                                              *)
(***************************************************************************)
\* Every variable has the shape the code gives it; the watermark is never
\* beyond the last row of the outbox.
TypeOK ==
    /\ db \in [Accounts -> Flags] /\ cached \in [Accounts -> Flags]
    /\ \A i \in DOMAIN outbox : i \in Ids /\ outbox[i].acct \in Accounts \cup {None}
    /\ made \in 0 .. MaxEvents /\ faults \in 0 .. MaxFaults
    /\ watermark \in 0 .. Len(outbox) /\ locked \in BOOLEAN
    /\ active \in Numbers \cup {0}
    /\ snap \in [Numbers -> SUBSET Accounts] /\ wrote \in [Numbers -> SUBSET Accounts]
    /\ \A p \in Writers : /\ job[p].loaded \subseteq Accounts /\ job[p].todo \subseteq Ids
                          /\ {job[p].old, job[p].ver} \subseteq Numbers \cup {0}

\* The set the active pointer names is there and is exactly what one load of
\* the database returned, and a set a reader still holds the number of is
\* either that or gone: however many writers run SetSnapshot at once, with or
\* without the lock, none removes the set that is in use or adds to it.
ActiveIsWhole ==
    /\ active # 0 => snap[active] = wrote[active]
    /\ \A p \in Readers : job[p].pc = "read" /\ job[p].ver # 0
                            => snap[job[p].ver] \in {wrote[job[p].ver], {}}

\* What a request that asks now is given.
Served == IF Hit(active) THEN {a \in snap[active] : cached[a] = TRUE} ELSE Schedulable

\* Once the changes stop, the requests are given the accounts of the database
\* and keep being given them, although events are suppressed, dropped on a
\* locked bucket, committed below the watermark or never inserted, and stale
\* loads and stale copies are written over newer ones: the periodic full
\* rebuild repairs all of it (fullRebuildInterval is 300 s, the lock 30 s).
Converges == <>[](Served = Schedulable)
=============================================================================
