---------------------------- MODULE UsageBilling ----------------------------
(***************************************************************************)
(* usageBillingRepository.Apply: one transaction claims the request id in  *)
(* usage_billing_dedup, looks it up in the archive, and updates the rows   *)
(* it is charged to, statement by statement under row locks (READ          *)
(* COMMITTED); a job moves old request ids to the archive.                 *)
(*   (repository/usage_billing_repo.go, service/gateway_service.go,        *)
(*    repository/dashboard_aggregation_repo.go, repository/api_key_repo.go)*)
(***************************************************************************)
EXTENDS Integers, FiniteSetsExt

CONSTANTS
    Tasks,          \* calls of Apply
    Keys,           \* (request id, API key) pairs
    Rows,           \* rows of users, user_subscriptions, api_keys, accounts
    NoPrint,        \* no row of the dedup table, or of the archive
    NoWindow,       \* a window that was never opened
    KeyOf, PrintOf, \* of the command of a task
    Target,         \* Target[t][k]: the row that effect k of task t updates
    Cost,           \* Cost[t][k]: its amount, 0 when there is no such effect
    Limit,          \* quota of a row, 0 when it has none
    WindowLength,   \* of a rate limit window
    MaxClock,       \* bound: ticks
    MaxFaults       \* bound: failed statements, dead processes, lost answers, deletions

\* The effects, and their order in applyUsageBillingEffects.
Kinds == {"subscription", "balance", "quota", "rate", "account"}
Rank == [subscription |-> 1, balance |-> 2, quota |-> 3, rate |-> 4, account |-> 5]

\* Each has a table of its own, but for the two that update api_keys.
SameTable(j, k) == j = k \/ {j, k} = {"quota", "rate"}

ASSUME BillingAssumption ==
    /\ KeyOf \in [Tasks -> Keys]
    /\ \A t \in Tasks : PrintOf[t] # NoPrint
    /\ Target \in [Tasks -> [Kinds -> Rows]] /\ Cost \in [Tasks -> [Kinds -> Nat]]
    /\ \A t \in Tasks : Target[t]["quota"] = Target[t]["rate"]
    /\ \A t, u \in Tasks : \A j, k \in Kinds : Target[t][j] = Target[u][k] => SameTable(j, k)
    /\ Limit \in [Rows -> Nat]   \* of API keys and accounts
    /\ \A t \in Tasks : \A k \in {"subscription", "balance"} : Limit[Target[t][k]] = 0
    /\ WindowLength \in Nat \ {0} /\ NoWindow \notin Int
    /\ MaxClock \in Nat /\ MaxFaults \in Nat

VARIABLES
    dedup,      \* usage_billing_dedup: the fingerprint of each key
    archive,    \* usage_billing_dedup_archive
    rows,       \* the committed rows
    outbox,     \* committed account_changed events: who asked for one (the outbox
                \* lets an equal one of the last second stand for it)
    tx,         \* the transaction of each task
    wrote,      \* rows a transaction has updated and so holds locked
    answer,     \* what Apply returned
    charged,    \* history: tasks whose transaction was committed
    clock,
    faults

vars == <<dedup, archive, rows, outbox, tx, wrote, answer, charged, clock, faults>>
tables == <<dedup, archive, rows, outbox>>

\* The statements a task executes: an effect without a cost is skipped.
Effects(t) == {k \in Kinds : Cost[t][k] > 0}

MutBefore(t, j, k) ==  \* mutant: subscription requests update the account first
    IF Cost[t]["subscription"] > 0 THEN Rank[k] < Rank[j] ELSE Rank[j] < Rank[k]
Before(t, j, k) == Rank[j] < Rank[k]

Prints == {PrintOf[t] : t \in Tasks} \cup {NoPrint}
Row == [spent : Nat, usage : Nat, window : Nat \cup {NoWindow},
        status : {"active", "quota_exhausted"}, live : BOOLEAN]
Transaction == [pc : {"idle", "claim", "compare", "lookup", "effects", "ended"}, now : Nat,
                left : SUBSET Kinds,
                claimed : BOOLEAN, exhausted : BOOLEAN, event : BOOLEAN]
NoTransaction(t) == [pc |-> "idle", now |-> 0, left |-> Effects(t),
                     claimed |-> FALSE, exhausted |-> FALSE, event |-> FALSE]

Init ==
    /\ dedup = [k \in Keys |-> NoPrint] /\ archive = [k \in Keys |-> NoPrint]
    /\ rows = [r \in Rows |-> [spent |-> 0, usage |-> 0, window |-> NoWindow,
                               status |-> "active", live |-> TRUE]]
    /\ outbox = {} /\ charged = {}
    /\ tx = [t \in Tasks |-> NoTransaction(t)]
    /\ wrote = [t \in Tasks |-> <<>>]
    /\ answer = [t \in Tasks |-> "none"]
    /\ clock = 0 /\ faults = 0

At(t, pc) == tx[t].pc = pc
Goto(t, pc) == tx' = [tx EXCEPT ![t].pc = pc]
NextEffect(t, k) == k \in tx[t].left /\ \A j \in tx[t].left \ {k} : Before(t, k, j)
Fails == faults < MaxFaults /\ faults' = faults + 1

\* A row as transaction t sees it, and whether another one holds it locked.
Seen(t, r) == IF r \in DOMAIN wrote[t] THEN wrote[t][r] ELSE rows[r]
LockedFor(t, r) == \E u \in Tasks \ {t} : r \in DOMAIN wrote[u]

MutRollback(t, a) ==  \* mutant: the connection goes back with its transaction open
    /\ Goto(t, "ended") /\ answer' = [answer EXCEPT ![t] = a]
    /\ UNCHANGED <<tables, wrote, charged>>

\* The transaction ends without a commit; nothing it did remains.
Rollback(t, a) ==
    /\ tx' = [tx EXCEPT ![t] = [@ EXCEPT !.pc = "ended", !.claimed = FALSE]]
    /\ wrote' = [wrote EXCEPT ![t] = <<>>]
    /\ answer' = [answer EXCEPT ![t] = a]
    /\ UNCHANGED <<tables, charged>>
----------------------------------------------------------------------------
\* BeginTx; NOW() stays what it is for the whole transaction.
Begin(t) ==
    /\ At(t, "idle")
    /\ tx' = [tx EXCEPT ![t].pc = "claim", ![t].now = clock]
    /\ UNCHANGED <<tables, wrote, answer, charged, clock, faults>>

\* INSERT ... ON CONFLICT DO NOTHING waits for an uncommitted row of its key.
Claim(t) ==
    /\ At(t, "claim")
    /\ \A u \in Tasks \ {t} : KeyOf[u] = KeyOf[t] => ~tx[u].claimed
    /\ IF dedup[KeyOf[t]] = NoPrint
       THEN tx' = [tx EXCEPT ![t].pc = "lookup", ![t].claimed = TRUE]
       ELSE Goto(t, "compare")
    /\ UNCHANGED <<tables, wrote, answer, charged, clock, faults>>

\* The verdict on a key that was found with fingerprint p.
Verdict(t, p) == IF p = PrintOf[t] THEN "duplicate" ELSE "conflict"

\* The conflicting row is read by a second statement: it may have been archived.
Compare(t) ==
    LET p == dedup[KeyOf[t]]
    IN  /\ At(t, "compare")
        /\ Rollback(t, IF p = NoPrint THEN "error" ELSE Verdict(t, p))
        /\ UNCHANGED <<clock, faults>>

MutArchived(t) == NoPrint  \* mutant: the archive is not looked up
Archived(t) == archive[KeyOf[t]]

LookupArchive(t) ==
    /\ At(t, "lookup")
    /\ \/ /\ Archived(t) = NoPrint
          /\ Goto(t, "effects")
          /\ UNCHANGED <<tables, wrote, answer, charged>>
       \/ Archived(t) # NoPrint /\ Rollback(t, Verdict(t, Archived(t)))
    /\ UNCHANGED <<clock, faults>>

\* amount takes the row from below its limit to the limit or beyond.
MutCrosses(r, row, amount) == row.spent < Limit[r] /\ row.spent + amount > Limit[r]  \* mutant: only beyond
Crosses(r, row, amount) == row.spent < Limit[r] /\ row.spent + amount >= Limit[r]

Expired(row, now) == row.window # NoWindow /\ row.window + WindowLength <= now

\* The statement of each kind of effect.
Charged(r, row, k, amount, now) ==
    CASE k = "rate" ->
            [row EXCEPT !.usage = IF Expired(row, now) THEN amount ELSE @ + amount,
                        !.window = IF row.window = NoWindow \/ Expired(row, now) THEN now ELSE @]
      [] k = "quota" ->
            [row EXCEPT !.spent = @ + amount,
                        !.status = IF Crosses(r, row, amount) /\ @ = "active"
                                   THEN "quota_exhausted" ELSE @]
      [] OTHER -> [row EXCEPT !.spent = @ + amount]

\* The rows a transaction has written, and one more.
With(written, r, row) == [s \in DOMAIN written \cup {r} |-> IF s = r THEN row ELSE written[s]]

\* One statement of applyUsageBillingEffects, once the row is not locked by another.
Effect(t) ==
    /\ At(t, "effects")
    /\ \E k \in Kinds :
         LET r == Target[t][k]
             row == Seen(t, r)
             crosses == Crosses(r, row, Cost[t][k])
         IN  /\ NextEffect(t, k) /\ ~LockedFor(t, r)
             /\ \/ /\ row.live
                   /\ wrote' = [wrote EXCEPT ![t] = With(@, r, Charged(r, row, k, Cost[t][k], tx[t].now))]
                   /\ tx' = [tx EXCEPT ![t].left = @ \ {k},
                                       ![t].exhausted = @ \/ (k = "quota" /\ crosses),
                                       ![t].event = @ \/ (k = "account" /\ crosses)]
                   /\ UNCHANGED <<tables, answer, charged>>
                \/ ~row.live /\ Rollback(t, "error")   \* ErrUserNotFound, ErrAPIKeyNotFound, ...
    /\ UNCHANGED <<clock, faults>>

\* tx.Commit; its answer may be lost.
Commit(t) ==
    /\ At(t, "effects") /\ tx[t].left = {}
    /\ dedup' = [dedup EXCEPT ![KeyOf[t]] = PrintOf[t]]
    /\ rows' = [r \in Rows |-> Seen(t, r)]
    /\ outbox' = IF tx[t].event THEN outbox \cup {t} ELSE outbox
    /\ charged' = charged \cup {t}
    /\ tx' = [tx EXCEPT ![t] = [@ EXCEPT !.pc = "ended", !.claimed = FALSE]]
    /\ wrote' = [wrote EXCEPT ![t] = <<>>]
    /\ \/ answer' = [answer EXCEPT ![t] = "applied"] /\ UNCHANGED faults
       \/ answer' = [answer EXCEPT ![t] = "error"] /\ Fails
    /\ UNCHANGED <<archive, clock>>

\* A statement fails, the billing context times out, or the process dies.
Abort(t) ==
    /\ tx[t].pc \notin {"idle", "ended"} /\ Fails
    /\ Rollback(t, "error")
    /\ UNCHANGED clock

----------------------------------------------------------------------------
ArchivedKeys(ks) == [k \in Keys |-> IF k \in ks /\ archive[k] = NoPrint THEN dedup[k] ELSE archive[k]]

\* CleanupUsageBillingDedup: one statement moves the rows before the cutoff.
CleanupUsageBillingDedup ==
    \E ks \in (SUBSET {k \in Keys : dedup[k] # NoPrint}) \ {{}} :
      /\ archive' = ArchivedKeys(ks)
      /\ dedup' = [k \in Keys |-> IF k \in ks THEN NoPrint ELSE dedup[k]]
      /\ UNCHANGED <<rows, outbox, tx, wrote, answer, charged, clock, faults>>

Unlocked(r) == \A t \in Tasks : r \notin DOMAIN wrote[t]

MutReset(row, now) == [row EXCEPT !.usage = 0, !.window = now]  \* mutant: without its condition
Reset(row, now) == IF Expired(row, now) THEN [row EXCEPT !.usage = 0, !.window = now] ELSE row

\* ResetRateLimitWindows, sent when a check saw an expired window; its NOW() is
\* the time it was sent, however long it waited for the row.
ResetRateLimitWindows(r) ==
    \E now \in 0 .. clock :
      /\ rows[r].live /\ Unlocked(r) /\ rows[r].window # NoWindow
      /\ rows' = [rows EXCEPT ![r] = Reset(@, now)]
      /\ UNCHANGED <<dedup, archive, outbox, tx, wrote, answer, charged, clock, faults>>

\* The row is soft-deleted by its own handler; it counts among the faults.
Delete(r) ==
    /\ rows[r].live /\ Unlocked(r) /\ Fails
    /\ rows' = [rows EXCEPT ![r].live = FALSE]
    /\ UNCHANGED <<dedup, archive, outbox, tx, wrote, answer, charged, clock>>

Tick ==
    /\ clock < MaxClock /\ clock' = clock + 1
    /\ UNCHANGED <<tables, tx, wrote, answer, charged, faults>>

\* Every task has its answer: nothing need happen any more.
Finished ==
    /\ \A t \in Tasks : At(t, "ended")
    /\ UNCHANGED vars

Next ==
    \/ \E t \in Tasks :
         \/ Begin(t) \/ Claim(t) \/ Compare(t) \/ LookupArchive(t)
         \/ Effect(t) \/ Commit(t) \/ Abort(t)
    \/ CleanupUsageBillingDedup
    \/ \E r \in Rows : ResetRateLimitWindows(r) \/ Delete(r)
    \/ Tick \/ Finished

Spec == Init /\ [][Next]_vars
----------------------------------------------------------------------------
(* Properties *)

\* Every variable has its type, and an ended transaction holds no row.
TypeOK ==
    /\ dedup \in [Keys -> Prints] /\ archive \in [Keys -> Prints]
    /\ rows \in [Rows -> Row] /\ tx \in [Tasks -> Transaction]
    /\ DOMAIN wrote = Tasks
    /\ \A t \in Tasks : DOMAIN wrote[t] \subseteq Rows /\ \A r \in DOMAIN wrote[t] : wrote[t][r] \in Row
    /\ answer \in [Tasks -> {"none", "applied", "duplicate", "conflict", "error"}]
    /\ \A t \in Tasks : At(t, "ended") => wrote[t] = <<>>
    /\ outbox \subseteq charged /\ charged \subseteq Tasks
    /\ clock \in 0 .. MaxClock /\ faults \in 0 .. MaxFaults

\* The charge of a task to a row, and the tasks that report its limit crossed:
\* to the caller for an API key (the result), to the scheduler for an account.
Part(t, r, k) == IF Target[t][k] = r THEN Cost[t][k] ELSE 0
ChargeTo(t, r) ==
    Part(t, r, "subscription") + Part(t, r, "balance") + Part(t, r, "quota") + Part(t, r, "account")
Crossed(r) ==
    {t \in charged : tx[t].exhausted /\ Target[t]["quota"] = r}
        \cup {t \in outbox : Target[t]["account"] = r}

Ledger == INSTANCE UsageLedger WITH
    Charge <- [t \in Tasks |-> [r \in Rows |-> ChargeTo(t, r)]],
    totals <- [r \in Rows |-> rows[r].spent],
    crossed <- [r \in Rows |-> Crossed(r)]

\* Concurrent transactions, failures, lost answers and the archive job together
\* implement the ledger: a request id is charged once, wholly or not at all, and
\* the crossing of a limit is reported by exactly one charge.
ImplementsLedger == Ledger!LedgerSpec

\* An API key is marked exhausted exactly when its committed use reached its quota.
ExhaustedIsMarked ==
    \A t \in Tasks : LET row == rows[Target[t]["quota"]] IN
        Limit[Target[t]["quota"]] > 0 =>
            (row.status = "quota_exhausted" <=> row.spent >= Limit[Target[t]["quota"]])

\* The window of a key counts every committed charge that was made since it opened,
\* whatever resets and older transactions came between.
WindowCountsCharges ==
    \A t \in Tasks :
      LET r == Target[t]["rate"]
          since == {u \in charged : Target[u]["rate"] = r /\ rows[r].window # NoWindow
                                      /\ tx[u].now >= rows[r].window}
      IN  rows[r].usage >= MapThenSumSet(LAMBDA u : Cost[u]["rate"], since)

\* Who waits for whom: for an uncommitted claim of the same key, or for a row.
WaitsFor(t, u) ==
    \/ At(t, "claim") /\ KeyOf[t] = KeyOf[u] /\ tx[u].claimed
    \/ At(t, "effects") /\ \E k \in Kinds : NextEffect(t, k) /\ Target[t][k] \in DOMAIN wrote[u]

\* Claims and row locks are taken in one order by all: some transaction of every
\* group can go on, so that no group waits in a circle.
NoDeadlock ==
    \A S \in (SUBSET Tasks) \ {{}} : \E t \in S : \A u \in S \ {t} : ~WaitsFor(t, u)
=============================================================================
