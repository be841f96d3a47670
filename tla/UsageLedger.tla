---------------------------- MODULE UsageLedger ----------------------------
(***************************************************************************)
(* What the billing of usage promises, without transactions, locks or      *)
(* failures: of the tasks that carry one request id at most one is ever    *)
(* charged, a charge moves all its totals in one step, the limit of a row  *)
(* is crossed by one charge only, and an answer other than an error says   *)
(* the truth about what was charged before it.                             *)
(***************************************************************************)
EXTENDS Integers

CONSTANTS Tasks,    \* one call of Apply each
          Rows,     \* users, subscriptions, API keys and accounts
          KeyOf,    \* the request id and API key of a task
          PrintOf,  \* the fingerprint of its command
          Charge,   \* what a task adds to the total of each row
          Limit     \* the quota of each row, 0 when it has none

VARIABLES charged,  \* the tasks that were charged
          totals,   \* the total charged to each row
          crossed,  \* the tasks that made a row cross its limit
          answer    \* what each task was told

LedgerInit ==
    /\ charged = {}
    /\ totals = [r \in Rows |-> 0]
    /\ crossed = [r \in Rows |-> {}]
    /\ answer = [t \in Tasks |-> "none"]

Rivals(t) == {u \in charged : KeyOf[u] = KeyOf[t]}

\* t is charged; its caller learns it, or hears of an error.
Charged(t) ==
    /\ answer[t] = "none"
    /\ Rivals(t) = {}
    /\ charged' = charged \cup {t}
    /\ totals' = [r \in Rows |-> totals[r] + Charge[t][r]]
    /\ crossed' = [r \in Rows |->
           IF totals[r] < Limit[r] /\ Limit[r] <= totals'[r]
           THEN crossed[r] \cup {t} ELSE crossed[r]]
    /\ \E a \in {"applied", "error"} : answer' = [answer EXCEPT ![t] = a]

\* t is not charged; "duplicate" and "conflict" mean that another one was.
Refused(t) ==
    /\ answer[t] = "none"
    /\ \E a \in {"duplicate", "conflict", "error"} :
         /\ a = "duplicate" => \E u \in Rivals(t) : PrintOf[u] = PrintOf[t]
         /\ a = "conflict" => \E u \in Rivals(t) : PrintOf[u] # PrintOf[t]
         /\ answer' = [answer EXCEPT ![t] = a]
    /\ UNCHANGED <<charged, totals, crossed>>

LedgerSpec ==
    LedgerInit /\ [][\E t \in Tasks : Charged(t) \/ Refused(t)]_<<charged, totals, crossed, answer>>
=============================================================================
