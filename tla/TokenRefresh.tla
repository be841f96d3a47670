---------------------------- MODULE TokenRefresh ----------------------------
(***************************************************************************)
(* The refresh of the OAuth token of one account.  The provider accepts a  *)
(* refresh token once: it answers with the next one, and an earlier one is *)
(* an invalid_grant.  Every instance of the program has a background loop, *)
(* and requests that refresh a token about to expire; both go through      *)
(* RefreshIfNeeded, which takes a mutex of the process, a lock in Redis    *)
(* that expires and is deleted without a look at its owner, and reads the  *)
(* account again before it uses the refresh token.                         *)
(***************************************************************************)
EXTENDS Integers, FiniteSets

CONSTANTS Instances,
          MaxRetries,  \* attempts of the background loop per account
          MaxTokens,   \* bound on the refresh tokens the provider gives
          MaxFaults,   \* bound on failed calls, crashes and overlong refreshes
          NoOne

Workers == Instances \X {"background", "request"}
Inst(w) == w[1]

ASSUME TokenAssumption ==
    /\ MaxRetries \in Nat \ {0} /\ MaxTokens \in Nat /\ MaxFaults \in Nat
    /\ NoOne \notin Workers

VARIABLES current,  \* the refresh token the provider accepts
          account,  \* the row: refresh token, about to expire, status error
          lock,     \* oauth:refresh_lock, NoOne when it is absent
          mutex,    \* [Instances -> the worker that holds the local lock]
          job,      \* [Workers -> the state of a call]
          excuse,   \* why a refresh token may be dead or mistaken for dead
          faults    \* faults that have happened

vars == <<current, account, lock, mutex, job, excuse, faults>>

Excuses == {"lost", "overlap", "blind"}
Tokens == 0 .. MaxTokens
Row == [token : Tokens, expiring : BOOLEAN, error : BOOLEAN]
Pcs == {"idle", "mutex", "acquire", "reread", "refresh", "recover", "persist", "release", "seterror"}
Results == {"none", "held", "notneeded", "retryable", "invalid", "refreshed"}
Attempts == 1 .. MaxRetries + 1
Jobs == [pc : Pcs, copy : Row, fresh : Row, own : BOOLEAN, held : BOOLEAN, bare : BOOLEAN,
         blind : BOOLEAN, result : Results, got : Tokens, attempt : Attempts]

\* copy is the account the caller was given, fresh the one read under the
\* lock, own tells that the two are one object.
Idle(row) == [pc |-> "idle", copy |-> row, fresh |-> row, own |-> FALSE,
              held |-> FALSE, bare |-> FALSE, blind |-> FALSE,
              result |-> "none", got |-> 0, attempt |-> 1]

Init ==
    /\ current = 0
    /\ account = [token |-> 0, expiring |-> TRUE, error |-> FALSE]
    /\ lock = NoOne
    /\ mutex = [i \in Instances |-> NoOne]
    /\ job = [w \in Workers |-> Idle(account)]
    /\ excuse = {} /\ faults = 0

To(w, pc) == job' = [job EXCEPT ![w].pc = pc]

\* Inside the part the locks are meant to make exclusive.
Refreshing(j, w) == j[w].pc \in {"reread", "refresh", "recover", "persist"}

\* Two instances refresh at once and one has no lock in Redis: Redis failed, or
\* the lock ended before the refresh did, or such a refresh deleted it.
Overlap(j) ==
    IF \E v, w \in Workers : /\ Inst(v) # Inst(w) /\ j[v].bare
                             /\ Refreshing(j, v) /\ Refreshing(j, w)
    THEN {"overlap"} ELSE {}

Fault == faults < MaxFaults /\ faults' = faults + 1

(***************************************************************************)
(* The callers.  A request has the account the scheduler gave it, the loop *)
(* the row it listed, both possibly long ago; the loop leaves out accounts *)
(* in error.                                                               *)
(***************************************************************************)
Start(w) ==
    /\ job[w].pc = "idle" /\ account.expiring /\ ~account.error
    /\ job' = [job EXCEPT ![w] = [Idle(account) EXCEPT !.pc = "mutex"]]
    /\ UNCHANGED <<current, account, lock, mutex, excuse, faults>>

MutLockMutex(w) ==   \* mutant: getLocalLock gives every call a mutex of its own
    /\ job[w].pc = "mutex"
    /\ mutex' = [mutex EXCEPT ![Inst(w)] = w]
    /\ To(w, "acquire")
    /\ UNCHANGED <<current, account, lock, excuse, faults>>

LockMutex(w) ==
    /\ job[w].pc = "mutex" /\ mutex[Inst(w)] = NoOne
    /\ mutex' = [mutex EXCEPT ![Inst(w)] = w]
    /\ To(w, "acquire")
    /\ UNCHANGED <<current, account, lock, excuse, faults>>

Finish(w, result) == job' = [job EXCEPT ![w].pc = "release", ![w].result = result]

AcquireRefreshLock(w) ==
    /\ job[w].pc = "acquire"
    /\ \/ /\ lock = NoOne
          /\ lock' = w
          /\ job' = [job EXCEPT ![w].pc = "reread", ![w].held = TRUE]
          /\ UNCHANGED faults
       \/ /\ lock # NoOne
          /\ Finish(w, "held")
          /\ UNCHANGED <<lock, faults>>
       \/ /\ Fault   \* Redis cannot be reached: the refresh goes on without the lock
          /\ job' = [job EXCEPT ![w].pc = "reread", ![w].bare = TRUE]
          /\ UNCHANGED lock
    /\ excuse' = excuse \cup Overlap(job')
    /\ UNCHANGED <<current, account, mutex>>

\* The row read under the lock decides; when it cannot be read the caller's
\* account does.
GetByID(w) ==
    /\ job[w].pc = "reread"
    /\ \E failed \in BOOLEAN :
         LET fresh == IF failed THEN job[w].copy ELSE account IN
         /\ IF failed THEN Fault ELSE UNCHANGED faults
         /\ job' = [job EXCEPT ![w].pc = IF fresh.expiring THEN "refresh" ELSE "release",
                               ![w].fresh = fresh, ![w].own = failed, ![w].blind = failed,
                               ![w].result = IF fresh.expiring THEN @ ELSE "notneeded"]
    /\ UNCHANGED <<current, account, lock, mutex, excuse>>

\* The provider: the current token is used up whether or not the answer arrives.
Refresh(w) ==
    /\ job[w].pc = "refresh"
    /\ \/ /\ job[w].fresh.token = current /\ current < MaxTokens
          /\ current' = current + 1
          /\ \/ /\ job' = [job EXCEPT ![w].pc = "persist", ![w].got = current + 1]
                /\ UNCHANGED <<excuse, faults>>
             \/ /\ Fault /\ Finish(w, "retryable")
                /\ excuse' = excuse \cup {"lost"}
       \/ /\ job[w].fresh.token # current
          /\ To(w, "recover")
          /\ UNCHANGED <<current, excuse, faults>>
       \/ /\ Fault /\ Finish(w, "retryable")   \* the provider was not reached
          /\ UNCHANGED <<current, excuse>>
    /\ UNCHANGED <<account, lock, mutex>>

\* tryRecoverFromRefreshRace: another token in the row means that another
\* worker has refreshed.
Recover(w) ==
    /\ job[w].pc = "recover"
    /\ \/ /\ Finish(w, IF account.token # job[w].fresh.token THEN "notneeded" ELSE "invalid")
          /\ UNCHANGED <<excuse, faults>>
       \/ /\ Fault /\ Finish(w, "invalid")
          /\ excuse' = IF job[w].blind THEN excuse \cup {"blind"} ELSE excuse
    /\ UNCHANGED <<current, account, lock, mutex>>

\* MergeCredentials: what the provider answered, and the old values of the rest.
MergeCredentials(row, got) == [row EXCEPT !.token = got, !.expiring = FALSE]

Persist(w) ==
    LET new == MergeCredentials(job[w].fresh, job[w].got)
        mine == IF job[w].own THEN new ELSE job[w].copy   \* account.Credentials is assigned first
    IN
    /\ job[w].pc = "persist"
    /\ \/ /\ account' = [account EXCEPT !.token = new.token, !.expiring = new.expiring]
          /\ job' = [job EXCEPT ![w].pc = "release", ![w].result = "refreshed", ![w].copy = mine]
          /\ UNCHANGED <<excuse, faults>>
       \/ /\ Fault
          /\ job' = [job EXCEPT ![w].pc = "release", ![w].result = "retryable", ![w].copy = mine]
          /\ excuse' = excuse \cup {"lost"}
          /\ UNCHANGED account
    /\ UNCHANGED <<current, lock, mutex>>

\* The deferred calls: the key in Redis is deleted by whoever acquired it once,
\* the mutex is unlocked, and the caller goes on.
MutReleaseRefreshLock(w, held) == NoOne   \* mutant: the release is deferred before the result is looked at
ReleaseRefreshLock(w, held) == IF held THEN NoOne ELSE lock

After(w) ==
    CASE job[w].result = "invalid" /\ w[2] = "background" -> "seterror"
      [] job[w].result = "retryable" /\ w[2] = "background" /\ job[w].attempt < MaxRetries -> "mutex"
      [] OTHER -> "idle"

Released(w) == [job EXCEPT
    ![w] = IF After(w) = "idle" THEN Idle(account)
           ELSE [Idle(job[w].copy) EXCEPT !.pc = After(w), !.attempt = job[w].attempt + 1]]

Release(w) ==
    /\ job[w].pc = "release"
    /\ \/ /\ lock' = ReleaseRefreshLock(w, job[w].held)
          /\ job' = IF lock \notin {w, NoOne} /\ job[w].held /\ job[w].bare
                    THEN [Released(w) EXCEPT ![lock].bare = TRUE] ELSE Released(w)
          /\ UNCHANGED faults
       \/ /\ Fault /\ job[w].held
          /\ job' = Released(w) /\ UNCHANGED lock
    /\ mutex' = [mutex EXCEPT ![Inst(w)] = NoOne]
    /\ excuse' = excuse \cup Overlap(job')
    /\ UNCHANGED <<current, account>>

\* The loop marks the account of an invalid_grant; nothing but a new
\* authorisation takes the mark away.
SetError(w) ==
    /\ job[w].pc = "seterror"
    /\ \/ account' = [account EXCEPT !.error = TRUE] /\ UNCHANGED faults
       \/ Fault /\ UNCHANGED account
    /\ job' = [job EXCEPT ![w] = Idle(account')]
    /\ UNCHANGED <<current, lock, mutex, excuse>>

(***************************************************************************)
(* Time, and the failures of an instance.                                  *)
(***************************************************************************)
TimePasses ==
    /\ ~account.expiring /\ current < MaxTokens
    /\ account' = [account EXCEPT !.expiring = TRUE]
    /\ UNCHANGED <<current, lock, mutex, job, excuse, faults>>

\* The lock ends after a minute; the timeout of a provider's client may be two.
LockExpires ==
    /\ lock # NoOne
    /\ lock' = NoOne
    /\ IF job[lock].held
         THEN /\ Fault
              /\ job' = [job EXCEPT ![lock].bare = TRUE]
         ELSE UNCHANGED <<job, faults>>
    /\ excuse' = excuse \cup Overlap(job')
    /\ UNCHANGED <<current, account, mutex>>

Crash(i) ==
    /\ Fault
    /\ \E w \in Workers : Inst(w) = i /\ job[w].pc # "idle"
    /\ excuse' = IF \E w \in Workers : Inst(w) = i /\ job[w].pc = "persist"
                 THEN excuse \cup {"lost"} ELSE excuse
    /\ job' = [w \in Workers |-> IF Inst(w) = i THEN Idle(account) ELSE job[w]]
    /\ mutex' = [mutex EXCEPT ![i] = NoOne]
    /\ UNCHANGED <<current, account, lock>>

Step(w) ==
    \/ LockMutex(w) \/ AcquireRefreshLock(w) \/ GetByID(w) \/ Refresh(w)
    \/ Recover(w) \/ Persist(w) \/ Release(w) \/ SetError(w)

Next ==
    \/ \E w \in Workers : Start(w) \/ Step(w)
    \/ \E i \in Instances : Crash(i)
    \/ TimePasses \/ LockExpires

Spec == Init /\ [][Next]_vars

(***************************************************************************)
(* Properties                                                              *)
(***************************************************************************)
\* Every variable has the shape the code gives it; a worker inside
\* RefreshIfNeeded holds its process's mutex, and only giving up ends the retries.
TypeOK ==
    /\ current \in Tokens /\ account \in Row /\ job \in [Workers -> Jobs]
    /\ lock \in Workers \cup {NoOne} /\ mutex \in [Instances -> Workers \cup {NoOne}]
    /\ excuse \subseteq Excuses /\ faults \in 0 .. MaxFaults
    /\ \A w \in Workers :
         /\ job[w].pc \notin {"idle", "mutex", "seterror"} => mutex[Inst(w)] = w
         /\ job[w].pc # "seterror" => job[w].attempt <= MaxRetries

\* An account is taken out of service for a dead refresh token only when one of
\* three things has happened: the provider's answer was lost before it was
\* stored, two instances refreshed at once because a lock in Redis failed or did
\* not outlast its refresh, or the account could be read neither before the refresh nor after it.
\* Any number of workers with accounts as old as they like, locks left behind,
\* deleted by others or ended by time, and retries do not do it.
MarkedIsDead == account.error => excuse # {}
=============================================================================
