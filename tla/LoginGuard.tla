------------------------------ MODULE LoginGuard ------------------------------
(***************************************************************************)
(* The guard of AuthService.login: failure counters and locks, one of each *)
(* for the identifier and one of each for the client's address, kept in    *)
(* Redis.                                                                  *)
(*                                                                         *)
(* Every Redis call is a step of its own: routes run in a thread pool, so  *)
(* other attempts act between two calls of one attempt.  A call may be     *)
(* lost (_redis_call turns every exception into None): before it reached   *)
(* Redis, or after, when the answer timed out.  A counter has no expiry    *)
(* until a later call gives it one; a lock is made with its expiry.  Time  *)
(* is not measured: what has an expiry may expire.                         *)
(***************************************************************************)
EXTENDS Naturals, FiniteSets

CONSTANTS
    Attempts,         \* the requests that may log in at the same time, the pool's threads
    Identifiers,      \* the e-mail addresses and phone numbers
    Addresses,        \* the client addresses
    IdentifierLimit,  \* AUTH_MAX_FAILED_ATTEMPTS_PER_EMAIL
    AddressLimit,     \* AUTH_MAX_FAILED_ATTEMPTS_PER_IP
    MaxCount          \* bound: no failure is counted on from a counter this high

ASSUME LimitsAssumption ==
    /\ IdentifierLimit \in Nat \ {0} /\ AddressLimit \in Nat \ {0}
    /\ MaxCount \in Nat \ {0}
ASSUME KeysAssumption ==
    Identifiers \cap Addresses = {} /\ Identifiers # {} /\ Addresses # {}
ASSUME AttemptsAssumption == IsFiniteSet(Attempts)

VARIABLES
    counter,     \* the failure counters; 0 is a key that does not exist
    window,      \* the counters that have an expiry
    lock,        \* the locks that stand
    login,       \* what each attempt does
    failed,      \* history: the failures counted so far, up to the limit
    unwindowed,  \* history: the last count of a failure lost one of its calls
    forgiven     \* history: the full counters whose lock ended or was never asked for

vars == <<counter, window, lock, login, failed, unwindowed, forgiven>>

-----------------------------------------------------------------------------
Buckets == Identifiers \cup Addresses
LimitOf(b) == IF b \in Identifiers THEN IdentifierLimit ELSE AddressLimit
Counts == 0 .. MaxCount + Cardinality(Attempts) - 1

\* The identifier comes first in every pair of calls, the address second.
Turns == {1, 2}

\* An attempt: its next call, the bucket that call is about, the locks it has
\* found, whether the count it was told is the first, which counts it was told
\* have reached their limit, and whether the count it is making lost a call.
Login == [at : {"idle", "ask", "incr", "ttl", "expire", "lock",
                "clearCounter", "clearLock"},
          turn : Turns, keys : Identifiers \X Addresses,
          locked : BOOLEAN, first : BOOLEAN, reached : SUBSET Turns, lost : BOOLEAN]

\* An attempt that is not under way; only its step means something.
Idle == [at |-> "idle", turn |-> 1, keys |-> CHOOSE k \in Identifiers \X Addresses : TRUE,
         locked |-> FALSE, first |-> FALSE, reached |-> {}, lost |-> FALSE]

TypeOK ==
    /\ counter \in [Buckets -> Counts]
    /\ window \subseteq {b \in Buckets : counter[b] > 0}
    /\ lock \subseteq Buckets
    /\ login \in [Attempts -> Login]
    /\ failed \in [Buckets -> Nat] /\ \A b \in Buckets : failed[b] <= LimitOf(b)
    /\ unwindowed \subseteq Buckets
    /\ forgiven \subseteq Buckets

Init ==
    /\ counter = [b \in Buckets |-> 0]
    /\ window = {} /\ lock = {} /\ unwindowed = {} /\ forgiven = {}
    /\ failed = [b \in Buckets |-> 0]
    /\ login = [t \in Attempts |-> Idle]

-----------------------------------------------------------------------------
Key(t) == login[t].keys[login[t].turn]
IsAt(t, call) == login[t].at = call

\* The outcomes of _redis_call: done and answered, done without an answer,
\* not done.
Outcomes == {[done |-> TRUE, answered |-> TRUE], [done |-> TRUE, answered |-> FALSE],
             [done |-> FALSE, answered |-> FALSE]}

\* The same call for the address after the one for the identifier, then next.
Goes(t, now, next) ==
    login' = [login EXCEPT ![t] =
                 CASE now.turn = 1 -> [now EXCEPT !.turn = 2]
                   [] now.turn = 2 /\ next = "idle" -> Idle
                   [] OTHER -> [now EXCEPT !.turn = 1, !.at = next, !.locked = FALSE]]

Removed(b) ==
    /\ counter' = [counter EXCEPT ![b] = 0]
    /\ window' = window \ {b}
    /\ unwindowed' = unwindowed \ {b}
    /\ forgiven' = forgiven \ {b}

IsFull(b) == counter[b] >= LimitOf(b)
Forgives(b, excuse) == forgiven' = IF excuse THEN forgiven \cup {b} ELSE forgiven

-----------------------------------------------------------------------------
\* login: an attempt for one identifier from one address.
Begin(t) == \E keys \in Identifiers \X Addresses :
    /\ IsAt(t, "idle")
    /\ login' = [login EXCEPT ![t] = [Idle EXCEPT !.at = "ask", !.keys = keys]]
    /\ UNCHANGED <<counter, window, lock, failed, unwindowed, forgiven>>

\* What the password decides: the right one clears, a wrong one counts.
Verdicts(t) == {"clearCounter"} \cup
    {v \in {"incr"} : \A n \in Turns : counter[login[t].keys[n]] < MaxCount}

\* _assert_login_allowed: the time left of both locks, none for a lost call; then
\* the password is verified.
Ask(t) == \E o \in Outcomes, verdict \in Verdicts(t) :
    LET found == login[t].locked \/ (o.answered /\ Key(t) \in lock) IN
    /\ IsAt(t, "ask")
    /\ Goes(t, [login[t] EXCEPT !.locked = found], IF found THEN "idle" ELSE verdict)
    /\ UNCHANGED <<counter, window, lock, failed, unwindowed, forgiven>>

\* The end of _increment_fail_counter: on to the address, then to the locks.
Counted(t, now) ==
    /\ login' = [login EXCEPT ![t] =
                    [now EXCEPT !.turn = 3 - now.turn, !.lost = FALSE, !.first = FALSE,
                                !.at = IF now.turn = 1 THEN "incr" ELSE "lock"]]
    /\ unwindowed' = IF now.lost /\ counter'[Key(t)] > 0 /\ Key(t) \notin window'
                     THEN unwindowed \cup {Key(t)} ELSE unwindowed \ {Key(t)}

\* Mutants of Reached: one failure more, or the limit of the identifier for both.
ReachedAfter(t, n) == {k \in {login[t].turn} : n > LimitOf(Key(t))}
ReachedByIdentifier(t, n) == {k \in {login[t].turn} : n >= IdentifierLimit}

\* _record_failed_login: the count an attempt was told decides on the lock.
Reached(t, n) == {k \in {login[t].turn} : n >= LimitOf(Key(t))}

\* Mutant of Incremented: the call is repeated.
IncrementedAgain(b) == counter[b] + 2

\* The key is made by its first increment.
Incremented(b) == counter[b] + 1

\* _increment_fail_counter, INCR: without an answer, the expiry is not looked at.
Incr(t) == \E o \in Outcomes :
    LET b == Key(t)
        n == Incremented(b) IN
    /\ IsAt(t, "incr")
    /\ UNCHANGED <<window, lock>>
    /\ IF o.done
       THEN /\ counter' = [counter EXCEPT ![b] = n]
            /\ failed' = [failed EXCEPT ![b] = IF @ < LimitOf(b) THEN @ + 1 ELSE @]
       ELSE UNCHANGED <<counter, failed>>
    /\ Forgives(b, o.done /\ ~o.answered /\ n >= LimitOf(b))
    /\ IF o.answered
       THEN /\ login' = [login EXCEPT ![t].at = "ttl", ![t].first = (n = 1),
                               ![t].reached = @ \cup Reached(t, n)]
            /\ UNCHANGED unwindowed
       ELSE Counted(t, [login[t] EXCEPT !.lost = TRUE])

\* Mutant of NeedsWindow: only the first count asks for one.
NeedsWindowOnce(first, found) == first

\* The first count of a counter gives it an expiry, and so does every later one
\* that finds none, whether the counter has none, is gone or did not answer.
NeedsWindow(first, found) == first \/ ~found

\* _increment_fail_counter, TTL.
ReadTtl(t) == \E o \in Outcomes :
    LET found == o.answered /\ Key(t) \in window IN
    /\ IsAt(t, "ttl")
    /\ UNCHANGED <<counter, window, lock, failed, forgiven>>
    /\ IF NeedsWindow(login[t].first, found)
       THEN login' = [login EXCEPT ![t].at = "expire"] /\ UNCHANGED unwindowed
       ELSE Counted(t, login[t])

\* _increment_fail_counter, EXPIRE: it does nothing to a key that is gone.
Expire(t) == \E o \in Outcomes :
    /\ IsAt(t, "expire")
    /\ UNCHANGED <<counter, lock, failed, forgiven>>
    /\ window' = IF o.done /\ counter[Key(t)] > 0 THEN window \cup {Key(t)} ELSE window
    /\ Counted(t, [login[t] EXCEPT !.lost = ~o.answered])

\* _record_failed_login, SETEX: a lock and its expiry in one call.
SetLock(t) == \E o \in Outcomes :
    LET b == Key(t) IN
    /\ IsAt(t, "lock")
    /\ IF login[t].turn \in login[t].reached
       THEN /\ lock' = IF o.done THEN lock \cup {b} ELSE lock
            /\ IF o.done THEN forgiven' = forgiven \ {b} ELSE Forgives(b, IsFull(b))
       ELSE UNCHANGED <<lock, forgiven>>
    /\ Goes(t, login[t], "idle")
    /\ UNCHANGED <<counter, window, failed, unwindowed>>

\* _clear_failed_login_state: after the right password both counters go, then
\* both locks.
ClearCounter(t) == \E o \in Outcomes :
    /\ IsAt(t, "clearCounter")
    /\ IF o.done THEN Removed(Key(t)) ELSE UNCHANGED <<counter, window, unwindowed, forgiven>>
    /\ Goes(t, login[t], "clearLock")
    /\ UNCHANGED <<lock, failed>>

ClearLock(t) == \E o \in Outcomes :
    LET b == Key(t) IN
    /\ IsAt(t, "clearLock")
    /\ lock' = IF o.done THEN lock \ {b} ELSE lock
    /\ Forgives(b, o.done /\ IsFull(b))
    /\ Goes(t, login[t], "idle")
    /\ UNCHANGED <<counter, window, failed, unwindowed>>

-----------------------------------------------------------------------------
\* Redis removes what has an expiry.
CounterExpires(b) ==
    /\ b \in window
    /\ Removed(b)
    /\ UNCHANGED <<lock, login, failed>>

LockExpires(b) ==
    /\ b \in lock
    /\ lock' = lock \ {b}
    /\ Forgives(b, IsFull(b))
    /\ UNCHANGED <<counter, window, login, failed, unwindowed>>

Proceed(t) == Ask(t) \/ Incr(t) \/ ReadTtl(t) \/ Expire(t) \/ SetLock(t)
              \/ ClearCounter(t) \/ ClearLock(t)

Next ==
    \/ \E t \in Attempts : Begin(t) \/ Proceed(t)
    \/ \E b \in Buckets : CounterExpires(b) \/ LockExpires(b)

Spec == Init /\ [][Next]_vars

\* A thread of the pool finishes its request; keys expire in the end.
FairSpec ==
    /\ Spec
    /\ \A t \in Attempts : WF_vars(Proceed(t))
    /\ \A b \in Buckets : WF_vars(CounterExpires(b)) /\ WF_vars(LockExpires(b))

-----------------------------------------------------------------------------
\* A counter without an expiry was left by a count that lost a call, and by no
\* complete count since, or is about to get one: an attempt that died between
\* INCR and EXPIRE is repaired by the next failure (_increment_fail_counter).
WindowlessExplained == \A b \in Buckets :
    counter[b] > 0 /\ b \notin window =>
        \/ b \in unwindowed
        \/ \E t \in Attempts : login[t].at \in {"ttl", "expire"} /\ Key(t) = b

\* A lock stands on an identifier or an address only after as many failures were
\* counted for that one as its own limit asks (_record_failed_login): neither the
\* failures of another identifier nor right passwords lock it.
LocksAreEarned == \A b \in lock : failed[b] >= LimitOf(b)

\* A counter at its limit has its lock, or an attempt that was told so and is on
\* its way to set it, or its lock was lost, has expired or was removed by a right
\* password: however concurrent counts overtake each other, one of them sets the
\* lock (_record_failed_login).
Told(t, b) == \E n \in Turns :
    /\ login[t].keys[n] = b /\ n \in login[t].reached
    /\ login[t].at \in {"incr", "ttl", "expire", "lock"}
    /\ login[t].at = "lock" => login[t].turn <= n

FullCounterLocks == \A b \in Buckets :
    IsFull(b) => b \in lock \cup forgiven \/ \E t \in Attempts : Told(t, b)

\* What nobody fails to log in with any more is unlocked in the end and forgets
\* its failures, unless the count of its last failure lost a call.
Recovers == \A b \in Buckets :
    <>[](\A t \in Attempts : IsAt(t, "idle") \/ Key(t) # b)
        => <>[](b \notin lock /\ (counter[b] = 0 \/ b \in unwindowed))

===============================================================================
