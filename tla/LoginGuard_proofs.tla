--------------------------- MODULE LoginGuard_proofs ---------------------------
(***************************************************************************)
(* Proofs about LoginGuard, for every set of identifiers, addresses and    *)
(* attempts and all limits: whatever calls to Redis are lost and however   *)
(* attempts overtake each other, locks are earned, full counters are       *)
(* locked, and counters without an expiry are explained.                   *)
(***************************************************************************)
EXTENDS LoginGuard, FiniteSetTheorems, TLAPS

\* The attempts that may still count a failure for b.
Pending(b) ==
    {t \in Attempts :
        \/ login[t].at = "incr" /\ Key(t) = b
        \/ login[t].at \in {"incr", "ttl", "expire"} /\ login[t].turn = 1
              /\ login[t].keys[2] = b}

\* A count begins below MaxCount, and each attempt adds one at most.
Bounded(b) ==
    counter[b] + Cardinality(Pending(b)) <= MaxCount + Cardinality(Attempts) - 1

\* A counter holds failures that were counted, as far as the limit goes.
Earned(b) == counter[b] <= failed[b] \/ LimitOf(b) <= failed[b]

\* What an attempt was told of a limit stays true: failures are never uncounted.
ToldTrue(t) ==
    \A n \in login[t].reached : failed[login[t].keys[n]] >= LimitOf(login[t].keys[n])

IInv ==
    /\ TypeOK
    /\ \A b \in Buckets : Bounded(b) /\ Earned(b)
    /\ \A t \in Attempts : ToldTrue(t)
    /\ WindowlessExplained
    /\ LocksAreEarned
    /\ FullCounterLocks

-----------------------------------------------------------------------------
(* The operators of the model. *)

LEMMA LimitsPositive ==
  ASSUME NEW b
  PROVE  LimitOf(b) \in Nat /\ LimitOf(b) > 0
  BY LimitsAssumption DEF LimitOf

LEMMA PendingFinite ==
  ASSUME NEW b
  PROVE  /\ IsFiniteSet(Pending(b))
         /\ Cardinality(Pending(b)) \in Nat
         /\ Cardinality(Attempts) \in Nat
         /\ Cardinality(Pending(b)) <= Cardinality(Attempts)
<1>1. Pending(b) \subseteq Attempts
  BY DEF Pending
<1> QED
  BY <1>1, AttemptsAssumption, FS_Subset, FS_CardinalityType

LEMMA CountsAre == \A n : n \in Counts <=> n \in Nat /\ n <= MaxCount + Cardinality(Attempts) - 1
<1>1. Cardinality(Attempts) \in Nat /\ MaxCount \in Nat
  BY AttemptsAssumption, FS_CardinalityType, LimitsAssumption
<1> QED
  BY <1>1 DEF Counts

\* An answered call was done.
LEMMA OutcomeIs ==
  ASSUME NEW o \in Outcomes
  PROVE  /\ o.done \in BOOLEAN /\ o.answered \in BOOLEAN
         /\ o.answered => o.done
<1>1. CASE o = [done |-> TRUE, answered |-> TRUE]
  BY <1>1
<1>2. CASE o = [done |-> TRUE, answered |-> FALSE]
  BY <1>2
<1>3. CASE o = [done |-> FALSE, answered |-> FALSE]
  BY <1>3
<1> QED
  BY <1>1, <1>2, <1>3, Zenon DEF Outcomes

LEMMA KeysAre ==
  ASSUME NEW r \in Login
  PROVE  /\ r.keys[1] \in Identifiers /\ r.keys[2] \in Addresses
         /\ r.keys[1] # r.keys[2]
         /\ r.turn \in {1, 2}
         /\ r.keys[1] \in Buckets /\ r.keys[2] \in Buckets /\ r.keys[r.turn] \in Buckets
<1>1. r.keys[1] \in Identifiers /\ r.keys[2] \in Addresses /\ r.turn \in {1, 2}
  BY DEF Login, Turns
<1> QED
  BY <1>1, KeysAssumption DEF Buckets

LEMMA IdleIs ==
  /\ Idle \in Login /\ Idle.at = "idle" /\ Idle.reached = {} /\ Idle.turn = 1
  /\ Idle.lost = FALSE /\ Idle.first = FALSE /\ Idle.locked = FALSE
<1>1. (CHOOSE k \in Identifiers \X Addresses : TRUE) \in Identifiers \X Addresses
  <2>1. PICK i \in Identifiers, a \in Addresses : TRUE
    BY KeysAssumption
  <2>2. <<i, a>> \in Identifiers \X Addresses
    BY <2>1
  <2> QED
    BY <2>2
<1> QED
  BY <1>1 DEF Idle, Login, Turns

\* The two ways a pair of calls is gone through, as facts about the attempt.
LEMMA GoesIs ==
  ASSUME TypeOK, NEW t \in Attempts, NEW now \in Login,
         NEW next \in {"idle", "lock", "clearCounter", "clearLock", "incr"},
         Goes(t, now, next)
  PROVE  /\ login' \in [Attempts -> Login]
         /\ \A u \in Attempts : u # t => login'[u] = login[u]
         /\ now.turn = 1 => /\ login'[t].at = now.at /\ login'[t].turn = 2
                            /\ login'[t].keys = now.keys /\ login'[t].reached = now.reached
         /\ now.turn = 2 /\ next = "idle" => login'[t] = Idle
         /\ now.turn = 2 /\ next # "idle" =>
               /\ login'[t].at = next /\ login'[t].turn = 1
               /\ login'[t].keys = now.keys /\ login'[t].reached = now.reached
<1>0. login \in [Attempts -> Login] /\ Idle \in Login /\ now.turn \in {1, 2}
  BY IdleIs DEF TypeOK, Login, Turns
<1>1. CASE now.turn = 1
  <2> DEFINE r == [now EXCEPT !.turn = 2]
  <2>1. login' = [login EXCEPT ![t] = r]
    BY <1>1 DEF Goes
  <2>2. r \in Login /\ r.at = now.at /\ r.turn = 2 /\ r.keys = now.keys
        /\ r.reached = now.reached
    BY DEF Login, Turns
  <2> HIDE DEF r
  <2> QED
    BY <1>0, <1>1, <2>1, <2>2
<1>2. CASE now.turn = 2 /\ next = "idle"
  <2>1. login' = [login EXCEPT ![t] = Idle]
    BY <1>2 DEF Goes
  <2> QED
    BY <1>0, <1>2, <2>1
<1>3. CASE now.turn = 2 /\ next # "idle"
  <2> DEFINE r == [now EXCEPT !.turn = 1, !.at = next, !.locked = FALSE]
  <2>1. login' = [login EXCEPT ![t] = r]
    BY <1>3 DEF Goes
  <2>2. r \in Login /\ r.at = next /\ r.turn = 1 /\ r.keys = now.keys
        /\ r.reached = now.reached
    BY DEF Login, Turns
  <2> HIDE DEF r
  <2> QED
    BY <1>0, <1>3, <2>1, <2>2
<1> QED
  BY <1>0, <1>1, <1>2, <1>3

LEMMA CountedIs ==
  ASSUME TypeOK, NEW t \in Attempts, NEW now \in Login,
         Counted(t, now)
  PROVE  /\ login' \in [Attempts -> Login]
         /\ \A u \in Attempts : u # t => login'[u] = login[u]
         /\ login'[t].keys = now.keys /\ login'[t].reached = now.reached
         /\ now.turn = 1 => login'[t].at = "incr" /\ login'[t].turn = 2
         /\ now.turn = 2 => login'[t].at = "lock" /\ login'[t].turn = 1
<1> DEFINE r == [now EXCEPT !.turn = 3 - now.turn, !.lost = FALSE, !.first = FALSE,
                            !.at = IF now.turn = 1 THEN "incr" ELSE "lock"]
<1>0. now.turn \in {1, 2}
  BY DEF Login, Turns
<1>1. login' = [login EXCEPT ![t] = r]
  BY DEF Counted
<1>2. /\ r \in Login /\ r.keys = now.keys /\ r.reached = now.reached
      /\ now.turn = 1 => r.at = "incr" /\ r.turn = 2
      /\ now.turn = 2 => r.at = "lock" /\ r.turn = 1
  <2>1. CASE now.turn = 1
    <3>1. r = [now EXCEPT !.turn = 2, !.lost = FALSE, !.first = FALSE, !.at = "incr"]
      BY <2>1
    <3> HIDE DEF r
    <3>2. r \in Login
      BY <3>1 DEF Login, Turns
    <3>3. r.keys = now.keys /\ r.reached = now.reached /\ r.at = "incr" /\ r.turn = 2
      BY <3>1 DEF Login
    <3> QED
      BY <2>1, <3>2, <3>3
  <2>2. CASE now.turn = 2
    <3>1. r = [now EXCEPT !.turn = 1, !.lost = FALSE, !.first = FALSE, !.at = "lock"]
      BY <2>2
    <3> HIDE DEF r
    <3>2. r \in Login
      BY <3>1 DEF Login, Turns
    <3>3. r.keys = now.keys /\ r.reached = now.reached /\ r.at = "lock" /\ r.turn = 1
      BY <3>1 DEF Login
    <3> QED
      BY <2>2, <3>2, <3>3
  <2> HIDE DEF r
  <2> QED
    BY <1>0, <2>1, <2>2
<1> HIDE DEF r
<1> QED
  BY <1>1, <1>2 DEF TypeOK

-----------------------------------------------------------------------------
(* What a step of one attempt keeps. *)

\* The step of t: nobody else moves.
Alone(t) ==
    /\ login' \in [Attempts -> Login]
    /\ \A u \in Attempts : u # t => login'[u] = login[u]

LEMMA FewerPending ==
  ASSUME NEW b, Bounded(b), Pending(b)' \subseteq Pending(b),
         counter[b] \in Nat, counter'[b] \in Nat, counter'[b] <= counter[b]
  PROVE  Bounded(b)'
<1>1. IsFiniteSet(Pending(b)) /\ Cardinality(Pending(b)) \in Nat /\ Cardinality(Attempts) \in Nat
  BY PendingFinite
<1>2. Cardinality(Pending(b)') \in Nat /\ Cardinality(Pending(b)') <= Cardinality(Pending(b))
  BY <1>1, FS_Subset, FS_CardinalityType
<1>3. counter'[b] + Cardinality(Pending(b)') <= MaxCount + Cardinality(Attempts) - 1
  BY <1>1, <1>2, LimitsAssumption DEF Bounded
<1> QED
  BY <1>3 DEF Bounded

LEMMA PendingCounts ==
  ASSUME NEW b, Bounded(b), NEW t \in Pending(b), Pending(b)' \subseteq Pending(b) \ {t},
         counter[b] \in Nat, counter'[b] \in Nat, counter'[b] <= counter[b] + 1
  PROVE  Bounded(b)'
<1>1. IsFiniteSet(Pending(b)) /\ Cardinality(Pending(b)) \in Nat /\ Cardinality(Attempts) \in Nat
  BY PendingFinite
<1>2. /\ IsFiniteSet(Pending(b) \ {t})
      /\ Cardinality(Pending(b) \ {t}) = Cardinality(Pending(b)) - 1
  BY <1>1, FS_RemoveElement
<1>3. Cardinality(Pending(b)') \in Nat
      /\ Cardinality(Pending(b)') <= Cardinality(Pending(b) \ {t})
  BY <1>2, FS_Subset, FS_CardinalityType
<1>4. counter'[b] + Cardinality(Pending(b)') <= MaxCount + Cardinality(Attempts) - 1
  BY <1>1, <1>2, <1>3, LimitsAssumption DEF Bounded
<1> QED
  BY <1>4 DEF Bounded

\* A counter below MaxCount has room for a failure of every attempt.
LEMMA LowIsBounded ==
  ASSUME NEW b, counter'[b] \in Nat, counter'[b] < MaxCount
  PROVE  Bounded(b)'
<1>1. Pending(b)' \subseteq Attempts
  BY DEF Pending
<1>2. /\ Cardinality(Pending(b)') \in Nat /\ Cardinality(Attempts) \in Nat
      /\ Cardinality(Pending(b)') <= Cardinality(Attempts)
  BY <1>1, AttemptsAssumption, FS_Subset, FS_CardinalityType
<1>3. counter'[b] + Cardinality(Pending(b)') <= MaxCount + Cardinality(Attempts) - 1
  BY <1>2, LimitsAssumption
<1> QED
  BY <1>3 DEF Bounded

LEMMA BoundedIsCount ==
  ASSUME NEW b, Bounded(b)', counter'[b] \in Nat
  PROVE  counter'[b] \in Counts
<1>1. Pending(b)' \subseteq Attempts
  BY DEF Pending
<1>2. Cardinality(Pending(b)') \in Nat /\ Cardinality(Attempts) \in Nat
  BY <1>1, AttemptsAssumption, FS_Subset, FS_CardinalityType
<1>3. counter'[b] + Cardinality(Pending(b)') <= MaxCount + Cardinality(Attempts) - 1
  BY DEF Bounded
<1>4. counter'[b] <= MaxCount + Cardinality(Attempts) - 1
  BY <1>2, <1>3, LimitsAssumption
<1> QED
  BY <1>4, CountsAre

\* A step of t that counts nothing and removes no lock: it touches no counter but
\* that of its call, and is told no more of the limits.
LEMMA AsideKeeps ==
  ASSUME IInv, NEW t \in Attempts, Alone(t),
         UNCHANGED <<counter, window, lock, failed, forgiven>>,
         unwindowed' \subseteq unwindowed, unwindowed \ window \subseteq unwindowed',
         login[t].at \in {"ttl", "expire"} =>
            \/ Key(t) \in window
            \/ login'[t].at \in {"ttl", "expire"} /\ Key(t)' = Key(t),
         \/ login'[t].keys = login[t].keys /\ login'[t].reached = login[t].reached
         \/ login'[t].reached = {},
         \A b \in Buckets : Told(t, b) => Told(t, b)' \/ b \in lock,
         \A b \in Buckets : Bounded(b)'
  PROVE  IInv'
<1>1. TypeOK'
  BY DEF IInv, TypeOK, Alone
<1>2. \A b \in Buckets : Earned(b)'
  BY DEF IInv, Earned
<1>3. \A u \in Attempts : ToldTrue(u)'
  BY DEF IInv, ToldTrue, Alone
<1>4. WindowlessExplained'
  BY DEF IInv, WindowlessExplained, Key, Alone
<1>5. LocksAreEarned'
  BY DEF IInv, LocksAreEarned
<1>6. FullCounterLocks'
  <2> SUFFICES ASSUME NEW b \in Buckets, IsFull(b), b \notin lock \cup forgiven
               PROVE  \E u \in Attempts : Told(u, b)'
    BY DEF FullCounterLocks, IsFull
  <2>1. PICK u \in Attempts : Told(u, b)
    BY DEF IInv, FullCounterLocks
  <2>2. u # t => Told(u, b)'
    BY <2>1 DEF Told, Alone
  <2> QED
    BY <2>1, <2>2
<1> QED
  BY <1>1, <1>2, <1>3, <1>4, <1>5, <1>6 DEF IInv

LEMMA BeginKeeps ==
  ASSUME IInv, NEW t \in Attempts, Begin(t)
  PROVE  IInv'
<1>1. PICK keys \in Identifiers \X Addresses :
        /\ login[t].at = "idle"
        /\ login' = [login EXCEPT ![t] = [Idle EXCEPT !.at = "ask", !.keys = keys]]
  BY DEF Begin, IsAt
<1>2. UNCHANGED <<counter, window, lock, failed, unwindowed, forgiven>>
  BY DEF Begin
<1> DEFINE r == [Idle EXCEPT !.at = "ask", !.keys = keys]
<1>3. r \in Login /\ r.at = "ask" /\ r.reached = {}
  BY IdleIs DEF Login
<1>4. login' = [login EXCEPT ![t] = r]
  BY <1>1
<1> HIDE DEF r
<1>5. Alone(t) /\ login'[t].at = "ask" /\ login'[t].reached = {}
  BY <1>3, <1>4 DEF IInv, TypeOK, Alone
<1>6. ASSUME NEW b \in Buckets PROVE Bounded(b)'
  <2>1. Pending(b)' \subseteq Pending(b)
    BY <1>5 DEF Pending, Alone, Key
  <2> QED
    BY <1>2, <2>1, FewerPending, CountsAre DEF IInv, TypeOK
<1>7. \A b \in Buckets : ~Told(t, b)
  BY <1>1 DEF Told
<1> QED
  BY <1>1, <1>2, <1>5, <1>6, <1>7, AsideKeeps

LEMMA AskKeeps ==
  ASSUME IInv, NEW t \in Attempts, Ask(t)
  PROVE  IInv'
<1>1. PICK o \in Outcomes, verdict \in Verdicts(t) :
        LET found == login[t].locked \/ (o.answered /\ Key(t) \in lock) IN
        /\ login[t].at = "ask"
        /\ Goes(t, [login[t] EXCEPT !.locked = found], IF found THEN "idle" ELSE verdict)
  BY DEF Ask, IsAt
<1> DEFINE found == login[t].locked \/ (o.answered /\ Key(t) \in lock)
           now == [login[t] EXCEPT !.locked = found]
           next == IF found THEN "idle" ELSE verdict
<1>2. UNCHANGED <<counter, window, lock, failed, unwindowed, forgiven>>
  BY DEF Ask
<1>3. login[t] \in Login
  BY DEF IInv, TypeOK
<1>4. /\ now \in Login /\ now.at = "ask"
      /\ now.turn = login[t].turn /\ now.keys = login[t].keys
      /\ now.reached = login[t].reached /\ now.turn \in {1, 2}
  <2>1. found \in BOOLEAN
    BY <1>3, OutcomeIs DEF Login
  <2> HIDE DEF found
  <2> QED
    BY <1>1, <1>3, <2>1 DEF Login, Turns
<1>5. next \in {"idle", "clearCounter", "incr"} /\ (next = "incr" => verdict = "incr")
  BY DEF Verdicts
<1>6. Goes(t, now, next)
  BY <1>1
<1> HIDE DEF now, next, found
<1>7. /\ Alone(t)
      /\ now.turn = 1 => /\ login'[t].at = "ask" /\ login'[t].turn = 2
                         /\ login'[t].keys = now.keys /\ login'[t].reached = now.reached
      /\ now.turn = 2 /\ next = "idle" => login'[t] = Idle
      /\ now.turn = 2 /\ next # "idle" =>
            /\ login'[t].at = next /\ login'[t].turn = 1
            /\ login'[t].keys = now.keys /\ login'[t].reached = now.reached
  BY <1>4, <1>5, <1>6, GoesIs DEF IInv, Alone
<1>8. ASSUME NEW b \in Buckets PROVE Bounded(b)'
  <2>0. counter[b] \in Nat /\ counter'[b] = counter[b]
    BY <1>2, CountsAre DEF IInv, TypeOK
  <2>1. CASE login'[t].at = "incr" /\ b \in {now.keys[1], now.keys[2]}
    <3>1. verdict = "incr"
      BY <1>4, <1>5, <1>7, <2>1, IdleIs
    <3>2. counter[b] < MaxCount
      BY <1>4, <2>1, <3>1 DEF Verdicts, Turns
    <3> QED
      BY <2>0, <3>2, LowIsBounded
  <2>2. CASE ~(login'[t].at = "incr" /\ b \in {now.keys[1], now.keys[2]})
    <3>1. t \notin Pending(b)'
      BY <1>4, <1>5, <1>7, <2>2, IdleIs DEF Pending, Key
    <3>2. Pending(b)' \subseteq Pending(b)
      BY <1>7, <3>1 DEF Pending, Alone, Key
    <3> QED
      BY <2>0, <3>2, FewerPending DEF IInv
  <2> QED
    BY <2>1, <2>2
<1>9. \A b \in Buckets : ~Told(t, b)
  BY <1>1 DEF Told
<1>10. \/ login'[t].keys = login[t].keys /\ login'[t].reached = login[t].reached
       \/ login'[t].reached = {}
  BY <1>4, <1>7, IdleIs
<1> QED
  BY <1>1, <1>2, <1>7, <1>8, <1>9, <1>10, AsideKeeps

LEMMA ReadTtlKeeps ==
  ASSUME IInv, NEW t \in Attempts, ReadTtl(t)
  PROVE  IInv'
<1>1. PICK o \in Outcomes :
        LET found == o.answered /\ Key(t) \in window IN
        /\ login[t].at = "ttl"
        /\ IF NeedsWindow(login[t].first, found)
           THEN login' = [login EXCEPT ![t].at = "expire"] /\ UNCHANGED unwindowed
           ELSE Counted(t, login[t])
  BY DEF ReadTtl, IsAt
<1>2. UNCHANGED <<counter, window, lock, failed, forgiven>>
  BY DEF ReadTtl
<1>3. login[t] \in Login /\ login[t].turn \in {1, 2}
  BY DEF IInv, TypeOK, Login, Turns
<1>4. CASE login' = [login EXCEPT ![t].at = "expire"] /\ UNCHANGED unwindowed
  <2> DEFINE r == [login[t] EXCEPT !.at = "expire"]
  <2>1. /\ r \in Login /\ r.at = "expire" /\ r.turn = login[t].turn
        /\ r.keys = login[t].keys /\ r.reached = login[t].reached
    BY <1>3 DEF Login
  <2>2. login' = [login EXCEPT ![t] = r]
    BY <1>4
  <2> HIDE DEF r
  <2>3. /\ Alone(t) /\ login'[t].at = "expire" /\ login'[t].turn = login[t].turn
        /\ login'[t].keys = login[t].keys /\ login'[t].reached = login[t].reached
    BY <2>1, <2>2 DEF IInv, TypeOK, Alone
  <2>4. ASSUME NEW b \in Buckets PROVE Bounded(b)'
    <3>1. Pending(b)' \subseteq Pending(b)
      BY <1>1, <2>3 DEF Pending, Alone, Key
    <3> QED
      BY <1>2, <3>1, FewerPending, CountsAre DEF IInv, TypeOK
  <2>5. \A b \in Buckets : Told(t, b) => Told(t, b)'
    BY <2>3 DEF Told
  <2>6. Key(t)' = Key(t)
    BY <2>3 DEF Key
  <2> QED
    BY <1>2, <1>4, <2>3, <2>4, <2>5, <2>6, AsideKeeps
<1>5. CASE Key(t) \in window /\ Counted(t, login[t])
  <2>1. /\ Alone(t)
        /\ login'[t].keys = login[t].keys /\ login'[t].reached = login[t].reached
        /\ login[t].turn = 1 => login'[t].at = "incr" /\ login'[t].turn = 2
        /\ login[t].turn = 2 => login'[t].at = "lock" /\ login'[t].turn = 1
    BY <1>3, <1>5, CountedIs DEF IInv, Alone
  <2>2. unwindowed' = unwindowed \ {Key(t)}
    BY <1>2, <1>5 DEF Counted
  <2>3. ASSUME NEW b \in Buckets PROVE Bounded(b)'
    <3>1. Pending(b)' \subseteq Pending(b)
      BY <1>1, <1>3, <2>1 DEF Pending, Alone, Key
    <3> QED
      BY <1>2, <3>1, FewerPending, CountsAre DEF IInv, TypeOK
  <2>4. \A b \in Buckets : Told(t, b) => Told(t, b)'
    BY <1>1, <1>3, <2>1 DEF Told, Turns
  <2> QED
    BY <1>2, <1>5, <2>1, <2>2, <2>3, <2>4, AsideKeeps
<1>6. NeedsWindow(login[t].first, o.answered /\ Key(t) \in window) \/ Key(t) \in window
  BY DEF NeedsWindow
<1> QED
  BY <1>1, <1>4, <1>5, <1>6

\* INCR, and the failure it counts.  A count that is not answered is over.
LEMMA IncrKeeps ==
  ASSUME IInv, NEW t \in Attempts, Incr(t)
  PROVE  IInv'
<1> DEFINE b == Key(t)
           n == counter[b] + 1
<1>1. PICK o \in Outcomes :
        /\ login[t].at = "incr"
        /\ IF o.done
           THEN /\ counter' = [counter EXCEPT ![b] = n]
                /\ failed' = [failed EXCEPT ![b] = IF @ < LimitOf(b) THEN @ + 1 ELSE @]
           ELSE UNCHANGED <<counter, failed>>
        /\ Forgives(b, o.done /\ ~o.answered /\ n >= LimitOf(b))
        /\ IF o.answered
           THEN /\ login' = [login EXCEPT ![t].at = "ttl", ![t].first = (n = 1),
                                   ![t].reached = @ \cup Reached(t, n)]
                /\ UNCHANGED unwindowed
           ELSE Counted(t, [login[t] EXCEPT !.lost = TRUE])
  BY DEF Incr, IsAt, Incremented
<1>2. UNCHANGED <<window, lock>>
  BY DEF Incr
<1>3. /\ login[t] \in Login /\ login[t].turn \in {1, 2} /\ b \in Buckets
      /\ login[t].keys[1] # login[t].keys[2] /\ b = login[t].keys[login[t].turn]
  BY KeysAre DEF IInv, TypeOK, Key
<1>4. counter \in [Buckets -> Nat] /\ failed \in [Buckets -> Nat]
  BY CountsAre DEF IInv, TypeOK
<1>5. /\ o.answered => o.done
      /\ o.done => counter'[b] = counter[b] + 1
      /\ ~o.done => counter' = counter /\ failed' = failed
      /\ \A d \in Buckets : d # b => counter'[d] = counter[d] /\ failed'[d] = failed[d]
      /\ counter' \in [Buckets -> Nat] /\ failed' \in [Buckets -> Nat]
  BY <1>1, <1>3, <1>4, OutcomeIs DEF IInv, TypeOK
<1>6. /\ \A d \in Buckets : failed'[d] >= failed[d] /\ failed'[d] <= LimitOf(d)
      /\ o.done /\ failed[b] < LimitOf(b) => failed'[b] = failed[b] + 1
  BY <1>1, <1>3, <1>4, <1>5, LimitsPositive DEF IInv, TypeOK
<1>7. /\ Alone(t) /\ login'[t].keys = login[t].keys
      /\ o.answered =>
            /\ login'[t].at = "ttl" /\ login'[t].turn = login[t].turn
            /\ login'[t].reached = login[t].reached \cup Reached(t, n)
            /\ unwindowed' = unwindowed
      /\ ~o.answered =>
            /\ login'[t].reached = login[t].reached
            /\ login[t].turn = 1 => login'[t].at = "incr" /\ login'[t].turn = 2
            /\ login[t].turn = 2 => login'[t].at = "lock" /\ login'[t].turn = 1
            /\ unwindowed' = IF counter'[b] > 0 /\ b \notin window'
                             THEN unwindowed \cup {b} ELSE unwindowed \ {b}
  <2>1. CASE o.answered
    <3> DEFINE r == [login[t] EXCEPT !.at = "ttl", !.first = (n = 1),
                                     !.reached = @ \cup Reached(t, n)]
    <3>1. Reached(t, n) \subseteq {1, 2}
      BY <1>3 DEF Reached
    <3>2. /\ r \in Login /\ r.at = "ttl" /\ r.turn = login[t].turn
          /\ r.keys = login[t].keys /\ r.reached = login[t].reached \cup Reached(t, n)
      BY <1>3, <3>1 DEF Login, Turns
    <3>3. login' = [login EXCEPT ![t] = r]
      BY <1>1, <2>1
    <3> HIDE DEF r
    <3>4. /\ Alone(t) /\ login'[t].keys = login[t].keys
          /\ login'[t].at = "ttl" /\ login'[t].turn = login[t].turn
          /\ login'[t].reached = login[t].reached \cup Reached(t, n)
      BY <3>2, <3>3 DEF IInv, TypeOK, Alone
    <3> QED
      BY <1>1, <2>1, <3>4
  <2>2. CASE ~o.answered
    <3> DEFINE now == [login[t] EXCEPT !.lost = TRUE]
    <3>1. /\ now \in Login /\ now.turn = login[t].turn /\ now.keys = login[t].keys
          /\ now.reached = login[t].reached /\ now.lost
      BY <1>3 DEF Login
    <3>2. Counted(t, now)
      BY <1>1, <2>2
    <3> HIDE DEF now
    <3>3. unwindowed' = IF counter'[b] > 0 /\ b \notin window'
                        THEN unwindowed \cup {b} ELSE unwindowed \ {b}
      BY <3>1, <3>2 DEF Counted
    <3>4. /\ Alone(t) /\ login'[t].keys = login[t].keys
          /\ login'[t].reached = login[t].reached
          /\ login[t].turn = 1 => login'[t].at = "incr" /\ login'[t].turn = 2
          /\ login[t].turn = 2 => login'[t].at = "lock" /\ login'[t].turn = 1
      BY <3>1, <3>2, CountedIs DEF IInv, Alone
    <3> QED
      BY <2>2, <3>3, <3>4
  <2> QED
    BY <2>1, <2>2
<1>8. Reached(t, n) = {k \in {login[t].turn} : n >= LimitOf(b)}
  BY DEF Reached
<1> HIDE DEF b, n
<1>9. ASSUME NEW d \in Buckets PROVE Bounded(d)'
  <2>1. CASE d = b
    <3>1. t \in Pending(d)
      BY <1>1, <2>1 DEF Pending, b
    <3>2. Pending(d)' \subseteq Pending(d) \ {t}
      BY <1>1, <1>3, <1>7, <2>1 DEF Pending, Alone, Key
    <3>3. counter'[d] <= counter[d] + 1 /\ counter[d] \in Nat /\ counter'[d] \in Nat
      BY <1>4, <1>5, <2>1
    <3> QED
      BY <3>1, <3>2, <3>3, PendingCounts DEF IInv
  <2>2. CASE d # b
    <3>1. Pending(d)' \subseteq Pending(d)
      BY <1>1, <1>3, <1>7, <2>2 DEF Pending, Alone, Key
    <3> QED
      BY <1>4, <1>5, <2>2, <3>1, FewerPending DEF IInv
  <2> QED
    BY <2>1, <2>2
<1>10. TypeOK'
  <2>1. counter' \in [Buckets -> Counts]
    BY <1>5, <1>9, BoundedIsCount
  <2>2. window' \subseteq {d \in Buckets : counter'[d] > 0}
    BY <1>2, <1>4, <1>5 DEF IInv, TypeOK
  <2>3. unwindowed' \subseteq Buckets /\ forgiven' \subseteq Buckets
    BY <1>1, <1>3, <1>7 DEF IInv, TypeOK, Forgives
  <2> QED
    BY <1>2, <1>5, <1>6, <1>7, <2>1, <2>2, <2>3 DEF IInv, TypeOK, Alone
<1>11. ASSUME NEW d \in Buckets PROVE Earned(d)'
  <2>1. Earned(d) /\ LimitOf(d) \in Nat
    BY LimitsPositive DEF IInv
  <2> QED
    BY <1>4, <1>5, <1>6, <2>1 DEF Earned
<1>12. ASSUME NEW u \in Attempts PROVE ToldTrue(u)'
  <2>1. \A k \in login[u].reached :
          /\ login[u].keys[k] \in Buckets
          /\ failed[login[u].keys[k]] >= LimitOf(login[u].keys[k])
    BY KeysAre DEF IInv, TypeOK, ToldTrue, Login, Turns
  <2>2. \A k \in login[u].reached : failed'[login[u].keys[k]] >= LimitOf(login[u].keys[k])
    BY <1>4, <1>5, <1>6, <2>1, LimitsPositive
  <2>3. CASE u # t
    BY <1>7, <2>2, <2>3 DEF ToldTrue, Alone
  <2>4. CASE u = t
    <3>1. o.answered /\ n >= LimitOf(b) => failed'[b] >= LimitOf(b)
      <4>1. Earned(b) /\ LimitOf(b) \in Nat /\ failed[b] \in Nat /\ counter[b] \in Nat
            /\ failed'[b] \in Nat /\ failed'[b] >= failed[b]
        BY <1>3, <1>4, <1>5, <1>6, LimitsPositive DEF IInv
      <4> QED
        BY <1>5, <1>6, <4>1 DEF Earned, n
    <3>2. \A k \in Reached(t, n) : o.answered => failed'[login[t].keys[k]] >= LimitOf(b)
      BY <1>3, <1>8, <3>1
    <3>3. \A k \in Reached(t, n) : login[t].keys[k] = b
      BY <1>3, <1>8
    <3> QED
      BY <1>7, <2>2, <2>4, <3>2, <3>3 DEF ToldTrue
  <2> QED
    BY <2>3, <2>4
<1>13. WindowlessExplained'
  <2> SUFFICES ASSUME NEW d \in Buckets, counter'[d] > 0, d \notin window'
               PROVE  \/ d \in unwindowed'
                      \/ \E u \in Attempts : login'[u].at \in {"ttl", "expire"} /\ Key(u)' = d
    BY DEF WindowlessExplained
  <2>1. CASE d = b
    BY <1>3, <1>7, <2>1 DEF Key
  <2>2. CASE d # b
    <3>1. \/ d \in unwindowed
          \/ \E u \in Attempts : login[u].at \in {"ttl", "expire"} /\ Key(u) = d
      BY <1>2, <1>5, <2>2 DEF IInv, WindowlessExplained
    <3> QED
      BY <1>1, <1>7, <2>2, <3>1 DEF Alone, Key
  <2> QED
    BY <2>1, <2>2
<1>14. LocksAreEarned'
  <2> SUFFICES ASSUME NEW d \in lock PROVE failed'[d] >= LimitOf(d)
    BY <1>2 DEF LocksAreEarned
  <2>1. d \in Buckets /\ failed[d] >= LimitOf(d)
    BY DEF IInv, LocksAreEarned, TypeOK
  <2> QED
    BY <1>4, <1>5, <1>6, <2>1, LimitsPositive
<1>15. FullCounterLocks'
  <2> SUFFICES ASSUME NEW d \in Buckets, counter'[d] >= LimitOf(d), d \notin lock \cup forgiven'
               PROVE  \E u \in Attempts : Told(u, d)'
    BY <1>2 DEF FullCounterLocks, IsFull
  <2>1. forgiven \subseteq forgiven'
    BY <1>1 DEF Forgives
  <2>2. \A u \in Attempts : Told(u, d) => Told(u, d)'
    <3> SUFFICES ASSUME NEW u \in Attempts, Told(u, d) PROVE Told(u, d)'
      OBVIOUS
    <3>1. CASE u = t
      BY <1>3, <1>7, <3>1 DEF Told, Turns
    <3>2. CASE u # t
      BY <1>7, <3>2 DEF Told, Alone
    <3> QED
      BY <3>1, <3>2
  <2>3. CASE counter[d] >= LimitOf(d)
    BY <2>1, <2>2, <2>3 DEF IInv, FullCounterLocks, IsFull
  <2>4. CASE ~(counter[d] >= LimitOf(d))
    <3>1. d = b /\ o.done /\ n >= LimitOf(b)
      BY <1>5, <2>4 DEF n
    <3>2. o.answered
      BY <1>1, <3>1 DEF Forgives
    <3>3. login[t].turn \in Reached(t, n)
      BY <1>8, <3>1
    <3>4. Told(t, d)'
      BY <1>3, <1>7, <3>1, <3>2, <3>3 DEF Told, Turns
    <3> QED
      BY <3>4
  <2> QED
    BY <2>3, <2>4
<1> QED
  BY <1>9, <1>10, <1>11, <1>12, <1>13, <1>14, <1>15 DEF IInv

\* EXPIRE, after which the count is over: with an expiry, or as one that lost a call.
LEMMA ExpireKeeps ==
  ASSUME IInv, NEW t \in Attempts, Expire(t)
  PROVE  IInv'
<1> DEFINE b == Key(t)
<1>1. PICK o \in Outcomes :
        /\ login[t].at = "expire"
        /\ window' = IF o.done /\ counter[b] > 0 THEN window \cup {b} ELSE window
        /\ Counted(t, [login[t] EXCEPT !.lost = ~o.answered])
  BY DEF Expire, IsAt
<1>2. UNCHANGED <<counter, lock, failed, forgiven>>
  BY DEF Expire
<1>3. /\ login[t] \in Login /\ login[t].turn \in {1, 2} /\ b \in Buckets
  BY KeysAre DEF IInv, TypeOK, Key
<1>4. /\ Alone(t) /\ login'[t].keys = login[t].keys
      /\ login'[t].reached = login[t].reached
      /\ login[t].turn = 1 => login'[t].at = "incr" /\ login'[t].turn = 2
      /\ login[t].turn = 2 => login'[t].at = "lock" /\ login'[t].turn = 1
      /\ unwindowed' = IF ~o.answered /\ counter'[b] > 0 /\ b \notin window'
                       THEN unwindowed \cup {b} ELSE unwindowed \ {b}
  <2> DEFINE now == [login[t] EXCEPT !.lost = ~o.answered]
  <2>1. /\ now \in Login /\ now.turn = login[t].turn /\ now.keys = login[t].keys
        /\ now.reached = login[t].reached /\ now.lost = ~o.answered
    BY <1>3, OutcomeIs DEF Login
  <2>2. Counted(t, now)
    BY <1>1
  <2> HIDE DEF now
  <2>3. unwindowed' = IF ~o.answered /\ counter'[b] > 0 /\ b \notin window'
                      THEN unwindowed \cup {b} ELSE unwindowed \ {b}
    BY <2>1, <2>2 DEF Counted
  <2>4. /\ Alone(t) /\ login'[t].keys = login[t].keys
        /\ login'[t].reached = login[t].reached
        /\ login[t].turn = 1 => login'[t].at = "incr" /\ login'[t].turn = 2
        /\ login[t].turn = 2 => login'[t].at = "lock" /\ login'[t].turn = 1
    BY <2>1, <2>2, CountedIs DEF IInv, Alone
  <2> QED
    BY <2>3, <2>4
<1>5. o.answered => o.done
  BY OutcomeIs
<1> HIDE DEF b
<1>6. ASSUME NEW d \in Buckets PROVE Bounded(d)'
  <2>1. Pending(d)' \subseteq Pending(d)
    BY <1>1, <1>3, <1>4 DEF Pending, Alone, Key
  <2> QED
    BY <1>2, <2>1, FewerPending, CountsAre DEF IInv, TypeOK
<1>7. TypeOK'
  BY <1>1, <1>2, <1>3, <1>4 DEF IInv, TypeOK, Alone
<1>8. \A d \in Buckets : Earned(d)'
  BY <1>2 DEF IInv, Earned
<1>9. \A u \in Attempts : ToldTrue(u)'
  BY <1>2, <1>4 DEF IInv, ToldTrue, Alone
<1>10. WindowlessExplained'
  <2> SUFFICES ASSUME NEW d \in Buckets, counter[d] > 0, d \notin window'
               PROVE  \/ d \in unwindowed'
                      \/ \E u \in Attempts : login'[u].at \in {"ttl", "expire"} /\ Key(u)' = d
    BY <1>2 DEF WindowlessExplained
  <2>1. CASE d = b
    BY <1>1, <1>2, <1>4, <1>5, <2>1
  <2>2. CASE d # b
    <3>1. \/ d \in unwindowed
          \/ \E u \in Attempts : login[u].at \in {"ttl", "expire"} /\ Key(u) = d
      BY <1>1, <2>2 DEF IInv, WindowlessExplained
    <3> QED
      BY <1>4, <2>2, <3>1 DEF Alone, Key, b
  <2> QED
    BY <2>1, <2>2
<1>11. LocksAreEarned'
  BY <1>2 DEF IInv, LocksAreEarned
<1>12. FullCounterLocks'
  <2>1. \A u \in Attempts, d \in Buckets : Told(u, d) => Told(u, d)'
    <3> SUFFICES ASSUME NEW u \in Attempts, NEW d \in Buckets, Told(u, d) PROVE Told(u, d)'
      OBVIOUS
    <3>1. CASE u = t
      BY <1>3, <1>4, <3>1 DEF Told, Turns
    <3>2. CASE u # t
      BY <1>4, <3>2 DEF Told, Alone
    <3> QED
      BY <3>1, <3>2
  <2> QED
    BY <1>2, <2>1 DEF IInv, FullCounterLocks, IsFull
<1> QED
  BY <1>6, <1>7, <1>8, <1>9, <1>10, <1>11, <1>12 DEF IInv

-----------------------------------------------------------------------------
(* Steps that change the locks, and those that remove a counter. *)

\* A lock is set by an attempt that was told so, or one ends; every counter that is
\* full afterwards is locked or forgiven, or has another attempt that was told.
LEMMA LockingKeeps ==
  ASSUME IInv, login' \in [Attempts -> Login],
         UNCHANGED <<counter, window, failed, unwindowed>>,
         \A u \in Attempts :
            \/ login'[u] = login[u]
            \/ /\ login[u].at \in {"lock", "clearLock"}
               /\ login'[u].at \notin {"incr", "ttl", "expire"}
               /\ \/ login'[u].keys = login[u].keys /\ login'[u].reached = login[u].reached
                  \/ login'[u].reached = {},
         lock' \subseteq Buckets, \A b \in lock' : b \in lock \/ failed[b] >= LimitOf(b),
         forgiven' \subseteq Buckets,
         \A b \in Buckets : b \in lock \cup forgiven => b \in lock' \cup forgiven' \/ ~IsFull(b),
         \A u \in Attempts, b \in Buckets :
            Told(u, b) => Told(u, b)' \/ b \in lock' \cup forgiven' \/ ~IsFull(b)
  PROVE  IInv'
<1>1. TypeOK'
  BY DEF IInv, TypeOK
<1>2. ASSUME NEW b \in Buckets PROVE Bounded(b)'
  <2>1. Pending(b)' \subseteq Pending(b)
    BY DEF Pending, Key
  <2> QED
    BY <2>1, FewerPending, CountsAre DEF IInv, TypeOK
<1>3. \A b \in Buckets : Earned(b)'
  BY DEF IInv, Earned
<1>4. \A u \in Attempts : ToldTrue(u)'
  BY DEF IInv, ToldTrue
<1>5. WindowlessExplained'
  BY DEF IInv, WindowlessExplained, Key
<1>6. LocksAreEarned'
  BY DEF IInv, LocksAreEarned
<1>7. FullCounterLocks'
  <2> SUFFICES ASSUME NEW b \in Buckets, IsFull(b), b \notin lock' \cup forgiven'
               PROVE  \E u \in Attempts : Told(u, b)'
    BY DEF FullCounterLocks, IsFull
  <2> QED
    BY DEF IInv, FullCounterLocks
<1> QED
  BY <1>1, <1>2, <1>3, <1>4, <1>5, <1>6, <1>7 DEF IInv

LEMMA SetLockKeeps ==
  ASSUME IInv, NEW t \in Attempts, SetLock(t)
  PROVE  IInv'
<1> DEFINE b == Key(t)
<1>1. PICK o \in Outcomes :
        /\ login[t].at = "lock"
        /\ IF login[t].turn \in login[t].reached
           THEN /\ lock' = IF o.done THEN lock \cup {b} ELSE lock
                /\ IF o.done THEN forgiven' = forgiven \ {b} ELSE Forgives(b, IsFull(b))
           ELSE UNCHANGED <<lock, forgiven>>
        /\ Goes(t, login[t], "idle")
  BY DEF SetLock, IsAt
<1>2. UNCHANGED <<counter, window, failed, unwindowed>>
  BY DEF SetLock
<1>3. /\ login[t] \in Login /\ login[t].turn \in {1, 2} /\ b \in Buckets
      /\ b = login[t].keys[login[t].turn] /\ login[t].reached \subseteq {1, 2}
  BY KeysAre DEF IInv, TypeOK, Key, Login, Turns
<1>4. /\ Alone(t)
      /\ login[t].turn = 1 => /\ login'[t].at = "lock" /\ login'[t].turn = 2
                              /\ login'[t].keys = login[t].keys
                              /\ login'[t].reached = login[t].reached
      /\ login[t].turn = 2 => login'[t] = Idle
  BY <1>1, <1>3, GoesIs DEF IInv, Alone
<1>5. login[t].turn \in login[t].reached => failed[b] >= LimitOf(b)
  BY <1>3 DEF IInv, ToldTrue
<1>6. lock' \subseteq Buckets /\ \A d \in lock' : d \in lock \/ failed[d] >= LimitOf(d)
  BY <1>1, <1>3, <1>5 DEF IInv, TypeOK
<1>7. forgiven' \subseteq Buckets
  BY <1>1, <1>3 DEF IInv, TypeOK, Forgives
<1>8. \A d \in Buckets : d \in lock \cup forgiven => d \in lock' \cup forgiven'
  BY <1>1 DEF Forgives
<1>9. ASSUME NEW u \in Attempts, NEW d \in Buckets, Told(u, d)
      PROVE  Told(u, d)' \/ d \in lock' \cup forgiven' \/ ~IsFull(d)
  <2>1. CASE u # t
    BY <1>4, <1>9, <2>1 DEF Told, Alone
  <2>2. CASE u = t
    <3>1. PICK n \in {1, 2} : /\ login[t].keys[n] = d /\ n \in login[t].reached
                              /\ login[t].turn <= n
      BY <1>1, <1>9, <2>2 DEF Told, Turns
    <3>2. CASE n = login[t].turn
      BY <1>1, <1>3, <3>1, <3>2 DEF Forgives
    <3>3. CASE n # login[t].turn
      <4>1. login[t].turn = 1 /\ n = 2
        BY <1>3, <3>1, <3>3
      <4> QED
        BY <1>4, <2>2, <3>1, <4>1 DEF Told, Turns
    <3> QED
      BY <3>2, <3>3
  <2> QED
    BY <2>1, <2>2
<1> HIDE DEF b
<1>10. ASSUME NEW u \in Attempts
       PROVE  \/ login'[u] = login[u]
              \/ /\ login[u].at \in {"lock", "clearLock"}
                 /\ login'[u].at \notin {"incr", "ttl", "expire"}
                 /\ \/ login'[u].keys = login[u].keys /\ login'[u].reached = login[u].reached
                    \/ login'[u].reached = {}
  BY <1>1, <1>3, <1>4, IdleIs DEF Alone
<1>11. login' \in [Attempts -> Login]
  BY <1>4 DEF Alone
<1> QED
  BY <1>2, <1>6, <1>7, <1>8, <1>9, <1>10, <1>11, LockingKeeps

LEMMA ClearLockKeeps ==
  ASSUME IInv, NEW t \in Attempts, ClearLock(t)
  PROVE  IInv'
<1> DEFINE b == Key(t)
<1>1. PICK o \in Outcomes :
        /\ login[t].at = "clearLock"
        /\ lock' = IF o.done THEN lock \ {b} ELSE lock
        /\ Forgives(b, o.done /\ IsFull(b))
        /\ Goes(t, login[t], "idle")
  BY DEF ClearLock, IsAt
<1>2. UNCHANGED <<counter, window, failed, unwindowed>>
  BY DEF ClearLock
<1>3. /\ login[t] \in Login /\ login[t].turn \in {1, 2} /\ b \in Buckets
  BY KeysAre DEF IInv, TypeOK, Key
<1>4. /\ Alone(t)
      /\ login[t].turn = 1 => /\ login'[t].at = "clearLock"
                              /\ login'[t].keys = login[t].keys
                              /\ login'[t].reached = login[t].reached
      /\ login[t].turn = 2 => login'[t] = Idle
  BY <1>1, <1>3, GoesIs DEF IInv, Alone
<1>5. lock' \subseteq Buckets /\ lock' \subseteq lock /\ forgiven' \subseteq Buckets
  BY <1>1, <1>3 DEF IInv, TypeOK, Forgives
<1>6. \A d \in Buckets : d \in lock \cup forgiven => d \in lock' \cup forgiven' \/ ~IsFull(d)
  BY <1>1 DEF Forgives
<1>7. \A u \in Attempts, d \in Buckets : Told(u, d) => Told(u, d)'
  BY <1>1, <1>4 DEF Told, Alone
<1> HIDE DEF b
<1>8. ASSUME NEW u \in Attempts
      PROVE  \/ login'[u] = login[u]
             \/ /\ login[u].at \in {"lock", "clearLock"}
                /\ login'[u].at \notin {"incr", "ttl", "expire"}
                /\ \/ login'[u].keys = login[u].keys /\ login'[u].reached = login[u].reached
                   \/ login'[u].reached = {}
  BY <1>1, <1>3, <1>4, IdleIs DEF Alone
<1>9. login' \in [Attempts -> Login]
  BY <1>4 DEF Alone
<1> QED
  BY <1>2, <1>5, <1>6, <1>7, <1>8, <1>9, LockingKeeps

LEMMA LockExpiresKeeps ==
  ASSUME IInv, NEW b \in Buckets, LockExpires(b)
  PROVE  IInv'
<1>1. /\ lock' = lock \ {b}
      /\ Forgives(b, IsFull(b))
      /\ UNCHANGED <<counter, window, login, failed, unwindowed>>
  BY DEF LockExpires
<1>2. lock' \subseteq Buckets /\ lock' \subseteq lock /\ forgiven' \subseteq Buckets
  BY <1>1 DEF IInv, TypeOK, Forgives
<1>3. \A d \in Buckets : d \in lock \cup forgiven => d \in lock' \cup forgiven' \/ ~IsFull(d)
  BY <1>1 DEF Forgives
<1>4. \A u \in Attempts, d \in Buckets : Told(u, d) => Told(u, d)'
  BY <1>1 DEF Told
<1>5. login' = login /\ login' \in [Attempts -> Login]
  BY <1>1 DEF IInv, TypeOK
<1> QED
  BY <1>1, <1>2, <1>3, <1>4, <1>5, LockingKeeps

\* A counter is removed, or stays, while at most an attempt that counts nothing moves.
LEMMA RemovingKeeps ==
  ASSUME IInv, NEW b \in Buckets, login' \in [Attempts -> Login],
         Removed(b) \/ UNCHANGED <<counter, window, unwindowed, forgiven>>,
         UNCHANGED <<lock, failed>>,
         \A u \in Attempts :
            \/ login'[u] = login[u]
            \/ /\ login[u].at = "clearCounter"
               /\ login'[u].at \in {"clearCounter", "clearLock"}
               /\ login'[u].keys = login[u].keys /\ login'[u].reached = login[u].reached
  PROVE  IInv'
<1>1. counter \in [Buckets -> Nat] /\ failed \in [Buckets -> Nat]
  BY CountsAre DEF IInv, TypeOK
<1>2. /\ counter' \in [Buckets -> Nat] /\ unwindowed' \subseteq Buckets
      /\ forgiven' \subseteq Buckets
      /\ \A d \in Buckets :
            \/ counter'[d] = 0
            \/ /\ counter'[d] = counter[d] /\ (d \in window' <=> d \in window)
               /\ (d \in unwindowed' <=> d \in unwindowed)
               /\ (d \in forgiven' <=> d \in forgiven)
      /\ window' \subseteq {d \in Buckets : counter'[d] > 0}
  BY <1>1 DEF Removed, IInv, TypeOK
<1>3. ASSUME NEW d \in Buckets PROVE Bounded(d)'
  <2>1. Pending(d)' \subseteq Pending(d)
    BY DEF Pending, Key
  <2>2. counter[d] \in Nat /\ counter'[d] \in Nat /\ counter'[d] <= counter[d]
    BY <1>1, <1>2
  <2> QED
    BY <2>1, <2>2, FewerPending DEF IInv
<1>4. TypeOK'
  <2>1. counter' \in [Buckets -> Counts]
    BY <1>2, <1>3, BoundedIsCount
  <2> QED
    BY <1>2, <2>1 DEF IInv, TypeOK
<1>5. ASSUME NEW d \in Buckets PROVE Earned(d)'
  <2>1. Earned(d) /\ counter'[d] \in Nat /\ failed[d] \in Nat
    BY <1>1, <1>2 DEF IInv
  <2> QED
    BY <1>2, <2>1 DEF Earned
<1>6. \A u \in Attempts : ToldTrue(u)'
  BY DEF IInv, ToldTrue
<1>7. WindowlessExplained'
  <2> SUFFICES ASSUME NEW d \in Buckets, counter'[d] > 0, d \notin window'
               PROVE  \/ d \in unwindowed'
                      \/ \E u \in Attempts : login'[u].at \in {"ttl", "expire"} /\ Key(u)' = d
    BY DEF WindowlessExplained
  <2>1. /\ counter'[d] = counter[d] /\ d \notin window
        /\ (d \in unwindowed' <=> d \in unwindowed)
    BY <1>2
  <2> QED
    BY <2>1 DEF IInv, WindowlessExplained, Key
<1>8. LocksAreEarned'
  BY DEF IInv, LocksAreEarned
<1>9. FullCounterLocks'
  <2> SUFFICES ASSUME NEW d \in Buckets, counter'[d] >= LimitOf(d), d \notin lock \cup forgiven'
               PROVE  \E u \in Attempts : Told(u, d)'
    BY DEF FullCounterLocks, IsFull
  <2>1. counter'[d] # 0
    BY LimitsPositive
  <2>2. counter'[d] = counter[d] /\ d \notin forgiven
    BY <1>2, <2>1
  <2>3. PICK u \in Attempts : Told(u, d)
    BY <2>2 DEF IInv, FullCounterLocks, IsFull
  <2>4. Told(u, d)'
    BY <2>3 DEF Told
  <2> QED
    BY <2>4
<1> QED
  BY <1>3, <1>4, <1>5, <1>6, <1>7, <1>8, <1>9 DEF IInv

LEMMA ClearCounterKeeps ==
  ASSUME IInv, NEW t \in Attempts, ClearCounter(t)
  PROVE  IInv'
<1>1. PICK o \in Outcomes :
        /\ login[t].at = "clearCounter"
        /\ IF o.done THEN Removed(Key(t))
                     ELSE UNCHANGED <<counter, window, unwindowed, forgiven>>
        /\ Goes(t, login[t], "clearLock")
        /\ UNCHANGED <<lock, failed>>
  BY DEF ClearCounter, IsAt
<1>2. /\ login[t] \in Login /\ login[t].turn \in {1, 2} /\ Key(t) \in Buckets
  BY KeysAre DEF IInv, TypeOK, Key
<1>3. /\ Alone(t)
      /\ login'[t].at \in {"clearCounter", "clearLock"}
      /\ login'[t].keys = login[t].keys /\ login'[t].reached = login[t].reached
  BY <1>1, <1>2, GoesIs DEF IInv, Alone
<1>4. ASSUME NEW u \in Attempts
      PROVE  \/ login'[u] = login[u]
             \/ /\ login[u].at = "clearCounter"
                /\ login'[u].at \in {"clearCounter", "clearLock"}
                /\ login'[u].keys = login[u].keys /\ login'[u].reached = login[u].reached
  BY <1>1, <1>3 DEF Alone
<1>5. login' \in [Attempts -> Login]
  BY <1>3 DEF Alone
<1> QED
  BY <1>1, <1>2, <1>4, <1>5, RemovingKeeps

LEMMA CounterExpiresKeeps ==
  ASSUME IInv, NEW b \in Buckets, CounterExpires(b)
  PROVE  IInv'
<1>1. Removed(b) /\ UNCHANGED <<lock, login, failed>>
  BY DEF CounterExpires
<1>2. login' \in [Attempts -> Login]
  BY <1>1 DEF IInv, TypeOK
<1> QED
  BY <1>1, <1>2, RemovingKeeps

LEMMA StutterKeeps ==
  ASSUME IInv, UNCHANGED vars
  PROVE  IInv'
<1>1. TypeOK'
  BY DEF IInv, TypeOK, vars
<1>2. \A b \in Buckets : Bounded(b)' /\ Earned(b)'
  BY DEF IInv, Bounded, Pending, Key, Earned, vars
<1>3. \A t \in Attempts : ToldTrue(t)'
  BY DEF IInv, ToldTrue, vars
<1>4. WindowlessExplained' /\ LocksAreEarned' /\ FullCounterLocks'
  BY DEF IInv, WindowlessExplained, LocksAreEarned, FullCounterLocks, Key, IsFull, Told, vars
<1> QED
  BY <1>1, <1>2, <1>3, <1>4 DEF IInv

-----------------------------------------------------------------------------
LEMMA InitInv == Init => IInv
<1> SUFFICES ASSUME Init PROVE IInv
  OBVIOUS
<1>1. \A t \in Attempts : login[t] = Idle
  BY DEF Init
<1>2. ASSUME NEW b \in Buckets PROVE Bounded(b)
  <2>1. Pending(b) = {}
    BY <1>1, IdleIs DEF Pending
  <2>2. Cardinality(Pending(b)) = 0 /\ Cardinality(Attempts) \in Nat /\ counter[b] = 0
    BY <2>1, FS_EmptySet, AttemptsAssumption, FS_CardinalityType DEF Init
  <2> QED
    BY <2>2, LimitsAssumption DEF Bounded
<1>3. TypeOK
  <2>1. 0 \in Counts
    <3>1. Cardinality(Attempts) \in Nat
      BY AttemptsAssumption, FS_CardinalityType
    <3> QED
      BY <3>1, LimitsAssumption, CountsAre
  <2> QED
    BY <2>1, IdleIs, LimitsPositive DEF Init, TypeOK
<1>4. \A b \in Buckets : Earned(b)
  BY DEF Init, Earned
<1>5. \A t \in Attempts : ToldTrue(t)
  BY <1>1, IdleIs DEF ToldTrue
<1>6. WindowlessExplained /\ LocksAreEarned
  BY DEF Init, WindowlessExplained, LocksAreEarned
<1>7. FullCounterLocks
  BY LimitsPositive DEF Init, FullCounterLocks, IsFull
<1> QED
  BY <1>2, <1>3, <1>4, <1>5, <1>6, <1>7 DEF IInv

LEMMA NextInv == IInv /\ [Next]_vars => IInv'
<1> SUFFICES ASSUME IInv, [Next]_vars PROVE IInv'
  OBVIOUS
<1>1. ASSUME NEW t \in Attempts, Begin(t) PROVE IInv'
  BY <1>1, BeginKeeps
<1>2. ASSUME NEW t \in Attempts, Proceed(t) PROVE IInv'
  BY <1>2, AskKeeps, IncrKeeps, ReadTtlKeeps, ExpireKeeps, SetLockKeeps, ClearCounterKeeps,
     ClearLockKeeps DEF Proceed
<1>3. ASSUME NEW b \in Buckets, CounterExpires(b) \/ LockExpires(b) PROVE IInv'
  BY <1>3, CounterExpiresKeeps, LockExpiresKeeps
<1>4. CASE UNCHANGED vars
  BY <1>4, StutterKeeps
<1> QED
  BY <1>1, <1>2, <1>3, <1>4 DEF Next

\* The invariant holds in every state.
THEOREM Invariance == Spec => []IInv
  BY InitInv, NextInv, PTL DEF Spec

\* The counters stay within the bound however many attempts count at once, and
\* the other variables keep their types.
THEOREM TypeCorrect == Spec => []TypeOK
<1>1. IInv => TypeOK
  BY DEF IInv
<1> QED
  BY <1>1, Invariance, PTL

\* Whatever calls are lost, a counter without an expiry was left by a count that
\* lost a call and by no complete count since (_increment_fail_counter).
THEOREM WindowsAreRepaired == Spec => []WindowlessExplained
<1>1. IInv => WindowlessExplained
  BY DEF IInv
<1> QED
  BY <1>1, Invariance, PTL

\* No lock without as many counted failures as the limit of its own identifier or
\* address asks for, with any number of attempts at once (_record_failed_login).
THEOREM NoUnearnedLock == Spec => []LocksAreEarned
<1>1. IInv => LocksAreEarned
  BY DEF IInv
<1> QED
  BY <1>1, Invariance, PTL

\* A counter at its limit is locked, or an attempt that was told so will lock it, or
\* its lock was lost or has ended: no interleaving of counts skips the lock.
THEOREM FullIsLocked == Spec => []FullCounterLocks
<1>1. IInv => FullCounterLocks
  BY DEF IInv
<1> QED
  BY <1>1, Invariance, PTL

=============================================================================
