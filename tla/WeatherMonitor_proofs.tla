------------------------- MODULE WeatherMonitor_proofs -------------------------
(***************************************************************************)
(* Proofs about WeatherMonitor, for every finite set of cases and any      *)
(* finite number of sessions that overlap.                                 *)
(*                                                                         *)
(* TypeOK is inductive.  ResolvedIsScheduled and AlertsFollowVerdict each  *)
(* follow from an invariant of their own (LInv, AInv) that says what of    *)
(* the things a session read is still true when it commits, for each       *)
(* session whatever the others have committed meanwhile; AlertsBounded     *)
(* follows from one (BInv) that counts the sessions about to write an      *)
(* alert with the alerts that are there.                                   *)
(***************************************************************************)
EXTENDS WeatherMonitor, Integers, FiniteSetTheorems, SequenceTheorems, WellFoundedInduction, TLAPS

(***************************************************************************)
(* Sequences.  Keep is a recursive function, so that the lemmas about it   *)
(* argue by the shortest prefix for which the claim is false.              *)
(***************************************************************************)

\* A nonempty family of subsets of a finite set has a minimal one.
LEMMA MinimalSubset ==
  ASSUME NEW S, NEW T, T \subseteq SUBSET S, IsFiniteSet(S), T # {}
  PROVE  \E x \in T : \A y \in T : y \subseteq x => y = x
<1>1. IsWellFoundedOn(StrictSubsetOrdering(S), FiniteSubsetsOf(S))
  BY FS_StrictSubsetOrderingWellFounded
<1>2. T \subseteq FiniteSubsetsOf(S)
  BY FS_Subset DEF FiniteSubsetsOf
<1>3. PICK x \in T : \A y \in T : ~(<<y, x>> \in StrictSubsetOrdering(S))
  BY <1>1, <1>2, WFMin
<1> QED
  BY <1>3 DEF StrictSubsetOrdering

\* A nonempty set of natural numbers has a smallest one.
LEMMA Smallest ==
  ASSUME NEW T, T \subseteq Nat, T # {}
  PROVE  \E n \in T : \A m \in T : n <= m
<1>1. PICK k \in T : TRUE
  OBVIOUS
<1> DEFINE D == 0 .. k
           F == {0 .. n : n \in {m \in T : m <= k}}
<1>2. F \subseteq SUBSET D /\ F # {} /\ IsFiniteSet(D)
  <2>1. k \in Nat /\ (0 .. k) \in F
    BY <1>1
  <2>2. \A n \in T : n <= k => 0 .. n \subseteq 0 .. k
    BY <2>1
  <2>3. IsFiniteSet(0 .. k)
    BY <2>1, FS_Interval
  <2> QED
    BY <2>1, <2>2, <2>3
<1> HIDE DEF F, D
<1>3. PICK x \in F : \A y \in F : y \subseteq x => y = x
  BY <1>2, MinimalSubset
<1> USE DEF F
<1>4. PICK n \in {m \in T : m <= k} : x = 0 .. n
  OBVIOUS
<1>5. ASSUME NEW m \in T, m < n PROVE FALSE
  <2>1. (0 .. m) \in F /\ (0 .. m) \subseteq x
    BY <1>4, <1>5
  <2>2. 0 .. m = 0 .. n
    BY <1>3, <1>4, <2>1
  <2> QED
    BY <1>4, <1>5, <2>2
<1> QED
  BY <1>4, <1>5

\* What Keep computes with, up to a prefix of length n.
Keeps(f, s, set, n) ==
    f = [m \in 0 .. n |-> IF m = 0 THEN <<>>
                          ELSE IF s[m] \in set THEN Append(f[m - 1], s[m]) ELSE f[m - 1]]

\* The function that Keep unfolds is one that Keeps describes.
LEMMA KeepIs == \A s, set : Keep(s, set) = (CHOOSE f : Keeps(f, s, set, Len(s)))[Len(s)]
  BY DEF Keep, Keeps

\* There is such a function for every sequence, set and length.
LEMMA KeepsExists ==
  ASSUME NEW s, NEW set, NEW n \in Nat
  PROVE  \E f : Keeps(f, s, set, n)
<1> DEFINE Bad == {m \in Nat : ~ \E f : Keeps(f, s, set, m)}
<1> SUFFICES ASSUME Bad # {} PROVE FALSE
  OBVIOUS
<1>1. PICK m \in Bad : \A k \in Bad : m <= k
  <2>1. Bad \subseteq Nat
    OBVIOUS
  <2> HIDE DEF Bad
  <2> QED
    BY <2>1, Smallest
<1>2. m # 0
  <2> DEFINE f == [k \in 0 .. 0 |-> <<>>]
  <2>1. Keeps(f, s, set, 0)
    BY DEF Keeps
  <2> QED
    BY <2>1
<1>3. PICK f : Keeps(f, s, set, m - 1)
  <2>1. m - 1 \in Nat /\ ~ (m <= m - 1)
    BY <1>2
  <2> QED
    BY <1>1, <2>1
<1> DEFINE last == IF s[m] \in set THEN Append(f[m - 1], s[m]) ELSE f[m - 1]
           g == [k \in 0 .. m |-> IF k = m THEN last ELSE f[k]]
<1>4. \A k \in 0 .. m - 1 : f[k] = IF k = 0 THEN <<>>
                          ELSE IF s[k] \in set THEN Append(f[k - 1], s[k]) ELSE f[k - 1]
  BY <1>3 DEF Keeps
<1>5. m \in Nat /\ m > 0
  BY <1>2
<1> HIDE DEF Bad
<1>6. \A k \in 0 .. m : g[k] = IF k = 0 THEN <<>>
                          ELSE IF s[k] \in set THEN Append(g[k - 1], s[k]) ELSE g[k - 1]
  <2> SUFFICES ASSUME NEW k \in 0 .. m
               PROVE  g[k] = IF k = 0 THEN <<>>
                          ELSE IF s[k] \in set THEN Append(g[k - 1], s[k]) ELSE g[k - 1]
    OBVIOUS
  <2>1. CASE k = m
    <3>1. g[m] = last /\ g[m - 1] = f[m - 1]
      BY <1>5
    <3> HIDE DEF g
    <3> QED
      BY <1>5, <2>1, <3>1
  <2>2. CASE k # m /\ k # 0
    <3>1. k \in 0 .. m - 1 /\ k - 1 \in 0 .. m /\ k - 1 # m
      BY <1>5, <2>2
    <3>2. g[k] = f[k] /\ g[k - 1] = f[k - 1]
      BY <2>2, <3>1
    <3> HIDE DEF g
    <3> QED
      BY <1>4, <2>2, <3>1, <3>2
  <2>3. CASE k # m /\ k = 0
    <3>1. 0 \in 0 .. m - 1
      BY <1>5
    <3> QED
      BY <1>4, <2>3, <3>1
  <2> QED
    BY <2>1, <2>2, <2>3
<1>7. Keeps(g, s, set, m)
  <2>1. g = [k \in 0 .. m |-> g[k]]
    OBVIOUS
  <2> HIDE DEF g
  <2> QED
    BY <1>6, <2>1 DEF Keeps
<1> QED
  BY <1>1, <1>7 DEF Bad

\* A sequence with one more element.
LEMMA Appended ==
  ASSUME NEW S, NEW s \in Seq(S), NEW e \in S
  PROVE  /\ Append(s, e) \in Seq(S)
         /\ Range(Append(s, e)) = Range(s) \cup {e}
         /\ IsInjective(s) /\ e \notin Range(s) => IsInjective(Append(s, e))
<1> DEFINE t == Append(s, e)
<1>1. /\ t \in Seq(S) /\ Len(t) = Len(s) + 1 /\ Len(s) \in Nat
      /\ DOMAIN t = 1 .. Len(s) + 1 /\ DOMAIN s = 1 .. Len(s)
      /\ \A i \in 1 .. Len(s) : t[i] = s[i]
      /\ t[Len(s) + 1] = e
  BY AppendProperties, LenProperties
<1> HIDE DEF t
<1>2. Range(t) = Range(s) \cup {e}
  BY <1>1 DEF Range
<1>3. ASSUME IsInjective(s), e \notin Range(s) PROVE IsInjective(t)
  BY <1>1, <1>3 DEF IsInjective, Range
<1> QED
  BY <1>1, <1>2, <1>3 DEF t

\* What Keep returns: the members of the set, each as often as before.
LEMMA Kept ==
  ASSUME NEW S, NEW s \in Seq(S), NEW set
  PROVE  /\ Keep(s, set) \in Seq(S)
         /\ Range(Keep(s, set)) = Range(s) \cap set
         /\ IsInjective(s) => IsInjective(Keep(s, set))
<1> DEFINE N == Len(s)
<1>1. N \in Nat /\ DOMAIN s = 1 .. N /\ \A i \in 1 .. N : s[i] \in S
  BY LenProperties, ElementOfSeq
<1>2. PICK f : Keeps(f, s, set, N) /\ Keep(s, set) = f[N]
  BY <1>1, KeepsExists, KeepIs
<1>3. \A m \in 0 .. N : f[m] = IF m = 0 THEN <<>>
                          ELSE IF s[m] \in set THEN Append(f[m - 1], s[m]) ELSE f[m - 1]
  BY <1>2 DEF Keeps
<1> HIDE DEF N
<1> DEFINE First(m) == {s[i] : i \in 1 .. m}
           Good(m) == /\ f[m] \in Seq(S)
                      /\ Range(f[m]) = First(m) \cap set
                      /\ IsInjective(s) => IsInjective(f[m])
           Bad == {m \in 0 .. N : ~ Good(m)}
<1>4. Bad = {}
  <2> SUFFICES ASSUME Bad # {} PROVE FALSE
    OBVIOUS
  <2>1. PICK m \in Bad : \A k \in Bad : m <= k
    <3>1. Bad \subseteq Nat
      BY <1>1
    <3> HIDE DEF Bad
    <3> QED
      BY <3>1, Smallest
  <2>2. m \in 0 .. N /\ ~ Good(m) /\ m \in Nat
    BY <1>1
  <2>3. m # 0
    <3>1. f[0] = <<>>
      BY <1>1, <1>3
    <3>2. <<>> \in Seq(S) /\ DOMAIN <<>> = {}
      BY EmptySeq
    <3>3. Range(<<>>) = {} /\ IsInjective(<<>>) /\ First(0) = {}
      BY <3>2 DEF Range, IsInjective
    <3>4. Good(0)
      BY <3>1, <3>2, <3>3
    <3> HIDE DEF Good
    <3> QED
      BY <2>2, <3>4
  <2>4. Good(m - 1)
    <3>1. m - 1 \in 0 .. N /\ ~ (m <= m - 1)
      BY <1>1, <2>2, <2>3
    <3> HIDE DEF Good
    <3> QED
      BY <2>1, <3>1
  <2> HIDE DEF Bad
  <2>5. f[m] = IF s[m] \in set THEN Append(f[m - 1], s[m]) ELSE f[m - 1]
    BY <1>3, <2>2, <2>3
  <2>6. m \in 1 .. N /\ s[m] \in S /\ First(m) = First(m - 1) \cup {s[m]}
    BY <1>1, <2>2, <2>3
  <2>7. CASE s[m] \notin set
    <3>1. First(m) \cap set = First(m - 1) \cap set
      BY <2>6, <2>7
    <3> HIDE DEF First
    <3> QED
      BY <2>2, <2>4, <2>5, <2>7, <3>1
  <2>8. CASE s[m] \in set
    <3>1. First(m) \cap set = (First(m - 1) \cap set) \cup {s[m]}
      BY <2>6, <2>8
    <3>2. f[m] = Append(f[m - 1], s[m])
      BY <2>5, <2>8
    <3>3. IsInjective(s) => s[m] \notin First(m - 1)
      BY <1>1, <2>2, <2>6 DEF IsInjective
    <3> HIDE DEF First
    <3>4. f[m - 1] \in Seq(S) /\ Range(f[m - 1]) = First(m - 1) \cap set
      BY <2>4
    <3>5. f[m] \in Seq(S) /\ Range(f[m]) = First(m) \cap set
      BY <2>6, <3>1, <3>2, <3>4, Appended
    <3>6. IsInjective(s) => IsInjective(f[m])
      BY <2>4, <2>6, <3>2, <3>3, <3>4, Appended
    <3> QED
      BY <2>2, <3>5, <3>6
  <2> QED
    BY <2>7, <2>8
<1>5. Good(N)
  BY <1>1, <1>4
<1>6. First(N) = Range(s)
  BY <1>1 DEF Range
<1> QED
  BY <1>2, <1>5, <1>6

\* An order of a finite set.
LEMMA Ordered ==
  ASSUME NEW S, IsFiniteSet(S), NEW s \in SetToSeqs(S)
  PROVE  s \in Seq(S) /\ IsInjective(s) /\ Range(s) = S
<1> DEFINE n == Cardinality(S)
<1>1. n \in Nat
  BY FS_CardinalityType
<1>2. s \in [1 .. n -> S] /\ \A i, j \in 1 .. n : i # j => s[i] # s[j]
  BY DEF SetToSeqs
<1> HIDE DEF n
<1>3. s \in Seq(S)
  BY <1>1, <1>2, SeqDef
<1>4. IsInjective(s)
  BY <1>2 DEF IsInjective
<1>5. s \in Injection(1 .. n, S)
  BY <1>2, <1>4 DEF Injection
<1>6. IsFiniteSet(1 .. n) /\ Cardinality(1 .. n) = n
  BY <1>1, FS_Interval
<1>7. s \in Surjection(1 .. n, S)
  BY <1>5, <1>6, FS_Injection DEF n
<1>8. Range(s) = S
  BY <1>2, <1>7 DEF Surjection, Range
<1> QED
  BY <1>3, <1>4, <1>8

\* The head and the rest of a sequence without repetitions.
LEMMA HeadAndTail ==
  ASSUME NEW S, NEW s \in Seq(S), s # <<>>
  PROVE  /\ Head(s) \in S /\ Head(s) \in Range(s)
         /\ Tail(s) \in Seq(S)
         /\ Range(Tail(s)) \subseteq Range(s)
         /\ IsInjective(s) => IsInjective(Tail(s)) /\ Head(s) \notin Range(Tail(s))
<1> DEFINE t == Tail(s)
<1>1. /\ Len(s) \in Nat /\ Len(s) > 0 /\ DOMAIN s = 1 .. Len(s)
      /\ Head(s) = s[1] /\ Head(s) \in S
  BY LenProperties, HeadTailProperties, EmptySeq
<1>2. /\ t \in Seq(S) /\ Len(t) = Len(s) - 1 /\ DOMAIN t = 1 .. Len(s) - 1
      /\ \A i \in 1 .. Len(s) - 1 : t[i] = s[i + 1]
  BY HeadTailProperties, LenProperties
<1> HIDE DEF t
<1>3. Range(t) \subseteq Range(s) /\ Head(s) \in Range(s)
  BY <1>1, <1>2 DEF Range
<1>4. ASSUME IsInjective(s) PROVE IsInjective(t) /\ Head(s) \notin Range(t)
  <2>1. \A i, j \in 1 .. Len(s) : s[i] = s[j] => i = j
    BY <1>1, <1>4 DEF IsInjective
  <2>2. IsInjective(t)
    <3>1. ASSUME NEW i \in DOMAIN t, NEW j \in DOMAIN t, t[i] = t[j] PROVE i = j
      <4>1. i + 1 \in 1 .. Len(s) /\ j + 1 \in 1 .. Len(s) /\ s[i + 1] = s[j + 1]
        BY <1>1, <1>2, <3>1
      <4> QED
        BY <1>2, <2>1, <3>1, <4>1
    <3> QED
      BY <3>1 DEF IsInjective
  <2>3. ASSUME NEW i \in DOMAIN t PROVE t[i] # Head(s)
    <3>1. i + 1 \in 1 .. Len(s) /\ 1 \in 1 .. Len(s) /\ i + 1 # 1 /\ t[i] = s[i + 1]
      BY <1>1, <1>2, <2>3
    <3> QED
      BY <1>1, <2>1, <3>1
  <2> QED
    BY <2>2, <2>3 DEF Range
<1> QED
  BY <1>1, <1>2, <1>3, <1>4 DEF t

\* A first part of a sequence without repetitions.
LEMMA FirstPart ==
  ASSUME NEW S, NEW s \in Seq(S), NEW n \in Nat, n <= Len(s)
  PROVE  /\ SubSeq(s, 1, n) \in Seq(S)
         /\ Range(SubSeq(s, 1, n)) \subseteq Range(s)
         /\ IsInjective(s) => IsInjective(SubSeq(s, 1, n))
<1> DEFINE t == SubSeq(s, 1, n)
<1>1. Len(s) \in Nat /\ DOMAIN s = 1 .. Len(s) /\ \A i \in 1 .. Len(s) : s[i] \in S
  BY LenProperties, ElementOfSeq
<1>2. \A i \in 1 .. n : s[i] \in S
  BY <1>1
<1>3. t \in Seq(S) /\ Len(t) = n /\ \A i \in 1 .. n : t[i] = s[i]
  <2>1. /\ t \in Seq(S) /\ Len(t) = (IF 1 <= n THEN n - 1 + 1 ELSE 0)
        /\ \A i \in 1 .. n - 1 + 1 : t[i] = s[1 + i - 1]
    BY <1>2, SubSeqProperties
  <2> HIDE DEF t
  <2> QED
    BY <2>1
<1>4. DOMAIN t = 1 .. n
  BY <1>3, LenProperties
<1> HIDE DEF t
<1>5. Range(t) \subseteq Range(s)
  BY <1>1, <1>3, <1>4 DEF Range
<1>6. ASSUME IsInjective(s) PROVE IsInjective(t)
  BY <1>1, <1>3, <1>4, <1>6 DEF IsInjective
<1> QED
  BY <1>3, <1>5, <1>6 DEF t

-----------------------------------------------------------------------------
(***************************************************************************)
(* Types.                                                                  *)
(***************************************************************************)

\* A row is written field by field.
LEMMA RowTyped ==
  ASSUME NEW row \in Row
  PROVE  /\ \A g \in GeocodeStatus : [row EXCEPT !.geocode = g] \in Row
         /\ \A g \in GeocodeStatus, l \in BOOLEAN :
                [row EXCEPT !.geocode = g, !.located = l] \in Row
         /\ \A v \in Verdict : [row EXCEPT !.verdict = v] \in Row
         /\ row.located \in BOOLEAN /\ row.active \in BOOLEAN
  BY DEF Row

\* What becomes of a row and of its next check when its location is refreshed.
LEMMA RefreshedTyped ==
  ASSUME NEW c, NEW row \in Row, NEW u, NEW found \in Refreshed(c, row, u)
  PROVE  found[1] \in Row /\ found[2] \in Move
<1>1. \A g \in GeocodeStatus : [row EXCEPT !.geocode = g] \in Row
  BY RowTyped
<1>2. [row EXCEPT !.geocode = "resolved", !.located = TRUE] \in Row
  BY RowTyped DEF GeocodeStatus
<1>3. {"failed", "manual_review", "not_requested", "resolved"} \subseteq GeocodeStatus
  BY DEF GeocodeStatus
<1>4. {"keep", "now", "later", "null"} = Move
  BY DEF Move
<1>5. CASE row.located
  BY <1>1, <1>3, <1>4, <1>5 DEF Refreshed
<1>6. CASE ~row.located /\ ~row.named
  BY <1>1, <1>3, <1>4, <1>6 DEF Refreshed, Unnamed
<1>7. CASE ~row.located /\ row.named
  <2>1. found \in Geocoded(c, row, u)
    BY <1>7 DEF Refreshed
  <2>2. \/ found = <<[row EXCEPT !.geocode = "failed"], "keep">>
        \/ found = <<[row EXCEPT !.geocode = "manual_review"], IF u THEN "keep" ELSE "null">>
        \/ found = <<[row EXCEPT !.geocode = "resolved", !.located = TRUE], "now">>
    BY <2>1 DEF Geocoded
  <2> QED
    BY <1>1, <1>2, <1>3, <1>4, <2>2
<1> QED
  BY <1>5, <1>6, <1>7

\* A session that has one more case behind it.
LEMMA HandledTyped ==
  ASSUME NEW s, IsSession(s), s.todo # <<>>, NEW row \in Row, NEW move \in Move
  PROVE  /\ IsSession(Handled(s, row, move))
         /\ Head(s.todo) \in DOMAIN s.loaded /\ s.mine[Head(s.todo)] \in Row
<1> DEFINE c == Head(s.todo)
           h == Handled(s, row, move)
<1>1. c \in DOMAIN s.loaded /\ Tail(s.todo) \in Seq(DOMAIN s.loaded)
  BY HeadAndTail DEF IsSession
<1>2. s.mine \in [DOMAIN s.loaded -> Row] /\ s.move \in [DOMAIN s.loaded -> Move]
  BY DEF IsSession
<1>3. /\ DOMAIN h = DOMAIN s
      /\ h.todo = Tail(s.todo)
      /\ h.mine = [s.mine EXCEPT ![c] = row] /\ h.move = [s.move EXCEPT ![c] = move]
      /\ h.kind = s.kind /\ h.loaded = s.loaded /\ h.unscheduled = s.unscheduled
      /\ h.raise = s.raise /\ h.resolve = s.resolve
      /\ h.behind = s.behind /\ h.late = s.late
  BY DEF Handled, IsSession
<1> HIDE DEF h, c
<1>4. h.mine \in [DOMAIN s.loaded -> Row] /\ h.move \in [DOMAIN s.loaded -> Move]
  BY <1>1, <1>2, <1>3
<1>5. IsSession(h)
  BY <1>1, <1>3, <1>4 DEF IsSession
<1> QED
  BY <1>1, <1>2, <1>5 DEF h, c

\* A session with something staged for the alerts.
LEMMA StagedTyped ==
  ASSUME NEW s, IsSession(s), NEW cases, cases \subseteq DOMAIN s.loaded,
         NEW ids, ids \subseteq AlertIds
  PROVE  /\ IsSession([s EXCEPT !.raise = @ \cup cases])
         /\ IsSession([s EXCEPT !.resolve = @ \cup ids])
<1>1. \A x : LET u == [s EXCEPT !.raise = x]
            IN  /\ DOMAIN u = DOMAIN s /\ u.raise = x
                /\ u.kind = s.kind /\ u.todo = s.todo /\ u.loaded = s.loaded /\ u.mine = s.mine
                /\ u.unscheduled = s.unscheduled /\ u.move = s.move /\ u.resolve = s.resolve
                /\ u.behind = s.behind /\ u.late = s.late
  BY DEF IsSession
<1>2. \A x : LET u == [s EXCEPT !.resolve = x]
            IN  /\ DOMAIN u = DOMAIN s /\ u.resolve = x
                /\ u.kind = s.kind /\ u.todo = s.todo /\ u.loaded = s.loaded /\ u.mine = s.mine
                /\ u.unscheduled = s.unscheduled /\ u.move = s.move /\ u.raise = s.raise
                /\ u.behind = s.behind /\ u.late = s.late
  BY DEF IsSession
<1> DEFINE u == [s EXCEPT !.raise = s.raise \cup cases]
           v == [s EXCEPT !.resolve = s.resolve \cup ids]
<1>3. IsSession(u)
  <2> HIDE DEF u
  <2>1. /\ DOMAIN u = DOMAIN s /\ u.raise = s.raise \cup cases
        /\ u.kind = s.kind /\ u.todo = s.todo /\ u.loaded = s.loaded /\ u.mine = s.mine
        /\ u.unscheduled = s.unscheduled /\ u.move = s.move /\ u.resolve = s.resolve
        /\ u.behind = s.behind /\ u.late = s.late
    BY <1>1 DEF u
  <2> QED
    BY <2>1 DEF IsSession
<1>4. IsSession(v)
  <2> HIDE DEF v
  <2>1. /\ DOMAIN v = DOMAIN s /\ v.resolve = s.resolve \cup ids
        /\ v.kind = s.kind /\ v.todo = s.todo /\ v.loaded = s.loaded /\ v.mine = s.mine
        /\ v.unscheduled = s.unscheduled /\ v.move = s.move /\ v.raise = s.raise
        /\ v.behind = s.behind /\ v.late = s.late
    BY <1>2 DEF v
  <2> QED
    BY <2>1 DEF IsSession
<1> QED
  BY <1>3, <1>4

\* What a commit or staff leave of a session of another worker: all of it but the
\* history of what was written and assessed.
Outdated(s, t, written, assessed) ==
    /\ DOMAIN t = DOMAIN s /\ t.kind = s.kind /\ t.todo = s.todo
    /\ t.loaded = s.loaded /\ t.mine = s.mine /\ t.unscheduled = s.unscheduled
    /\ t.move = s.move /\ t.raise = s.raise /\ t.resolve = s.resolve
    /\ t.behind = s.behind \cup (written \cap DOMAIN s.loaded)
    /\ t.late = s.late \cup ((assessed \cap DOMAIN s.loaded) \ Range(s.todo))

\* Overtaken leaves that, of every session.
LEMMA OvertakenIs ==
  ASSUME NEW sessions, NEW written, NEW assessed,
         \A w \in Workers : sessions[w] = Idle \/ IsSession(sessions[w]),
         NEW after, after = Overtaken(sessions, written, assessed)
  PROVE  /\ after = [w \in Workers |-> after[w]]
         /\ \A w \in Workers :
               \/ sessions[w] = Idle /\ after[w] = Idle
               \/ /\ sessions[w] # Idle /\ IsSession(sessions[w]) /\ IsSession(after[w])
                  /\ Outdated(sessions[w], after[w], written, assessed)
<1> DEFINE Now(s) == [s EXCEPT !.behind = @ \cup (written \cap DOMAIN s.loaded),
                               !.late = @ \cup ((assessed \cap DOMAIN s.loaded) \ Range(s.todo))]
<1>1. after = [w \in Workers |-> IF sessions[w] = Idle THEN Idle ELSE Now(sessions[w])]
  BY DEF Overtaken
<1>2. ASSUME NEW s, IsSession(s) PROVE Outdated(s, Now(s), written, assessed) /\ IsSession(Now(s))
  <2> DEFINE t == Now(s)
  <2>1. Outdated(s, t, written, assessed)
    BY <1>2 DEF Outdated, IsSession
  <2> HIDE DEF t
  <2>2. IsSession(t)
    BY <1>2, <2>1 DEF Outdated, IsSession
  <2> QED
    BY <2>1, <2>2 DEF t
<1> HIDE DEF Now
<1>3. after = [w \in Workers |-> after[w]]
  BY <1>1
<1>4. ASSUME NEW w \in Workers
      PROVE  \/ sessions[w] = Idle /\ after[w] = Idle
             \/ /\ sessions[w] # Idle /\ IsSession(sessions[w]) /\ IsSession(after[w])
                /\ Outdated(sessions[w], after[w], written, assessed)
  <2>1. CASE sessions[w] = Idle
    BY <1>1, <2>1
  <2>2. CASE sessions[w] # Idle
    <3>1. after[w] = Now(sessions[w]) /\ IsSession(sessions[w])
      BY <1>1, <2>2
    <3> QED
      BY <1>2, <2>2, <3>1
  <2> QED
    BY <2>1, <2>2
<1> QED
  BY <1>3, <1>4

\* New alerts take free ids, one for each case; the others stay as they are.
New(c, opener) == [case |-> c, active |-> TRUE, opened |-> opener, been |-> {c}]

IsRaised(after, table, cases, opener, id) ==
    /\ DOMAIN after = DOMAIN table \cup Range(id)
    /\ after = [n \in DOMAIN after |-> after[n]]
    /\ \A c \in cases : after[id[c]] = New(c, opener)
    /\ \A n \in DOMAIN table \ Range(id) : after[n] = table[n]

\* If the ids suffice, the alerts after new ones are as IsRaised says.
LEMMA RaisedIs ==
  ASSUME NEW table, NEW cases, NEW opener, Fits(table, cases)
  PROVE  \E id \in [cases -> Free(table)] :
            IsInjective(id) /\ IsRaised(Raised(table, cases, opener), table, cases, opener, id)
<1> DEFINE id == CHOOSE f \in [cases -> Free(table)] : IsInjective(f)
           after == Raised(table, cases, opener)
           this(n) == IF n \in Range(id) THEN New(CHOOSE c \in cases : id[c] = n, opener) ELSE table[n]
<1>1. id \in [cases -> Free(table)] /\ IsInjective(id)
  BY DEF Fits
<1>2. after = [n \in DOMAIN table \cup Range(id) |-> this(n)]
  BY DEF Raised, New
<1> HIDE DEF id, after
<1>3. /\ DOMAIN after = DOMAIN table \cup Range(id)
      /\ after = [n \in DOMAIN after |-> after[n]]
      /\ \A n \in DOMAIN table \cup Range(id) : after[n] = this(n)
  BY <1>2
<1>4. ASSUME NEW c \in cases PROVE after[id[c]] = New(c, opener)
  <2>1. id[c] \in Range(id)
    BY <1>1 DEF Range
  <2>2. (CHOOSE d \in cases : id[d] = id[c]) = c
    BY <1>1 DEF IsInjective
  <2> QED
    BY <1>3, <2>1, <2>2
<1>5. \A n \in DOMAIN table \ Range(id) : after[n] = table[n]
  BY <1>3
<1> QED
  BY <1>1, <1>3, <1>4, <1>5 DEF after, IsRaised

\* They are alerts then, under ids that exist.
LEMMA RaisedTyped ==
  ASSUME NEW table, NEW cases, NEW opener \in {"monitor", "staff"}, Fits(table, cases),
         DOMAIN table \subseteq AlertIds, \A n \in DOMAIN table : table[n] \in Alert,
         cases \subseteq Cases
  PROVE  LET after == Raised(table, cases, opener)
         IN  DOMAIN after \subseteq AlertIds /\ after \in [DOMAIN after -> Alert]
<1> DEFINE after == Raised(table, cases, opener)
<1>0. PICK id \in [cases -> Free(table)] : IsRaised(after, table, cases, opener, id)
  BY RaisedIs
<1> HIDE DEF after
<1>1. /\ DOMAIN after = DOMAIN table \cup Range(id)
      /\ after = [n \in DOMAIN after |-> after[n]]
      /\ \A c \in cases : after[id[c]] = New(c, opener)
      /\ \A n \in DOMAIN table \ Range(id) : after[n] = table[n]
  BY <1>0 DEF IsRaised
<1>2. \A c \in cases : New(c, opener) \in Alert
  BY DEF New, Alert
<1>3. Range(id) \subseteq AlertIds /\ \A n \in Range(id) : \E c \in cases : n = id[c]
  BY DEF Range, Free
<1>4. \A n \in DOMAIN after : after[n] \in Alert
  BY <1>1, <1>2, <1>3
<1> QED
  BY <1>1, <1>3, <1>4 DEF after

\* The counter of events stays within its bound.
LEMMA EventTyped == TypeOK /\ Event => events' \in 0 .. MaxEvents
  BY BoundsAssumption DEF TypeOK, Event

\* The parts of TypeOK that a step leaves alone.
LEMMA OpenKept ==
  ASSUME TypeOK, DOMAIN rows \subseteq DOMAIN rows', open' = open
  PROVE  /\ open' = [w \in Workers |-> open'[w]]
         /\ \A w \in Workers : (open[w] = Idle \/ IsSession(open[w]))'
  BY DEF TypeOK, IsSession

\* A new case is a row.
LEMMA CreatedTyped ==
  ASSUME NEW named \in BOOLEAN, NEW located \in BOOLEAN
  PROVE  Created(named, located) \in Row /\ Seeded(located) \in Row
<1>1. \A n, l \in BOOLEAN : Created(n, l) \in Row
  BY DEF Created, Row, GeocodeStatus, Verdict
<1>2. Created(TRUE, located) \in Row
  BY <1>1
<1>3. Seeded(located) \in Row
  BY <1>2, RowTyped DEF Seeded, GeocodeStatus
<1> QED
  BY <1>1, <1>3

\* The types hold at the start.
LEMMA InitTyped == Init => TypeOK
<1> SUFFICES ASSUME Init PROVE TypeOK
  OBVIOUS
<1>1. PICK seeds \in SUBSET Cases, created \in SUBSET Cases : \E located \in SUBSET (seeds \cup created) :
        /\ rows = [c \in seeds \cup created |->
                      IF c \in seeds THEN Seeded(c \in located) ELSE Created(TRUE, c \in located)]
        /\ due \in SetToSeqs(created)
  BY DEF Init
<1>2. /\ later = {} /\ alerts = <<>> /\ open = [w \in Workers |-> Idle]
      /\ outrun = [c \in Cases |-> 0] /\ overlapped = {} /\ events = 0
  BY DEF Init
<1>3. /\ DOMAIN rows = seeds \cup created /\ DOMAIN rows \subseteq Cases
      /\ rows \in [DOMAIN rows -> Row]
  <2>1. PICK located \in SUBSET (seeds \cup created) :
          rows = [c \in seeds \cup created |->
                     IF c \in seeds THEN Seeded(c \in located) ELSE Created(TRUE, c \in located)]
    BY <1>1
  <2>2. ASSUME NEW c PROVE Seeded(c \in located) \in Row /\ Created(TRUE, c \in located) \in Row
    <3>1. (c \in located) \in BOOLEAN /\ TRUE \in BOOLEAN
      OBVIOUS
    <3> QED
      BY <3>1, CreatedTyped, Zenon
  <2> QED
    BY <2>1, <2>2
<1>4. due \in Seq(DOMAIN rows) /\ IsInjective(due)
  <2>1. IsFiniteSet(created)
    BY CasesAssumption, FS_Subset
  <2>2. due \in Seq(created) /\ IsInjective(due)
    BY <1>1, <2>1, Ordered
  <2> QED
    BY <1>3, <2>2, SeqMonotonic
<1>5. DOMAIN alerts \subseteq AlertIds /\ alerts \in [DOMAIN alerts -> Alert]
  <2>1. <<>> \in Seq(Alert) /\ Len(<<>>) = 0 /\ DOMAIN <<>> = {}
    BY EmptySeq
  <2>2. <<>> \in [1 .. 0 -> Alert] /\ 1 .. 0 = {}
    BY <2>1, LenProperties
  <2> QED
    BY <1>2, <2>1, <2>2
<1>6. events \in 0 .. MaxEvents
  BY <1>2, BoundsAssumption
<1> QED
  BY <1>2, <1>3, <1>4, <1>5, <1>6 DEF TypeOK

\* The types hold after each request of staff: a new case,
LEMMA CreateTyped ==
  ASSUME TypeOK, NEW c \in Cases, NEW named \in BOOLEAN, NEW located \in BOOLEAN,
         CreateCase(c, named, located)
  PROVE  TypeOK'
<1>1. /\ c \notin DOMAIN rows
      /\ rows' = [d \in DOMAIN rows \cup {c} |->
                    IF d = c THEN Created(named, located) ELSE rows[d]]
      /\ due' = IF named \/ located THEN Append(due, c) ELSE due
      /\ UNCHANGED <<later, alerts, open, outrun, overlapped>> /\ Event
  BY DEF CreateCase
<1>2. /\ DOMAIN rows' = DOMAIN rows \cup {c} /\ DOMAIN rows' \subseteq Cases
      /\ rows' \in [DOMAIN rows' -> Row]
  BY <1>1, CreatedTyped DEF TypeOK
<1>3. due \in Seq(DOMAIN rows') /\ Range(due) \subseteq DOMAIN rows
  BY <1>2, SeqMonotonic, RangeOfSeq DEF TypeOK
<1>4. due' \in Seq(DOMAIN rows') /\ IsInjective(due') /\ Range(due') \subseteq Range(due) \cup {c}
  BY <1>1, <1>2, <1>3, Appended DEF TypeOK
<1>5. later' \subseteq DOMAIN rows' /\ later' \cap Range(due') = {}
  BY <1>1, <1>2, <1>4 DEF TypeOK
<1>6. /\ open' = [w \in Workers |-> open'[w]]
      /\ \A w \in Workers : (open[w] = Idle \/ IsSession(open[w]))'
  BY <1>1, <1>2, OpenKept
<1> QED
  BY <1>1, <1>2, <1>4, <1>5, <1>6, EventTyped DEF TypeOK

\* a new location,
LEMMA UpdateTyped ==
  ASSUME TypeOK, NEW c \in Cases, NEW named \in BOOLEAN, NEW located \in BOOLEAN,
         UpdateLocation(c, named, located)
  PROVE  TypeOK'
<1> DEFINE there == rows[c].located \/ located
           waiting == Keep(due, Cases \ {c})
           status == IF there THEN "resolved" ELSE IF named THEN "pending" ELSE "not_requested"
<1>1. /\ c \in DOMAIN rows /\ Event
      /\ rows' = [rows EXCEPT ![c].named = named, ![c].located = there, ![c].geocode = status]
      /\ due' = IF there \/ named THEN Append(waiting, c) ELSE waiting
      /\ later' = later \ {c} /\ open' = Overtaken(open, {c}, {})
      /\ UNCHANGED <<alerts, outrun, overlapped>>
  BY DEF UpdateLocation
<1>2. DOMAIN rows' = DOMAIN rows /\ rows' \in [DOMAIN rows' -> Row]
  <2>1. rows[c] \in Row /\ there \in BOOLEAN /\ status \in GeocodeStatus
    BY <1>1 DEF TypeOK, Row, GeocodeStatus
  <2> HIDE DEF there, status
  <2>2. [rows[c] EXCEPT !.named = named, !.located = there, !.geocode = status] \in Row
    BY <2>1 DEF Row
  <2> QED
    BY <1>1, <2>2 DEF TypeOK
<1>3. /\ waiting \in Seq(DOMAIN rows) /\ IsInjective(waiting)
      /\ Range(waiting) = Range(due) \cap (Cases \ {c})
  BY Kept DEF TypeOK
<1> HIDE DEF waiting, there, status
<1>4. /\ due' \in Seq(DOMAIN rows') /\ IsInjective(due')
      /\ Range(due') \subseteq Range(due) \cup {c}
  <2>1. c \in DOMAIN rows /\ c \notin Range(waiting)
    BY <1>1, <1>3
  <2>2. /\ Append(waiting, c) \in Seq(DOMAIN rows) /\ IsInjective(Append(waiting, c))
        /\ Range(Append(waiting, c)) = Range(waiting) \cup {c}
    BY <1>3, <2>1, Appended
  <2> QED
    BY <1>1, <1>2, <1>3, <2>2
<1>5. later' \subseteq DOMAIN rows' /\ later' \cap Range(due') = {}
  BY <1>1, <1>2, <1>4 DEF TypeOK
<1>6. /\ open' = [w \in Workers |-> open'[w]]
      /\ \A w \in Workers : (open[w] = Idle \/ IsSession(open[w]))'
  <2>1. \A u : IsSession(u)' <=> IsSession(u)
    BY <1>2 DEF IsSession
  <2>2. \A w \in Workers : open[w] = Idle \/ IsSession(open[w])
    BY DEF TypeOK
  <2>3. PICK sessions, after, written : sessions = open /\ after = open' /\ written = {c}
    OBVIOUS
  <2>4. after = Overtaken(sessions, written, {})
    BY <1>1, <2>3
  <2>5. /\ after = [w \in Workers |-> after[w]]
        /\ \A w \in Workers : after[w] = Idle \/ IsSession(after[w])
    BY <2>2, <2>3, <2>4, OvertakenIs
  <2> QED
    BY <1>2, <2>1, <2>3, <2>5 DEF IsSession
<1> QED
  BY <1>1, <1>2, <1>4, <1>5, <1>6, EventTyped DEF TypeOK

\* a new status,
LEMMA ChangeTyped ==
  ASSUME TypeOK, NEW c \in Cases, ChangeStatus(c)
  PROVE  TypeOK'
<1>1. /\ c \in DOMAIN rows /\ Event /\ rows' = [rows EXCEPT ![c].active = ~@]
      /\ UNCHANGED <<due, later, alerts, open, outrun, overlapped>>
  BY DEF ChangeStatus
<1>2. DOMAIN rows' = DOMAIN rows /\ rows' \in [DOMAIN rows' -> Row]
  <2>1. rows[c] \in Row
    BY <1>1 DEF TypeOK
  <2>2. [rows[c] EXCEPT !.active = ~rows[c].active] \in Row
    BY <2>1 DEF Row
  <2> QED
    BY <1>1, <2>2 DEF TypeOK
<1>3. /\ open' = [w \in Workers |-> open'[w]]
      /\ \A w \in Workers : (open[w] = Idle \/ IsSession(open[w]))'
  BY <1>1, <1>2, OpenKept
<1> QED
  BY <1>1, <1>2, <1>3, EventTyped DEF TypeOK

\* What staff do to alerts leaves the cases and the sessions alone.
LEMMA AlertsTyped ==
  ASSUME TypeOK, Event, UNCHANGED <<rows, due, later, open, outrun, overlapped>>,
         DOMAIN alerts' \subseteq AlertIds, alerts' \in [DOMAIN alerts' -> Alert]
  PROVE  TypeOK'
<1>1. /\ open' = [w \in Workers |-> open'[w]]
      /\ \A w \in Workers : (open[w] = Idle \/ IsSession(open[w]))'
  BY OpenKept
<1> QED
  BY <1>1, EventTyped DEF TypeOK

\* and what they do to one alert.
LEMMA StaffAlertsTyped ==
  ASSUME TypeOK,
         \/ \E n \in AlertIds : ResolveAlert(n) \/ ActivateAlert(n)
         \/ \E c \in Cases : RaiseAlert(c) \/ MoveSimulation(c)
  PROVE  TypeOK'
<1>1. ASSUME NEW n \in AlertIds, ResolveAlert(n) PROVE TypeOK'
  <2>1. /\ DOMAIN alerts' = DOMAIN alerts /\ alerts' \in [DOMAIN alerts' -> Alert]
    <3>1. alerts[n] \in Alert
      BY <1>1 DEF ResolveAlert, TypeOK
    <3>2. [alerts[n] EXCEPT !.active = FALSE] \in Alert
      BY <3>1 DEF Alert
    <3> QED
      BY <1>1, <3>2 DEF ResolveAlert, TypeOK
  <2>2. DOMAIN alerts' \subseteq AlertIds
    BY <2>1 DEF TypeOK
  <2> QED
    BY <1>1, <2>1, <2>2, AlertsTyped DEF ResolveAlert
<1>2. ASSUME NEW n \in AlertIds, ActivateAlert(n) PROVE TypeOK'
  <2>1. /\ DOMAIN alerts' = DOMAIN alerts /\ alerts' \in [DOMAIN alerts' -> Alert]
    <3>1. alerts[n] \in Alert
      BY <1>2 DEF ActivateAlert, TypeOK
    <3>2. [alerts[n] EXCEPT !.active = TRUE, !.opened = "staff"] \in Alert
      BY <3>1 DEF Alert
    <3> QED
      BY <1>2, <3>2 DEF ActivateAlert, TypeOK
  <2>2. DOMAIN alerts' \subseteq AlertIds
    BY <2>1 DEF TypeOK
  <2> QED
    BY <1>2, <2>1, <2>2, AlertsTyped DEF ActivateAlert
<1>3. ASSUME NEW c \in Cases, RaiseAlert(c) PROVE TypeOK'
  <2>1. /\ Fits(alerts, {c}) /\ alerts' = Raised(alerts, {c}, "staff") /\ Event
        /\ UNCHANGED <<rows, due, later, open, outrun, overlapped>>
    BY <1>3 DEF RaiseAlert
  <2>2. DOMAIN alerts \subseteq AlertIds /\ \A n \in DOMAIN alerts : alerts[n] \in Alert
    BY DEF TypeOK
  <2>3. DOMAIN alerts' \subseteq AlertIds /\ alerts' \in [DOMAIN alerts' -> Alert]
    BY <2>1, <2>2, RaisedTyped
  <2> QED
    BY <2>1, <2>3, AlertsTyped
<1>4. ASSUME NEW c \in Cases, MoveSimulation(c) PROVE TypeOK'
  <2>1. PICK n \in DOMAIN alerts :
          alerts' = [alerts EXCEPT ![n].case = c, ![n].been = @ \cup {c}]
    BY <1>4 DEF MoveSimulation
  <2>2. /\ DOMAIN alerts' = DOMAIN alerts /\ alerts' \in [DOMAIN alerts' -> Alert]
    <3>1. alerts[n] \in Alert
      BY DEF TypeOK
    <3>2. [alerts[n] EXCEPT !.case = c, !.been = alerts[n].been \cup {c}] \in Alert
      BY <3>1 DEF Alert
    <3> QED
      BY <2>1, <3>2 DEF TypeOK
  <2>3. DOMAIN alerts' \subseteq AlertIds
    BY <2>2 DEF TypeOK
  <2> QED
    BY <1>4, <2>2, <2>3, AlertsTyped DEF MoveSimulation
<1> QED
  BY <1>1, <1>2, <1>3, <1>4

\* A step that only opens, advances or ends a session.
LEMMA SessionTyped ==
  ASSUME TypeOK, NEW w \in Workers, NEW s, s = Idle \/ IsSession(s),
         open' = [open EXCEPT ![w] = s],
         UNCHANGED <<rows, due, later, alerts, outrun, overlapped>>, events' \in 0 .. MaxEvents
  PROVE  TypeOK'
<1>1. \A u : IsSession(u)' <=> IsSession(u)
  BY DEF IsSession
<1>2. open' = [v \in Workers |-> IF v = w THEN s ELSE open[v]]
  BY DEF TypeOK
<1>3. \A v \in Workers : open'[v] = Idle \/ IsSession(open'[v])
  BY <1>2 DEF TypeOK
<1>4. \A v \in Workers : (open[v] = Idle \/ IsSession(open[v]))'
  BY <1>1, <1>3 DEF IsSession
<1>5. open' = [v \in Workers |-> open'[v]]
  BY <1>2
<1> QED
  BY <1>4, <1>5 DEF TypeOK

\* The cases of a scan are due, and each is there once.
LEMMA BatchTyped ==
  ASSUME TypeOK
  PROVE  Batch \in Seq(DOMAIN rows) /\ IsInjective(Batch) /\ Range(Batch) \subseteq Range(due)
<1> DEFINE waiting == Keep(due, {c \in DOMAIN rows : rows[c].active})
           n == IF Len(waiting) < Limit THEN Len(waiting) ELSE Limit
<1>1. /\ waiting \in Seq(DOMAIN rows) /\ IsInjective(waiting)
      /\ Range(waiting) \subseteq Range(due)
  BY Kept DEF TypeOK
<1>2. n \in Nat /\ n <= Len(waiting)
  BY <1>1, LenProperties, LimitAssumption
<1>3. Batch = SubSeq(waiting, 1, n)
  BY DEF Batch
<1> HIDE DEF waiting, n
<1> QED
  BY <1>1, <1>2, <1>3, FirstPart

\* A session that has just loaded its cases.
Loaded(kind, batch) ==
    [kind |-> kind, todo |-> batch, loaded |-> [c \in Range(batch) |-> rows[c]],
     mine |-> [c \in Range(batch) |-> rows[c]],
     unscheduled |-> Range(batch) \ (Range(due) \cup later),
     move |-> [c \in Range(batch) |-> "keep"], raise |-> {}, resolve |-> {},
     behind |-> {}, late |-> {}]

\* What a session loads makes it a session.
LEMMA LoadTyped ==
  ASSUME TypeOK, NEW kind \in {"scan", "run", "refresh"}, NEW batch \in Seq(DOMAIN rows)
  PROVE  IsSession(Loaded(kind, batch))
<1> DEFINE s == Loaded(kind, batch)
<1>1. Range(batch) \subseteq DOMAIN rows /\ batch \in Seq(Range(batch))
  BY RangeOfSeq, SeqOfRange
<1>2. [c \in Range(batch) |-> rows[c]] \in [Range(batch) -> Row]
  BY <1>1 DEF TypeOK
<1>3. [c \in Range(batch) |-> "keep"] \in [Range(batch) -> Move]
  BY DEF Move
<1>4. /\ DOMAIN s = {"kind", "todo", "loaded", "mine", "unscheduled", "move", "raise", "resolve",
                      "behind", "late"}
      /\ s.kind = kind /\ s.todo = batch
      /\ s.loaded = [c \in Range(batch) |-> rows[c]] /\ s.mine = [c \in Range(batch) |-> rows[c]]
      /\ s.unscheduled = Range(batch) \ (Range(due) \cup later)
      /\ s.move = [c \in Range(batch) |-> "keep"] /\ s.raise = {} /\ s.resolve = {}
      /\ s.behind = {} /\ s.late = {}
  BY DEF Loaded
<1> HIDE DEF s
<1>5. DOMAIN s.loaded = Range(batch)
  BY <1>4
<1>6. IsSession(s)
  BY <1>1, <1>2, <1>3, <1>4, <1>5 DEF IsSession
<1> QED
  BY <1>6 DEF s

\* What starts a session loads cases that exist, each of them once.
Starts(w, kind, batch) ==
    /\ batch \in Seq(DOMAIN rows) /\ IsInjective(batch)
    /\ kind \in {"scan", "run", "refresh"}
    /\ open[w] = Idle
    /\ open' = [open EXCEPT ![w] = Loaded(kind, batch)]
    /\ events' \in 0 .. MaxEvents
    /\ UNCHANGED <<rows, due, later, alerts, outrun, overlapped>>

\* The three actions that start a session do that.
LEMMA StartIs ==
  ASSUME TypeOK, NEW w \in Workers,
         StartScan(w) \/ \E c \in Cases : StartRun(w, c) \/ StartRefresh(w, c)
  PROVE  \E kind, batch : Starts(w, kind, batch)
<1>1. ASSUME StartScan(w) PROVE Starts(w, "scan", Batch)
  BY <1>1, BatchTyped DEF StartScan, Load, Starts, Loaded, TypeOK
<1>2. ASSUME NEW c \in DOMAIN rows PROVE <<c>> \in Seq(DOMAIN rows) /\ IsInjective(<<c>>)
  <2>1. <<c>> \in Seq(DOMAIN rows)
    OBVIOUS
  <2>2. DOMAIN <<c>> = {1}
    OBVIOUS
  <2> QED
    BY <2>1, <2>2 DEF IsInjective
<1>3. ASSUME NEW c \in Cases, StartRun(w, c) PROVE Starts(w, "run", <<c>>)
  BY <1>2, <1>3, EventTyped DEF StartRun, Load, Starts, Loaded
<1>4. ASSUME NEW c \in Cases, StartRefresh(w, c) PROVE Starts(w, "refresh", <<c>>)
  BY <1>2, <1>4, EventTyped DEF StartRefresh, Load, Starts, Loaded
<1> QED
  BY <1>1, <1>3, <1>4

\* A new session has its type.
LEMMA StartTyped ==
  ASSUME TypeOK, NEW w \in Workers, NEW kind, NEW batch, Starts(w, kind, batch)
  PROVE  TypeOK'
<1>1. IsSession(Loaded(kind, batch))
  BY LoadTyped DEF Starts
<1> DEFINE s == Loaded(kind, batch)
<1>2. open' = [open EXCEPT ![w] = s] /\ UNCHANGED <<rows, due, later, alerts, outrun, overlapped>>
      /\ events' \in 0 .. MaxEvents
  BY DEF Starts
<1> QED
  BY <1>1, <1>2, SessionTyped

-----------------------------------------------------------------------------
(***************************************************************************)
(* The steps of a session, in the terms that the invariants need.          *)
(***************************************************************************)

\* What may be known of the next case's location, and of its next check.
Looked(s, found) ==
    LET c == Head(s.todo)
    IN  \/ found = <<s.mine[c], "keep">>
        \/ found \in Refreshed(c, s.mine[c], c \in s.unscheduled)

\* What becomes of a session with that: it ends, it has handled the case, or it
\* has assessed a case that is located.
Advanced(s, found, u) ==
    \/ u = Idle
    \/ u = Handled(s, found[1], found[2])
    \/ found[1].located /\ (u = Endangered(s, found[1]) \/ u \in Calmed(s, found[1]))

Advances(w, found, u) ==
    /\ open[w] # Idle /\ open[w].todo # <<>>
    /\ Looked(open[w], found) /\ Advanced(open[w], found, u)
    /\ open' = [open EXCEPT ![w] = u]
    /\ UNCHANGED <<rows, due, later, alerts, outrun, overlapped, events>>

\* The three actions that handle a case do that.
LEMMA AdvanceIs ==
  ASSUME NEW w \in Workers, Refresh(w) \/ Assess(w) \/ AssessFails(w)
  PROVE  \E found, u : Advances(w, found, u)
<1> DEFINE s == open[w]
           c == Head(s.todo)
           stay == <<s.mine[c], "keep">>
<1>1. \A found \in Located(s) : Looked(s, found)
  BY DEF Located, Looked
<1>2. stay[1] = s.mine[c] /\ stay[2] = "keep" /\ Looked(s, stay)
  BY DEF Looked
<1>3. ASSUME Refresh(w) PROVE \E found, u : Advances(w, found, u)
  <2>1. open[w] # Idle /\ open[w].todo # <<>>
    BY <1>3 DEF Refresh, Working
  <2>2. ASSUME NEW found \in Refreshed(c, s.mine[c], c \in s.unscheduled),
               Put(w, Handled(s, found[1], found[2]))
        PROVE  Advances(w, found, Handled(s, found[1], found[2]))
    BY <2>1, <2>2 DEF Put, Advances, Advanced, Looked
  <2>3. ASSUME Put(w, Handled(s, s.mine[c], "keep"))
        PROVE  Advances(w, stay, Handled(s, s.mine[c], "keep"))
    <3> HIDE DEF stay
    <3> QED
      BY <1>2, <2>1, <2>3 DEF Put, Advances, Advanced
  <2>4. ASSUME NEW found \in Located(s), Put(w, Handled(s, found[1], found[2]))
        PROVE  Advances(w, found, Handled(s, found[1], found[2]))
    BY <1>1, <2>1, <2>4 DEF Put, Advances, Advanced
  <2> QED
    BY <1>3, <2>2, <2>3, <2>4 DEF Refresh
<1>4. ASSUME Assess(w) PROVE \E found, u : Advances(w, found, u)
  <2>1. open[w] # Idle /\ open[w].todo # <<>>
    BY <1>4 DEF Assess, Working
  <2>2. PICK found \in Located(s) :
          found[1].located /\ \E next \in Decided(s, found[1]) : Put(w, next)
    BY <1>4 DEF Assess
  <2>3. PICK u \in Decided(s, found[1]) : Put(w, u)
    BY <2>2
  <2>4. u = Endangered(s, found[1]) \/ u \in Calmed(s, found[1])
    BY <2>3 DEF Decided
  <2>5. Advances(w, found, u)
    BY <1>1, <2>1, <2>2, <2>3, <2>4 DEF Put, Advances, Advanced
  <2> QED
    BY <2>5
<1>5. ASSUME AssessFails(w) PROVE \E found, u : Advances(w, found, u)
  <2>1. open[w] # Idle /\ open[w].todo # <<>>
    BY <1>5 DEF AssessFails, Working
  <2>2. PICK found \in Located(s) :
          Put(w, IF s.kind = "run" THEN Idle ELSE Handled(s, found[1], found[2]))
    BY <1>5 DEF AssessFails
  <2>3. \E u : Put(w, u) /\ (u = Idle \/ u = Handled(s, found[1], found[2]))
    BY <2>2
  <2>4. \E u : Advances(w, found, u)
    BY <1>1, <2>1, <2>2, <2>3 DEF Put, Advances, Advanced
  <2> QED
    BY <2>4
<1> QED
  BY <1>3, <1>4, <1>5

\* What is found out about a location is a row and a move.
LEMMA LookedTyped ==
  ASSUME NEW s, IsSession(s), s.todo # <<>>, NEW found, Looked(s, found)
  PROVE  found[1] \in Row /\ found[2] \in Move
<1>1. s.mine[Head(s.todo)] \in Row
  <2>1. Head(s.todo) \in DOMAIN s.loaded
    BY HeadAndTail DEF IsSession
  <2> QED
    BY <2>1 DEF IsSession
<1>2. CASE found = <<s.mine[Head(s.todo)], "keep">>
  BY <1>1, <1>2 DEF Move
<1>3. CASE found \in Refreshed(Head(s.todo), s.mine[Head(s.todo)], Head(s.todo) \in s.unscheduled)
  BY <1>1, <1>3, RefreshedTyped
<1> QED
  BY <1>2, <1>3 DEF Looked

\* A session that has assessed a case is a session.
LEMMA AssessedTyped ==
  ASSUME NEW s, IsSession(s), s.todo # <<>>, NEW row \in Row, NEW v \in Verdict
  PROVE  IsSession(Assessed(s, row, v))
<1>1. [row EXCEPT !.verdict = v] \in Row /\ "later" \in Move
  BY RowTyped DEF Move
<1> QED
  BY <1>1, HandledTyped DEF Assessed

\* A session with one more case behind it has its type.
LEMMA AdvanceTyped ==
  ASSUME TypeOK, NEW w \in Workers, NEW found, NEW u, Advances(w, found, u)
  PROVE  TypeOK' /\ (u # Idle => IsSession(u))
<1> DEFINE s == open[w]
           c == Head(s.todo)
<1>1. /\ s # Idle /\ s.todo # <<>> /\ IsSession(s) /\ Looked(s, found) /\ Advanced(s, found, u)
      /\ open' = [open EXCEPT ![w] = u] /\ UNCHANGED <<rows, due, later, alerts, outrun, overlapped, events>>
  BY DEF Advances, TypeOK
<1> HIDE DEF s
<1>2. found[1] \in Row /\ found[2] \in Move
  BY <1>1, LookedTyped
<1>3. c \in DOMAIN s.loaded
  BY <1>1, HeadAndTail DEF IsSession
<1>4. Active(c) \subseteq AlertIds
  BY DEF Active, TypeOK
<1>5. u # Idle => IsSession(u)
  <2>1. CASE u = Handled(s, found[1], found[2])
    BY <1>1, <1>2, <2>1, HandledTyped
  <2>2. CASE u = Endangered(s, found[1])
    <3> DEFINE a == Assessed(s, found[1], "danger")
    <3>1. IsSession(a) /\ a.loaded = s.loaded
      <4>1. IsSession(a)
        BY <1>1, <1>2, AssessedTyped DEF Verdict
      <4>2. a.loaded = s.loaded
        BY <1>1 DEF Assessed, Handled, IsSession
      <4> QED
        BY <4>1, <4>2
    <3> HIDE DEF a
    <3>2. IsSession([a EXCEPT !.raise = a.raise \cup {c}])
      BY <1>3, <3>1, StagedTyped
    <3>3. IsSession([a EXCEPT !.raise = a.raise \cup {}])
      BY <3>1, StagedTyped
    <3>4. a.raise \cup {} = a.raise
      OBVIOUS
    <3>5. u = [a EXCEPT !.raise = IF Active(c) = {} THEN a.raise \cup {c} ELSE a.raise]
      BY <2>2 DEF Endangered, a
    <3> QED
      BY <3>2, <3>3, <3>4, <3>5
  <2>3. CASE u \in Calmed(s, found[1])
    <3> DEFINE a == Assessed(s, found[1], "calm")
    <3>1. IsSession(a)
      BY <1>1, <1>2, AssessedTyped DEF Verdict
    <3> HIDE DEF a
    <3>2. PICK chosen \in IF Active(c) = {} THEN {{}} ELSE {{n} : n \in Active(c)} :
            u = [a EXCEPT !.resolve = a.resolve \cup chosen]
      BY <2>3 DEF Calmed, a
    <3>3. chosen \subseteq AlertIds
      BY <1>4, <3>2
    <3> QED
      BY <3>1, <3>2, <3>3, StagedTyped
  <2> QED
    BY <1>1, <2>1, <2>2, <2>3 DEF Advanced
<1>6. TypeOK'
  <2>1. events' \in 0 .. MaxEvents
    BY <1>1 DEF TypeOK
  <2> QED
    BY <1>1, <1>5, <2>1, SessionTyped
<1> QED
  BY <1>5, <1>6

\* What a session staged for the next checks, and what a commit makes of the
\* rows and of the alerts before it adds new ones.
Sent(s, move) == {c \in DOMAIN s.move : s.move[c] = move}
Moved(s) == Sent(s, "now") \cup Sent(s, "later") \cup Sent(s, "null")
Settled(s) == [n \in DOMAIN alerts |-> [alerts[n] EXCEPT !.active = @ /\ n \notin s.resolve]]
Merged(s, c) ==
    IF c \in DOMAIN s.mine
    THEN MergeRow(rows[c], s.loaded[c], s.mine[c], s.move[c] = "later") ELSE rows[c]

Commits(s) ==
    /\ s # Idle /\ IsSession(s) /\ s.todo = <<>>
    /\ rows' = [c \in DOMAIN rows |-> Merged(s, c)]
    /\ due' \in Seq(DOMAIN rows) /\ IsInjective(due')
    /\ Range(due') = (Range(due) \ Moved(s)) \cup Sent(s, "now")
    /\ later' = (later \ Moved(s)) \cup Sent(s, "later")
    /\ Fits(Settled(s), s.raise) /\ alerts' = Raised(Settled(s), s.raise, "monitor")
    /\ outrun' = [c \in Cases |->
                     IF c \in Written(s) \cap s.behind /\ outrun[c] < 2
                     THEN outrun[c] + 1 ELSE outrun[c]]
    /\ overlapped' = overlapped \cup (Sent(s, "later") \cap s.late)
    /\ UNCHANGED events

\* The other sessions after it.
Leaves(w, s) == open' = Overtaken([open EXCEPT ![w] = Idle], Written(s), Sent(s, "later"))

\* The order of a commit holds every case once: those that were due and did not
\* move, and those that the session sent back.
LEMMA CommitIs ==
  ASSUME TypeOK, NEW w \in Workers, Commit(w)
  PROVE  Commits(open[w]) /\ Leaves(w, open[w])
<1> DEFINE s == open[w]
           kept == Keep(due, Cases \ Moved(s))
           again == Sent(s, "now")
<1>1. s # Idle /\ IsSession(s) /\ s.todo = <<>>
  BY DEF Commit, TypeOK
<1>2. /\ rows' = [c \in DOMAIN rows |-> Merged(s, c)]
      /\ due' \in Order(Moved(s), again)
      /\ later' = (later \ Moved(s)) \cup Sent(s, "later")
      /\ Fits(Settled(s), s.raise) /\ alerts' = Raised(Settled(s), s.raise, "monitor")
      /\ outrun' = [c \in Cases |->
                     IF c \in Written(s) \cap s.behind /\ outrun[c] < 2
                     THEN outrun[c] + 1 ELSE outrun[c]]
      /\ overlapped' = overlapped \cup (Sent(s, "later") \cap s.late)
      /\ open' = Overtaken([open EXCEPT ![w] = Idle], Written(s), Sent(s, "later"))
      /\ UNCHANGED events
  BY DEF Commit, Sent, Moved, Settled, Merged
<1>3. due' \in SetToSeqs(Range(kept) \cup again)
  BY <1>2 DEF Order
<1>4. /\ Range(kept) = Range(due) \cap (Cases \ Moved(s))
      /\ Range(due) \subseteq DOMAIN rows
  BY Kept, RangeOfSeq DEF TypeOK
<1>5. again \subseteq DOMAIN rows
  BY <1>1 DEF Sent, IsSession
<1> HIDE DEF kept, again, s
<1>6. Range(kept) \cup again \subseteq DOMAIN rows /\ DOMAIN rows \subseteq Cases
  BY <1>4, <1>5 DEF TypeOK
<1>7. IsFiniteSet(Range(kept) \cup again)
  BY <1>6, CasesAssumption, FS_Subset
<1>8. /\ due' \in Seq(Range(kept) \cup again) /\ IsInjective(due')
      /\ Range(due') = Range(kept) \cup again
  BY <1>3, <1>7, Ordered
<1>9. due' \in Seq(DOMAIN rows)
  BY <1>6, <1>8, SeqMonotonic
<1>10. Range(kept) = Range(due) \ Moved(s)
  BY <1>4, <1>6
<1> QED
  BY <1>1, <1>2, <1>8, <1>9, <1>10 DEF Commits, Leaves, s, again

\* A commit ends the session of its worker and leaves the others to their work.
LEMMA OthersAfter ==
  ASSUME TypeOK, NEW w \in Workers, NEW s, Leaves(w, s)
  PROVE  /\ open' = [v \in Workers |-> open'[v]] /\ open'[w] = Idle
         /\ \A v \in Workers :
              \/ open'[v] = Idle
              \/ /\ v # w /\ open[v] # Idle /\ IsSession(open[v]) /\ IsSession(open'[v])
                 /\ Outdated(open[v], open'[v], Written(s), Sent(s, "later"))
<1> DEFINE sessions == [open EXCEPT ![w] = Idle]
<1>1. \A v \in Workers : sessions[v] = IF v = w THEN Idle ELSE open[v]
  BY DEF TypeOK
<1>2. \A v \in Workers : sessions[v] = Idle \/ IsSession(sessions[v])
  BY <1>1 DEF TypeOK
<1>3. open' = Overtaken(sessions, Written(s), Sent(s, "later"))
  BY DEF Leaves
<1> HIDE DEF sessions
<1>4. /\ open' = [v \in Workers |-> open'[v]]
      /\ \A v \in Workers :
            \/ sessions[v] = Idle /\ open'[v] = Idle
            \/ /\ sessions[v] # Idle /\ IsSession(sessions[v]) /\ IsSession(open'[v])
               /\ Outdated(sessions[v], open'[v], Written(s), Sent(s, "later"))
  BY <1>2, <1>3, OvertakenIs
<1> QED
  BY <1>1, <1>4

\* What a commit writes is a row.
LEMMA MergedTyped ==
  ASSUME TypeOK, NEW s, IsSession(s), NEW c \in DOMAIN rows
  PROVE  Merged(s, c) \in Row
<1>1. rows[c] \in Row
  BY DEF TypeOK
<1>2. \A p, q \in Row, b \in BOOLEAN : MergeRow(rows[c], p, q, b) \in Row
  BY <1>1 DEF MergeRow, Flushed, Row
<1>3. CASE c \in DOMAIN s.mine
  <2>1. s.loaded[c] \in Row /\ s.mine[c] \in Row
    BY <1>3 DEF IsSession
  <2>2. (s.move[c] = "later") \in BOOLEAN
    OBVIOUS
  <2>3. Merged(s, c) = MergeRow(rows[c], s.loaded[c], s.mine[c], s.move[c] = "later")
    BY <1>3 DEF Merged
  <2> QED
    BY <1>2, <2>1, <2>2, <2>3, Zenon
<1>4. CASE c \notin DOMAIN s.mine
  BY <1>1, <1>4 DEF Merged
<1> QED
  BY <1>3, <1>4

\* What a commit writes has its type.
LEMMA CommitTyped ==
  ASSUME TypeOK, NEW w \in Workers, Commit(w)
  PROVE  TypeOK'
<1> DEFINE s == open[w]
<1>1. Commits(s) /\ Leaves(w, s)
  BY CommitIs
<1> HIDE DEF s
<1>2. DOMAIN rows' = DOMAIN rows /\ rows' \in [DOMAIN rows' -> Row]
  BY <1>1, MergedTyped DEF Commits
<1>3. later' \subseteq DOMAIN rows /\ later' \cap Range(due') = {}
  BY <1>1 DEF Commits, Sent, Moved, IsSession, TypeOK
<1>4. DOMAIN alerts' \subseteq AlertIds /\ alerts' \in [DOMAIN alerts' -> Alert]
  <2>1. \A n \in DOMAIN Settled(s) : Settled(s)[n] \in Alert
    BY DEF Settled, TypeOK, Alert
  <2>2. DOMAIN Settled(s) \subseteq AlertIds
    BY DEF Settled, TypeOK
  <2>3. s.raise \subseteq Cases
    BY <1>1 DEF Commits, IsSession, TypeOK
  <2>4. "monitor" \in {"monitor", "staff"}
    OBVIOUS
  <2> QED
    BY <1>1, <2>1, <2>2, <2>3, <2>4, RaisedTyped DEF Commits
<1>5. outrun' \in [Cases -> 0 .. 2] /\ overlapped' \subseteq Cases
  BY <1>1 DEF Commits, Sent, IsSession, TypeOK
<1>6. open' = [v \in Workers |-> open'[v]]
      /\ \A v \in Workers : (open[v] = Idle \/ IsSession(open[v]))'
  <2>1. \A u : IsSession(u)' <=> IsSession(u)
    BY <1>2 DEF IsSession
  <2>2. /\ open' = [v \in Workers |-> open'[v]]
        /\ \A v \in Workers : open'[v] = Idle \/ IsSession(open'[v])
    BY <1>1, OthersAfter
  <2> QED
    BY <1>2, <2>1, <2>2 DEF IsSession
<1>7. DOMAIN rows' \subseteq Cases /\ events' \in 0 .. MaxEvents
  BY <1>1, <1>2 DEF Commits, TypeOK
<1>8. due' \in Seq(DOMAIN rows') /\ IsInjective(due')
  BY <1>1, <1>2 DEF Commits
<1> QED
  BY <1>2, <1>3, <1>4, <1>5, <1>6, <1>7, <1>8 DEF TypeOK

\* A case whose check has come was not in the order yet.
LEMMA ComeDueTyped ==
  ASSUME TypeOK, NEW c \in Cases, ComeDue(c)
  PROVE  TypeOK'
<1>1. /\ c \in later /\ later' = later \ {c} /\ due' = Append(due, c)
      /\ UNCHANGED <<rows, alerts, open, outrun, overlapped, events>>
  BY DEF ComeDue
<1>2. due \in Seq(DOMAIN rows) /\ c \in DOMAIN rows /\ c \notin Range(due) /\ IsInjective(due)
  BY <1>1 DEF TypeOK
<1>3. due' \in Seq(DOMAIN rows) /\ IsInjective(due') /\ Range(due') = Range(due) \cup {c}
  BY <1>1, <1>2, Appended
<1>4. /\ open' = [w \in Workers |-> open'[w]]
      /\ \A w \in Workers : (open[w] = Idle \/ IsSession(open[w]))'
  BY <1>1, OpenKept
<1> QED
  BY <1>1, <1>3, <1>4 DEF TypeOK

\* Every step keeps the types.
LEMMA NextTyped == TypeOK /\ [Next]_vars => TypeOK'
<1> SUFFICES ASSUME TypeOK, [Next]_vars PROVE TypeOK'
  OBVIOUS
<1>1. ASSUME NEW c \in Cases, NEW named \in BOOLEAN, NEW located \in BOOLEAN,
             CreateCase(c, named, located) \/ UpdateLocation(c, named, located)
      PROVE  TypeOK'
  BY <1>1, CreateTyped, UpdateTyped
<1>2. ASSUME NEW c \in Cases, ChangeStatus(c) PROVE TypeOK'
  BY <1>2, ChangeTyped
<1>3. ASSUME \/ \E n \in AlertIds : ResolveAlert(n) \/ ActivateAlert(n)
             \/ \E c \in Cases : RaiseAlert(c) \/ MoveSimulation(c)
      PROVE  TypeOK'
  BY <1>3, StaffAlertsTyped
<1>4. ASSUME NEW w \in Workers,
             StartScan(w) \/ \E c \in Cases : StartRun(w, c) \/ StartRefresh(w, c)
      PROVE  TypeOK'
  BY <1>4, StartIs, StartTyped
<1>5. ASSUME NEW w \in Workers, Refresh(w) \/ Assess(w) \/ AssessFails(w) PROVE TypeOK'
  BY <1>5, AdvanceIs, AdvanceTyped
<1>6. ASSUME NEW w \in Workers, Commit(w) PROVE TypeOK'
  BY <1>6, CommitTyped
<1>7. ASSUME NEW w \in Workers, Lose(w) PROVE TypeOK'
  <2>1. /\ open' = [open EXCEPT ![w] = Idle] /\ UNCHANGED <<rows, due, later, alerts, outrun, overlapped>>
        /\ events' \in 0 .. MaxEvents
    BY <1>7, EventTyped DEF Lose
  <2> QED
    BY <2>1, SessionTyped
<1>8. ASSUME NEW c \in Cases, ComeDue(c) PROVE TypeOK'
  BY <1>8, ComeDueTyped
<1>9. CASE UNCHANGED vars
  <2>1. UNCHANGED rows /\ open' = open
    BY <1>9 DEF vars
  <2>2. /\ open' = [w \in Workers |-> open'[w]]
        /\ \A w \in Workers : (open[w] = Idle \/ IsSession(open[w]))'
    BY <2>1, OpenKept
  <2> QED
    BY <1>9, <2>2 DEF vars, TypeOK
<1>10. ASSUME Staff PROVE TypeOK'
  BY <1>1, <1>2, <1>3, <1>4, <1>10 DEF Staff
<1>11. ASSUME NEW w \in Workers, StartScan(w) \/ Work(w) \/ Lose(w) PROVE TypeOK'
  BY <1>4, <1>5, <1>6, <1>7, <1>11 DEF Work
<1> QED
  BY <1>8, <1>9, <1>10, <1>11 DEF Next

\* Every case that exists is scheduled at most once, and what is due, stored,
\* loaded, staged and raised by any number of sessions has its type: in
\* particular no commit puts a case into the order of the scan twice.
THEOREM TypeCorrect == Spec => []TypeOK
<1> QED
  BY InitTyped, NextTyped, PTL DEF Spec

-----------------------------------------------------------------------------
(***************************************************************************)
(* Where the cases are in the order of the scan.                           *)
(*                                                                         *)
(* ResolvedIsScheduled is not inductive.  What has to be known besides is  *)
(* what the other geocode statuses say of the order (Placed), what of the  *)
(* rows a session loaded still holds while staff and other sessions change *)
(* them (Read), and that what it stages agrees with what it loaded         *)
(* (Staged).                                                               *)
(***************************************************************************)
Scheduled(c) == c \in Range(due) \cup later

\* Where a case stands: a resolved one is located, and it is scheduled if fewer
\* than two commits were outrun; one whose place is not known is not scheduled,
\* and one whose name waits for the geocoder is, if no commit was outrun; one
\* without a name and a location never is.
Placed(c) ==
    /\ rows[c].geocode = "resolved" => rows[c].located /\ (outrun[c] < 2 => Scheduled(c))
    /\ rows[c].geocode = "manual_review" /\ outrun[c] = 0 => ~rows[c].located /\ ~Scheduled(c)
    /\ rows[c].geocode = "pending" /\ outrun[c] = 0 => Scheduled(c)
    /\ ~rows[c].named /\ ~rows[c].located => ~Scheduled(c)

\* What a session read of a case, and what of it still holds: all of it, unless
\* others wrote the place or the next check of the case since (behind).
ReadAs(c, old, unscheduled, behind) ==
    /\ old.geocode = "resolved" => old.located
    /\ old.located => rows[c].located
    /\ ~old.named /\ ~old.located => unscheduled
    /\ outrun[c] = 0 =>
        /\ old.geocode = "manual_review" => unscheduled /\ ~old.located
        /\ old.geocode \in {"pending", "resolved"} => ~unscheduled
        /\ old.located /\ ~unscheduled => Scheduled(c)
    /\ ~behind =>
        /\ rows[c].located = old.located /\ rows[c].geocode = old.geocode
        /\ unscheduled <=> ~Scheduled(c)

Read(s, c) == ReadAs(c, s.loaded[c], c \in s.unscheduled, c \in s.behind)

\* What a session staged for a case: the row it loaded, the row it holds and the
\* move of the next check.
StagedAs(old, new, move, unscheduled) ==
    /\ new.located # old.located => new.located /\ new.geocode = "resolved"
    /\ move \in {"now", "later"} => new.located
    /\ move = "now" => new.geocode = "resolved"
    /\ move = "null" => ~unscheduled /\ ~new.located /\ new.geocode = "manual_review"
    /\ new.geocode # old.geocode => new.geocode # "pending"
    /\ new.geocode # old.geocode /\ new.geocode = "resolved" =>
          new.located /\ (move = "keep" => old.located /\ ~unscheduled)
    /\ new.geocode # old.geocode /\ new.geocode = "manual_review" =>
          ~new.located /\ (move = "keep" => unscheduled)

Staged(s, c) == StagedAs(s.loaded[c], s.mine[c], s.move[c], c \in s.unscheduled)

\* A session has done nothing yet about the cases it is still to handle, and
\* each of them is there once.
Pending(s) ==
    /\ IsInjective(s.todo)
    /\ \A c \in Range(s.todo) : s.mine[c] = s.loaded[c] /\ s.move[c] = "keep"

Sessions == {open[w] : w \in Workers} \ {Idle}

Sound(s) == Pending(s) /\ \A c \in DOMAIN s.loaded : Read(s, c) /\ Staged(s, c)

LInv ==
    /\ TypeOK
    /\ \A c \in DOMAIN rows : Placed(c)
    /\ \A s \in Sessions : Sound(s)

\* The sessions after a step of one worker.
LEMMA OneSession ==
  ASSUME TypeOK, NEW w \in Workers, NEW u, open' = [open EXCEPT ![w] = u]
  PROVE  Sessions' \subseteq Sessions \cup ({u} \ {Idle})
<1>1. open' = [v \in Workers |-> IF v = w THEN u ELSE open[v]]
  BY DEF TypeOK
<1> QED
  BY <1>1 DEF Sessions

\* The open sessions have their type, and their cases exist.
LEMMA SessionsTyped ==
  ASSUME TypeOK, NEW s \in Sessions
  PROVE  IsSession(s) /\ DOMAIN s.loaded \subseteq DOMAIN rows
  BY DEF TypeOK, Sessions, IsSession

\* What the location of a case, its status and its place in the order say does not
\* change while these do not.
Same(c) ==
    /\ rows'[c].geocode = rows[c].geocode /\ rows'[c].located = rows[c].located
    /\ rows'[c].named = rows[c].named /\ outrun'[c] = outrun[c]
    /\ Scheduled(c)' <=> Scheduled(c)

\* A case stays placed while that does not change.
LEMMA PlacedKept == \A c : Same(c) /\ Placed(c) => Placed(c)'
  BY DEF Same, Placed

\* What is left of a session when others go on without it.
Left(s, t) == t = s \/ \E written, assessed : Outdated(s, t, written, assessed)

LEMMA LeftIs ==
  ASSUME NEW s, NEW t, Left(s, t)
  PROVE  /\ t.todo = s.todo /\ t.loaded = s.loaded /\ t.mine = s.mine /\ t.move = s.move
         /\ t.unscheduled = s.unscheduled /\ t.raise = s.raise /\ t.resolve = s.resolve
         /\ s.behind \subseteq t.behind /\ s.late \subseteq t.late
  BY DEF Left, Outdated

\* What a session read of a case still holds while that does not change.
LEMMA ReadKept == \A c, s, t : Same(c) /\ Left(s, t) /\ Read(s, c) => Read(t, c)'
<1> SUFFICES ASSUME NEW c, NEW s, NEW t, Same(c), Left(s, t), Read(s, c) PROVE Read(t, c)'
  OBVIOUS
<1>1. \A old, u, a, b : ReadAs(c, old, u, a) /\ (a => b) => ReadAs(c, old, u, b)'
  BY DEF Same, ReadAs
<1>2. t.loaded = s.loaded /\ t.unscheduled = s.unscheduled /\ (c \in s.behind => c \in t.behind)
  BY LeftIs
<1> QED
  BY <1>1, <1>2 DEF Read

\* A session is as sound as what it read.
LEMMA SoundKept ==
  ASSUME NEW s, NEW t, Left(s, t), Sound(s), \A c \in DOMAIN s.loaded : Read(t, c)'
  PROVE  Sound(t)'
<1>1. /\ t.todo = s.todo /\ t.loaded = s.loaded /\ t.mine = s.mine /\ t.move = s.move
      /\ t.unscheduled = s.unscheduled
  BY LeftIs
<1>2. Pending(t)' /\ \A c \in DOMAIN s.loaded : Staged(t, c)'
  BY <1>1 DEF Sound, Pending, Staged, StagedAs
<1> QED
  BY <1>1, <1>2 DEF Sound

\* A session is sound after a step that leaves all of that alone.
LEMMA OthersSound ==
  ASSUME LInv, \A c \in DOMAIN rows : Same(c), NEW s \in Sessions, NEW t, Left(s, t)
  PROVE  Sound(t)'
<1>1. Sound(s) /\ DOMAIN s.loaded \subseteq DOMAIN rows
  BY SessionsTyped DEF LInv
<1>2. \A c \in DOMAIN s.loaded : Read(t, c)'
  BY <1>1, ReadKept DEF Sound
<1> QED
  BY <1>1, <1>2, SoundKept

\* A step that leaves all of that alone, and the sessions but for a new one.
LEMMA AllSame ==
  ASSUME LInv, TypeOK', DOMAIN rows' = DOMAIN rows, \A c \in DOMAIN rows : Same(c),
         \A s \in Sessions' : s \in Sessions \/ Sound(s)'
  PROVE  LInv'
<1>1. \A c \in DOMAIN rows' : Placed(c)'
  BY PlacedKept DEF LInv
<1>2. ASSUME NEW s \in Sessions' PROVE Sound(s)'
  <2>1. CASE s \in Sessions
    BY <2>1, OthersSound DEF Left
  <2> QED
    BY <1>2, <2>1
<1> QED
  BY <1>1, <1>2 DEF LInv

\* The first cases are placed: seeded ones without a check, the others with one.
LEMMA InitPlaced == Init => LInv
<1> SUFFICES ASSUME Init PROVE LInv
  OBVIOUS
<1>1. TypeOK
  BY InitTyped
<1>0. PICK seeds \in SUBSET Cases, created \in SUBSET Cases :
        \E located \in SUBSET (seeds \cup created) :
            /\ seeds \cap created = {}
            /\ rows = [c \in seeds \cup created |->
                          IF c \in seeds THEN Seeded(c \in located) ELSE Created(TRUE, c \in located)]
            /\ due \in SetToSeqs(created)
  BY DEF Init
<1>2. PICK located \in SUBSET (seeds \cup created) :
        /\ seeds \cap created = {}
        /\ rows = [c \in seeds \cup created |->
                      IF c \in seeds THEN Seeded(c \in located) ELSE Created(TRUE, c \in located)]
        /\ due \in SetToSeqs(created)
  BY <1>0
<1>3. later = {} /\ Range(due) = created /\ Sessions = {}
  <2>1. IsFiniteSet(created)
    BY CasesAssumption, FS_Subset
  <2> QED
    BY <1>2, <2>1, Ordered DEF Init, Sessions
<1>4. ASSUME NEW c \in DOMAIN rows PROVE Placed(c)
  <2>1. outrun[c] = 0
    BY <1>1, <1>4 DEF Init, TypeOK
  <2>2. CASE c \in seeds
    BY <1>2, <1>3, <1>4, <2>1, <2>2 DEF Placed, Seeded, Created, Scheduled
  <2>3. CASE c \notin seeds
    BY <1>2, <1>3, <1>4, <2>1, <2>3 DEF Placed, Seeded, Created, Scheduled
  <2> QED
    BY <2>2, <2>3
<1> QED
  BY <1>1, <1>3, <1>4 DEF LInv

\* A new case is placed.
LEMMA CreatePlaced ==
  ASSUME LInv, NEW c \in Cases, NEW named \in BOOLEAN, NEW located \in BOOLEAN,
         CreateCase(c, named, located), TypeOK'
  PROVE  LInv'
<1>1. /\ c \notin DOMAIN rows
      /\ rows' = [d \in DOMAIN rows \cup {c} |->
                    IF d = c THEN Created(named, located) ELSE rows[d]]
      /\ due' = IF named \/ located THEN Append(due, c) ELSE due
      /\ UNCHANGED <<later, open, outrun>>
  BY DEF CreateCase
<1>2. due \in Seq(Cases) /\ Range(due) \subseteq DOMAIN rows /\ later \subseteq DOMAIN rows
  BY RangeOfSeq, SeqMonotonic DEF LInv, TypeOK
<1>3. Range(due') = IF named \/ located THEN Range(due) \cup {c} ELSE Range(due)
  BY <1>1, <1>2, Appended
<1>4. ASSUME NEW d \in DOMAIN rows PROVE Same(d)
  BY <1>1, <1>3, <1>4 DEF Same, Scheduled
<1>5. Placed(c)'
  BY <1>1, <1>2, <1>3 DEF Placed, Created, Scheduled
<1>6. \A d \in DOMAIN rows' : Placed(d)'
  BY <1>1, <1>4, <1>5, PlacedKept DEF LInv
<1>7. ASSUME NEW s \in Sessions' PROVE Sound(s)'
  <2>1. s \in Sessions
    BY <1>1, <1>7 DEF Sessions
  <2> QED
    BY <1>4, <2>1, OthersSound DEF Left
<1> QED
  BY <1>6, <1>7 DEF LInv

\* A new location sends the case back to the order, or takes it out.
LEMMA UpdatePlaced ==
  ASSUME LInv, NEW c \in Cases, NEW named \in BOOLEAN, NEW located \in BOOLEAN,
         UpdateLocation(c, named, located), TypeOK'
  PROVE  LInv'
<1> DEFINE there == rows[c].located \/ located
           waiting == Keep(due, Cases \ {c})
           status == IF there THEN "resolved" ELSE IF named THEN "pending" ELSE "not_requested"
<1>1. /\ c \in DOMAIN rows
      /\ rows' = [rows EXCEPT ![c].named = named, ![c].located = there, ![c].geocode = status]
      /\ due' = IF there \/ named THEN Append(waiting, c) ELSE waiting
      /\ later' = later \ {c}
      /\ open' = Overtaken(open, {c}, {}) /\ outrun' = outrun
  BY DEF UpdateLocation
<1>2. rows[c] \in Row /\ DOMAIN rows \subseteq Cases /\ later \subseteq DOMAIN rows
  BY <1>1 DEF LInv, TypeOK
<1>3. waiting \in Seq(DOMAIN rows) /\ Range(waiting) = Range(due) \ {c}
  <2>1. Range(due) \subseteq Cases
    BY RangeOfSeq DEF LInv, TypeOK
  <2> QED
    BY <2>1, Kept DEF LInv, TypeOK
<1>4. Range(due') = IF there \/ named THEN Range(due) \cup {c} ELSE Range(due) \ {c}
  <2> HIDE DEF waiting, there
  <2>1. Range(Append(waiting, c)) = Range(waiting) \cup {c}
    BY <1>1, <1>3, Appended
  <2> QED
    BY <1>1, <1>3, <2>1
<1>5. DOMAIN rows' = DOMAIN rows
  BY <1>1
<1>6. /\ rows'[c].named = named /\ rows'[c].located = there /\ rows'[c].geocode = status
      /\ Scheduled(c)' <=> (there \/ named)
  <2> HIDE DEF there, status
  <2>1. rows'[c] = [rows[c] EXCEPT !.named = named, !.located = there, !.geocode = status]
    BY <1>1 DEF LInv, TypeOK
  <2>2. Scheduled(c)' <=> (there \/ named)
    BY <1>1, <1>4 DEF Scheduled
  <2> QED
    BY <1>2, <2>1, <2>2 DEF Row
<1>7. ASSUME NEW d \in DOMAIN rows, d # c PROVE Same(d)
  <2>1. rows'[d] = rows[d]
    BY <1>1, <1>7
  <2>2. Scheduled(d)' <=> Scheduled(d)
    BY <1>1, <1>4, <1>7 DEF Scheduled
  <2> QED
    BY <1>1, <2>1, <2>2 DEF Same
<1>8. Placed(c)'
  BY <1>6 DEF Placed
<1>9. \A d \in DOMAIN rows' : Placed(d)'
  BY <1>5, <1>7, <1>8, PlacedKept DEF LInv
<1>10. ASSUME NEW old \in Row, NEW u \in BOOLEAN, NEW b, ReadAs(c, old, u, b)
       PROVE  ReadAs(c, old, u, TRUE)'
  <2>1. old.located \in BOOLEAN
    BY DEF Row
  <2>2. outrun'[c] = outrun[c]
    BY <1>1
  <2> QED
    BY <1>6, <1>10, <2>1, <2>2 DEF ReadAs
<1>11. ASSUME NEW t \in Sessions' PROVE Sound(t)'
  <2>1. PICK s \in Sessions : Outdated(s, t, {c}, {})
    <3>1. \A w \in Workers :
             \/ open[w] = Idle /\ open'[w] = Idle
             \/ /\ open[w] # Idle /\ IsSession(open[w]) /\ IsSession(open'[w])
                /\ Outdated(open[w], open'[w], {c}, {})
      BY <1>1, OvertakenIs DEF LInv, TypeOK
    <3> QED
      BY <1>11, <3>1 DEF Sessions
  <2>2. IsSession(s) /\ Sound(s) /\ Left(s, t) /\ DOMAIN s.loaded \subseteq DOMAIN rows
    BY <2>1, SessionsTyped DEF LInv, Left
  <2>3. ASSUME NEW d \in DOMAIN s.loaded PROVE Read(t, d)'
    <3>1. CASE d # c
      BY <1>7, <2>2, <2>3, <3>1, ReadKept DEF Sound
    <3>2. CASE d = c
      <4>1. s.loaded[c] \in Row /\ c \in t.behind
        BY <2>1, <2>2, <2>3, <3>2 DEF IsSession, Outdated
      <4>2. PICK u \in BOOLEAN : u <=> c \in s.unscheduled
        OBVIOUS
      <4>3. ReadAs(c, s.loaded[c], u, c \in s.behind)
        BY <2>2, <2>3, <3>2, <4>2 DEF Sound, Read, ReadAs
      <4>4. ReadAs(c, s.loaded[c], u, TRUE)'
        BY <1>10, <4>1, <4>3
      <4>5. t.loaded = s.loaded /\ (c \in t.unscheduled) = u /\ (c \in t.behind) = TRUE
        BY <2>2, <4>1, <4>2, LeftIs
      <4> QED
        BY <3>2, <4>4, <4>5 DEF Read, ReadAs
    <3> QED
      BY <3>1, <3>2
  <2> QED
    BY <2>2, <2>3, SoundKept
<1> QED
  BY <1>9, <1>11 DEF LInv

\* A session that starts reads what the rows say.
LEMMA StartPlaced ==
  ASSUME LInv, NEW w \in Workers, NEW kind, NEW batch, Starts(w, kind, batch), TypeOK'
  PROVE  LInv'
<1>0. PICK s : s = Loaded(kind, batch)
  OBVIOUS
<1>1. /\ batch \in Seq(DOMAIN rows) /\ IsInjective(batch)
      /\ open' = [open EXCEPT ![w] = s]
      /\ UNCHANGED <<rows, due, later, outrun>>
  BY <1>0 DEF Starts
<1>2. /\ s.todo = batch /\ s.loaded = [c \in Range(batch) |-> rows[c]] /\ s.mine = s.loaded
      /\ s.unscheduled = Range(batch) \ (Range(due) \cup later)
      /\ s.move = [c \in Range(batch) |-> "keep"] /\ s.behind = {}
  BY <1>0 DEF Loaded
<1>3. Range(batch) \subseteq DOMAIN rows
  BY <1>1, RangeOfSeq
<1>4. \A c : Same(c)
  BY <1>1 DEF Same, Scheduled
<1>5. ASSUME NEW c \in DOMAIN s.loaded PROVE Read(s, c)' /\ Staged(s, c)'
  <2>1. c \in Range(batch) /\ c \in DOMAIN rows /\ s.loaded[c] = rows[c] /\ s.mine[c] = rows[c]
        /\ s.move[c] = "keep"
    BY <1>2, <1>3, <1>5
  <2>2. (c \in s.unscheduled) <=> ~Scheduled(c)
    BY <1>2, <2>1 DEF Scheduled
  <2>3. Placed(c)
    BY <2>1 DEF LInv
  <2>5. Read(s, c)
    BY <1>2, <2>1, <2>2, <2>3 DEF Placed, ReadAs, Read
  <2>6. Staged(s, c)'
    BY <2>1 DEF Staged, StagedAs
  <2>7. Left(s, s)
    BY DEF Left
  <2> QED
    BY <1>4, <2>5, <2>6, <2>7, ReadKept
<1>6. Pending(s)'
  BY <1>1, <1>2 DEF Pending
<1>7. Sessions' \subseteq Sessions \cup {s}
  BY <1>1, OneSession DEF LInv
<1>8. Sound(s)'
  BY <1>5, <1>6 DEF Sound
<1> QED
  BY <1>1, <1>4, <1>7, <1>8, AllSame

\* What is found out about a location agrees with the row that was loaded.
LEMMA LookedStaged ==
  ASSUME NEW c, NEW old \in Row, NEW u \in BOOLEAN, ~old.named /\ ~old.located => u,
         NEW found, found = <<old, "keep">> \/ found \in Refreshed(c, old, u)
  PROVE  /\ StagedAs(old, found[1], found[2], u)
         /\ found[1].located => \A v \in Verdict :
                StagedAs(old, [found[1] EXCEPT !.verdict = v], "later", u)
         /\ found[2] # "later"
<1>1. StagedAs(old, found[1], found[2], u) /\ found[1] \in Row /\ found[2] # "later"
  <2>1. CASE found = <<old, "keep">>
    BY <2>1 DEF StagedAs
  <2>2. CASE found \in Refreshed(c, old, u) /\ old.located
    <3>1. found = <<[old EXCEPT !.geocode = "resolved"], IF u THEN "now" ELSE "keep">>
      BY <2>2 DEF Refreshed
    <3> QED
      BY <2>2, <3>1 DEF StagedAs, Row, GeocodeStatus
  <2>3. CASE found \in Refreshed(c, old, u) /\ ~old.located /\ ~old.named
    <3>1. found = <<[old EXCEPT !.geocode = "not_requested"], IF u THEN "keep" ELSE "null">>
      BY <2>3 DEF Refreshed, Unnamed
    <3> QED
      BY <2>3, <3>1 DEF StagedAs, Row, GeocodeStatus
  <2>4. CASE found \in Refreshed(c, old, u) /\ ~old.located /\ old.named
    <3>1. found \in Geocoded(c, old, u)
      BY <2>4 DEF Refreshed
    <3>2. CASE found = <<[old EXCEPT !.geocode = "failed"], "keep">>
      BY <2>4, <3>2 DEF StagedAs, Row, GeocodeStatus
    <3>3. CASE found = <<[old EXCEPT !.geocode = "manual_review"], IF u THEN "keep" ELSE "null">>
      BY <2>4, <3>3 DEF StagedAs, Row, GeocodeStatus
    <3>4. CASE found = <<[old EXCEPT !.geocode = "resolved", !.located = TRUE], "now">>
      BY <2>4, <3>4 DEF StagedAs, Row, GeocodeStatus
    <3> QED
      BY <3>1, <3>2, <3>3, <3>4 DEF Geocoded
  <2> QED
    BY <2>1, <2>2, <2>3, <2>4
<1> DEFINE row == found[1]
<1>2. ASSUME row.located, NEW v \in Verdict
      PROVE  StagedAs(old, [row EXCEPT !.verdict = v], "later", u)
  <2> HIDE DEF row
  <2>1. row \in Row /\ \E move : StagedAs(old, row, move, u)
    BY <1>1 DEF row
  <2>2. LET new == [row EXCEPT !.verdict = v]
        IN  new.located = row.located /\ new.geocode = row.geocode
    BY <2>1 DEF Row
  <2> QED
    BY <1>2, <2>1, <2>2 DEF StagedAs
<1> QED
  BY <1>1, <1>2

\* A session after a case: what it held and staged for the others is as before.
LEMMA HandledIs ==
  ASSUME NEW s, IsSession(s), s.todo # <<>>, Pending(s), NEW row, NEW move
  PROVE  LET h == Handled(s, row, move)
             c == Head(s.todo)
         IN  /\ h.loaded = s.loaded /\ h.unscheduled = s.unscheduled /\ h.raise = s.raise
             /\ h.resolve = s.resolve /\ h.kind = s.kind
             /\ h.behind = s.behind /\ h.late = s.late
             /\ c \in DOMAIN s.loaded /\ s.mine[c] = s.loaded[c] /\ s.move[c] = "keep"
             /\ h.mine[c] = row /\ h.move[c] = move
             /\ \A d \in DOMAIN s.loaded \ {c} : h.mine[d] = s.mine[d] /\ h.move[d] = s.move[d]
             /\ Pending(h)
<1> DEFINE h == Handled(s, row, move)
           c == Head(s.todo)
<1>1. /\ c \in DOMAIN s.loaded /\ c \in Range(s.todo) /\ Range(Tail(s.todo)) \subseteq Range(s.todo)
      /\ IsInjective(Tail(s.todo)) /\ c \notin Range(Tail(s.todo))
      /\ s.mine[c] = s.loaded[c] /\ s.move[c] = "keep" /\ Range(s.todo) \subseteq DOMAIN s.loaded
  BY HeadAndTail, RangeOfSeq DEF IsSession, Pending
<1>2. s.mine \in [DOMAIN s.loaded -> Row] /\ s.move \in [DOMAIN s.loaded -> Move]
  BY DEF IsSession
<1>3. /\ h.todo = Tail(s.todo)
      /\ h.mine = [s.mine EXCEPT ![c] = row] /\ h.move = [s.move EXCEPT ![c] = move]
      /\ h.kind = s.kind /\ h.loaded = s.loaded /\ h.unscheduled = s.unscheduled
      /\ h.raise = s.raise /\ h.resolve = s.resolve
      /\ h.behind = s.behind /\ h.late = s.late
  BY DEF Handled, IsSession
<1> HIDE DEF h, c
<1>4. /\ h.mine[c] = row /\ h.move[c] = move
      /\ \A d \in DOMAIN s.loaded \ {c} : h.mine[d] = s.mine[d] /\ h.move[d] = s.move[d]
  BY <1>1, <1>2, <1>3
<1>5. Pending(h)
  BY <1>1, <1>3, <1>4 DEF Pending
<1> QED
  BY <1>1, <1>3, <1>4, <1>5 DEF h, c

\* The same when the case was assessed.
LEMMA AssessedIs ==
  ASSUME NEW s, IsSession(s), s.todo # <<>>, Pending(s), NEW row, NEW v,
         NEW h, h = Assessed(s, row, v), NEW x
  PROVE  LET c == Head(s.todo)
             u == [h EXCEPT !.raise = x]
             r == [h EXCEPT !.resolve = x]
         IN  /\ h.raise = s.raise /\ h.resolve = s.resolve
             /\ h.behind = s.behind /\ h.late = s.late
             /\ h.loaded = s.loaded /\ h.unscheduled = s.unscheduled
             /\ c \in DOMAIN s.loaded /\ s.mine[c] = s.loaded[c] /\ s.move[c] = "keep"
             /\ h.mine[c] = [row EXCEPT !.verdict = v] /\ h.move[c] = "later"
             /\ \A d \in DOMAIN s.loaded \ {c} : h.mine[d] = s.mine[d] /\ h.move[d] = s.move[d]
             /\ Pending(h)
             /\ u.raise = x /\ u.resolve = h.resolve /\ u.loaded = h.loaded /\ u.todo = h.todo
             /\ u.unscheduled = h.unscheduled /\ u.mine = h.mine /\ u.move = h.move
             /\ u.behind = h.behind /\ u.late = h.late
             /\ r.resolve = x /\ r.raise = h.raise /\ r.loaded = h.loaded /\ r.todo = h.todo
             /\ r.unscheduled = h.unscheduled /\ r.mine = h.mine /\ r.move = h.move
             /\ r.behind = h.behind /\ r.late = h.late
<1> DEFINE c == Head(s.todo)
<1>1. /\ h.loaded = s.loaded /\ h.unscheduled = s.unscheduled /\ h.raise = s.raise
      /\ h.resolve = s.resolve /\ h.behind = s.behind /\ h.late = s.late
      /\ c \in DOMAIN s.loaded /\ s.mine[c] = s.loaded[c] /\ s.move[c] = "keep"
      /\ h.mine[c] = [row EXCEPT !.verdict = v] /\ h.move[c] = "later"
      /\ \A d \in DOMAIN s.loaded \ {c} : h.mine[d] = s.mine[d] /\ h.move[d] = s.move[d]
      /\ Pending(h)
  BY HandledIs DEF Assessed
<1>2. DOMAIN h = {"kind", "todo", "loaded", "mine", "unscheduled", "move", "raise", "resolve",
                  "behind", "late"}
  BY DEF Assessed, Handled, IsSession
<1> QED
  BY <1>1, <1>2

\* What becomes of a session with one more case behind it.
Turned(s, u, found) ==
    LET c == Head(s.todo)
    IN  /\ u.loaded = s.loaded /\ u.unscheduled = s.unscheduled
        /\ u.behind = s.behind /\ u.late = s.late
        /\ c \in DOMAIN s.loaded /\ s.mine[c] = s.loaded[c] /\ s.move[c] = "keep"
        /\ \A d \in DOMAIN s.loaded \ {c} : u.mine[d] = s.mine[d] /\ u.move[d] = s.move[d]
        /\ Pending(u)
        /\ \/ /\ u.mine[c] = found[1] /\ u.move[c] = found[2]
              /\ u.raise = s.raise /\ u.resolve = s.resolve
           \/ /\ found[1].located /\ u.move[c] = "later"
              /\ u.mine[c] = [found[1] EXCEPT !.verdict = "danger"]
              /\ u.raise = IF Active(c) = {} THEN s.raise \cup {c} ELSE s.raise
              /\ u.resolve = s.resolve
           \/ /\ found[1].located /\ u.move[c] = "later"
              /\ u.mine[c] = [found[1] EXCEPT !.verdict = "calm"]
              /\ u.raise = s.raise
              /\ \E chosen : /\ u.resolve = s.resolve \cup chosen
                             /\ Active(c) # {} => \E n \in Active(c) : chosen = {n}

\* What handles a case makes a session turn so.
LEMMA TurnedIs ==
  ASSUME NEW s, IsSession(s), s.todo # <<>>, Pending(s), NEW found, NEW u,
         Advanced(s, found, u), u # Idle
  PROVE  Turned(s, u, found)
<1> DEFINE c == Head(s.todo)
<1>1. CASE u = Handled(s, found[1], found[2])
  BY <1>1, HandledIs DEF Turned
<1>2. CASE found[1].located /\ u = Endangered(s, found[1])
  <2>1. PICK h : h = Assessed(s, found[1], "danger")
    OBVIOUS
  <2>2. PICK x : x = IF Active(c) = {} THEN h.raise \cup {c} ELSE h.raise
    OBVIOUS
  <2>3. u = [h EXCEPT !.raise = x]
    BY <1>2, <2>1, <2>2 DEF Endangered
  <2>4. /\ h.raise = s.raise /\ h.resolve = s.resolve /\ h.behind = s.behind /\ h.late = s.late
        /\ h.loaded = s.loaded /\ h.unscheduled = s.unscheduled
        /\ c \in DOMAIN s.loaded /\ s.mine[c] = s.loaded[c] /\ s.move[c] = "keep"
        /\ h.mine[c] = [found[1] EXCEPT !.verdict = "danger"] /\ h.move[c] = "later"
        /\ \A d \in DOMAIN s.loaded \ {c} : h.mine[d] = s.mine[d] /\ h.move[d] = s.move[d]
        /\ Pending(h)
    BY <2>1, AssessedIs
  <2>5. /\ u.raise = x /\ u.resolve = h.resolve /\ u.loaded = h.loaded /\ u.todo = h.todo
        /\ u.unscheduled = h.unscheduled /\ u.mine = h.mine /\ u.move = h.move
        /\ u.behind = h.behind /\ u.late = h.late
    BY <2>1, <2>3, AssessedIs
  <2>6. Pending(u)
    BY <2>4, <2>5 DEF Pending
  <2>7. /\ u.mine[c] = [found[1] EXCEPT !.verdict = "danger"] /\ u.move[c] = "later"
        /\ u.raise = IF Active(c) = {} THEN s.raise \cup {c} ELSE s.raise
        /\ u.resolve = s.resolve
    BY <2>2, <2>4, <2>5
  <2>8. /\ u.loaded = s.loaded /\ u.unscheduled = s.unscheduled
        /\ u.behind = s.behind /\ u.late = s.late
        /\ \A d \in DOMAIN s.loaded \ {c} : u.mine[d] = s.mine[d] /\ u.move[d] = s.move[d]
    BY <2>4, <2>5
  <2> HIDE DEF c
  <2> QED
    BY <1>2, <2>4, <2>6, <2>7, <2>8 DEF Turned, c
<1>3. CASE found[1].located /\ u \in Calmed(s, found[1])
  <2>1. PICK h : h = Assessed(s, found[1], "calm")
    OBVIOUS
  <2>2. PICK chosen \in IF Active(c) = {} THEN {{}} ELSE {{n} : n \in Active(c)} :
          u = [h EXCEPT !.resolve = h.resolve \cup chosen]
    BY <1>3, <2>1 DEF Calmed
  <2>3. PICK x : x = h.resolve \cup chosen
    OBVIOUS
  <2>4. /\ h.raise = s.raise /\ h.resolve = s.resolve /\ h.behind = s.behind /\ h.late = s.late
        /\ h.loaded = s.loaded /\ h.unscheduled = s.unscheduled
        /\ c \in DOMAIN s.loaded /\ s.mine[c] = s.loaded[c] /\ s.move[c] = "keep"
        /\ h.mine[c] = [found[1] EXCEPT !.verdict = "calm"] /\ h.move[c] = "later"
        /\ \A d \in DOMAIN s.loaded \ {c} : h.mine[d] = s.mine[d] /\ h.move[d] = s.move[d]
        /\ Pending(h)
    BY <2>1, AssessedIs
  <2>5. /\ u.resolve = x /\ u.raise = h.raise /\ u.loaded = h.loaded /\ u.todo = h.todo
        /\ u.unscheduled = h.unscheduled /\ u.mine = h.mine /\ u.move = h.move
        /\ u.behind = h.behind /\ u.late = h.late
    BY <2>1, <2>2, <2>3, AssessedIs
  <2>6. Pending(u)
    BY <2>4, <2>5 DEF Pending
  <2>7. Active(c) # {} => \E n \in Active(c) : chosen = {n}
    BY <2>2
  <2> QED
    BY <1>3, <2>3, <2>4, <2>5, <2>6, <2>7 DEF Turned
<1> QED
  BY <1>1, <1>2, <1>3 DEF Advanced

\* What a session stages for a case agrees with what it loaded.
LEMMA AdvancePlaced ==
  ASSUME LInv, NEW w \in Workers, NEW found, NEW u, Advances(w, found, u), TypeOK'
  PROVE  LInv'
<1>0. PICK s : s = open[w]
  OBVIOUS
<1> DEFINE c == Head(s.todo)
           old == s.loaded[c]
<1>1. /\ s # Idle /\ s.todo # <<>> /\ Looked(s, found) /\ Advanced(s, found, u)
      /\ open' = [open EXCEPT ![w] = u]
      /\ UNCHANGED <<rows, due, later, outrun>>
  BY <1>0 DEF Advances
<1>2. Sessions' \subseteq Sessions \cup ({u} \ {Idle}) /\ s \in Sessions
  BY <1>0, <1>1, OneSession DEF LInv, Sessions
<1>3. /\ IsSession(s) /\ Pending(s)
      /\ \A d \in DOMAIN s.loaded : d \in DOMAIN rows /\ Read(s, d) /\ Staged(s, d)
  BY <1>2, SessionsTyped DEF LInv, Sound
<1>4. \A d : Same(d)
  BY <1>1 DEF Same, Scheduled
<1>5. ASSUME u # Idle PROVE Sound(u)'
  <2>1. Turned(s, u, found)
    BY <1>1, <1>3, <1>5, TurnedIs
  <2>2. /\ u.loaded = s.loaded /\ u.unscheduled = s.unscheduled /\ u.behind = s.behind
        /\ Pending(u)
        /\ c \in DOMAIN s.loaded /\ s.mine[c] = old
        /\ \A d \in DOMAIN s.loaded \ {c} : u.mine[d] = s.mine[d] /\ u.move[d] = s.move[d]
        /\ \/ u.mine[c] = found[1] /\ u.move[c] = found[2]
           \/ /\ found[1].located /\ u.move[c] = "later"
              /\ \E v \in {"danger", "calm"} : u.mine[c] = [found[1] EXCEPT !.verdict = v]
    BY <2>1 DEF Turned
  <2>3. PICK b \in BOOLEAN : b <=> c \in s.unscheduled
    OBVIOUS
  <2>4. old \in Row /\ (~old.named /\ ~old.located => b)
    BY <1>3, <2>2, <2>3 DEF IsSession, Read, ReadAs
  <2>5. found = <<old, "keep">> \/ found \in Refreshed(c, old, c \in s.unscheduled)
    BY <1>1, <2>2 DEF Looked
  <2>6. (c \in s.unscheduled) = b
    BY <2>3
  <2> HIDE DEF old, c
  <2>7. /\ StagedAs(old, found[1], found[2], b)
        /\ found[1].located => \A v \in Verdict :
                StagedAs(old, [found[1] EXCEPT !.verdict = v], "later", b)
    BY <2>4, <2>5, <2>6, LookedStaged
  <2>8. StagedAs(old, u.mine[c], u.move[c], b)
    BY <2>2, <2>7 DEF Verdict
  <2>9. Staged(u, c)
    BY <2>2, <2>3, <2>8 DEF Staged, StagedAs, old
  <2>10. ASSUME NEW d \in DOMAIN u.loaded PROVE Read(u, d) /\ Staged(u, d)
    <3>1. Read(u, d)
      BY <1>3, <2>2, <2>10 DEF Read, ReadAs
    <3>2. CASE d = c
      BY <2>9, <3>1, <3>2
    <3>3. CASE d # c
      <4>1. /\ d \in DOMAIN s.loaded \ {c} /\ u.mine[d] = s.mine[d] /\ u.move[d] = s.move[d]
            /\ Staged(s, d)
        BY <1>3, <2>2, <2>10, <3>3
      <4> QED
        BY <2>2, <3>1, <4>1 DEF Staged, StagedAs
    <3> QED
      BY <3>2, <3>3
  <2>11. (Pending(u) <=> Pending(u)') /\ \A d : Staged(u, d) <=> Staged(u, d)'
    BY DEF Pending, Staged, StagedAs
  <2>12. Left(u, u)
    BY DEF Left
  <2>13. \A d \in DOMAIN u.loaded : Read(u, d)'
    BY <1>4, <2>10, <2>12, ReadKept
  <2> QED
    BY <2>2, <2>10, <2>11, <2>13 DEF Sound
<1> QED
  BY <1>1, <1>2, <1>4, <1>5, AllSame

\* What a commit makes of a case: the columns that the session changed are its own,
\* the others are those of the database, and the check has moved as it staged.
LEMMA MergedIs ==
  ASSUME NEW now \in Row, NEW old \in Row, NEW new \in Row, NEW b \in BOOLEAN
  PROVE  LET row == MergeRow(now, old, new, b)
         IN  /\ row.geocode = IF new.geocode # old.geocode THEN new.geocode ELSE now.geocode
             /\ row.located = IF new.located # old.located THEN new.located ELSE now.located
             /\ row.named = now.named /\ row.active = now.active
             /\ row.verdict = IF b THEN new.verdict ELSE now.verdict
  BY DEF MergeRow, Flushed, Row

\* A case that a session read, staged and commits is placed again.
LEMMA CommitPlaces ==
  ASSUME NEW c, Placed(c), NEW old \in Row, NEW new \in Row, rows[c] \in Row,
         NEW move \in Move, NEW u \in BOOLEAN, NEW b \in BOOLEAN,
         ReadAs(c, old, u, b), StagedAs(old, new, move, u),
         rows'[c].geocode = IF new.geocode # old.geocode THEN new.geocode ELSE rows[c].geocode,
         rows'[c].located = IF new.located # old.located THEN new.located ELSE rows[c].located,
         rows'[c].named = rows[c].named,
         outrun[c] \in 0 .. 2,
         outrun'[c] = IF b /\ (new # old \/ move # "keep") /\ outrun[c] < 2
                      THEN outrun[c] + 1 ELSE outrun[c],
         Scheduled(c)' <=> (move \in {"now", "later"} \/ (move = "keep" /\ Scheduled(c)))
  PROVE  Placed(c)'
<1>0. /\ old.located \in BOOLEAN /\ new.located \in BOOLEAN /\ rows[c].located \in BOOLEAN
      /\ rows[c].named \in BOOLEAN
      /\ old.geocode \in GeocodeStatus /\ new.geocode \in GeocodeStatus
      /\ rows[c].geocode \in GeocodeStatus
  BY DEF Row
<1>1. CASE new = old /\ move = "keep"
  BY <1>1 DEF Placed
<1>2. ~rows'[c].named /\ ~rows'[c].located => ~Scheduled(c)'
  BY <1>0 DEF ReadAs, StagedAs, Placed, Move
<1>3. rows'[c].geocode = "resolved" => rows'[c].located
  BY <1>0 DEF ReadAs, StagedAs, Placed, Move
<1>4. CASE b /\ (new # old \/ move # "keep")
  <2>1. outrun'[c] # 0 /\ (outrun'[c] < 2 => outrun[c] = 0)
    BY <1>4
  <2>2. ASSUME rows'[c].geocode = "resolved", outrun[c] = 0 PROVE Scheduled(c)'
    <3>1. CASE new.geocode # old.geocode
      BY <1>0, <2>2, <3>1 DEF ReadAs, StagedAs, Move
    <3>2. CASE new.geocode = old.geocode
      <4>1. rows[c].geocode = "resolved" /\ Scheduled(c)
        BY <2>2, <3>2 DEF Placed
      <4>2. move # "null"
        BY <2>2, <3>2 DEF ReadAs, StagedAs
      <4> QED
        BY <4>1, <4>2 DEF Move
    <3> QED
      BY <3>1, <3>2
  <2> QED
    BY <1>2, <1>3, <2>1, <2>2 DEF Placed
<1>5. CASE ~b
  <2>1. outrun'[c] = outrun[c]
    BY <1>5
  <2>2. rows[c].located = old.located /\ rows[c].geocode = old.geocode /\ (u <=> ~Scheduled(c))
    BY <1>5 DEF ReadAs
  <2>3. rows'[c].located = new.located /\ rows'[c].geocode = new.geocode
    BY <2>2
  <2>4. new.geocode = "resolved" /\ outrun[c] < 2 => Scheduled(c)'
    BY <1>0, <2>2 DEF Placed, StagedAs, Move
  <2>5. new.geocode = "manual_review" /\ outrun[c] = 0 => ~new.located /\ ~Scheduled(c)'
    BY <1>0, <2>2 DEF Placed, StagedAs, Move
  <2>6. new.geocode = "pending" /\ outrun[c] = 0 => Scheduled(c)'
    BY <1>0, <2>2 DEF Placed, StagedAs, Move
  <2> QED
    BY <1>2, <1>3, <2>1, <2>3, <2>4, <2>5, <2>6 DEF Placed
<1> QED
  BY <1>1, <1>4, <1>5

\* What a commit does to a case that its session loaded, and to one that it did not
\* write.
LEMMA CommitTo ==
  ASSUME LInv, NEW s \in Sessions, Commits(s), NEW c \in DOMAIN rows
  PROVE  /\ c \notin Written(s) => Same(c)
         /\ c \in DOMAIN s.loaded =>
              /\ s.loaded[c] \in Row /\ s.mine[c] \in Row /\ s.move[c] \in Move
              /\ c \in Written(s) <=> s.mine[c] # s.loaded[c] \/ s.move[c] # "keep"
              /\ rows'[c].geocode = IF s.mine[c].geocode # s.loaded[c].geocode
                                    THEN s.mine[c].geocode ELSE rows[c].geocode
              /\ rows'[c].located = IF s.mine[c].located # s.loaded[c].located
                                    THEN s.mine[c].located ELSE rows[c].located
              /\ rows'[c].named = rows[c].named
              /\ Scheduled(c)' <=> \/ s.move[c] \in {"now", "later"}
                                   \/ s.move[c] = "keep" /\ Scheduled(c)
         /\ outrun[c] \in 0 .. 2
         /\ outrun'[c] = IF c \in Written(s) \cap s.behind /\ outrun[c] < 2
                         THEN outrun[c] + 1 ELSE outrun[c]
<1>1. /\ IsSession(s) /\ rows[c] \in Row /\ c \in Cases /\ outrun[c] \in 0 .. 2
      /\ DOMAIN s.mine = DOMAIN s.loaded /\ DOMAIN s.move = DOMAIN s.loaded
  BY SessionsTyped DEF LInv, TypeOK, IsSession
<1>2. /\ rows'[c] = Merged(s, c)
      /\ Range(due') = (Range(due) \ Moved(s)) \cup Sent(s, "now")
      /\ later' = (later \ Moved(s)) \cup Sent(s, "later")
      /\ outrun'[c] = IF c \in Written(s) \cap s.behind /\ outrun[c] < 2
                      THEN outrun[c] + 1 ELSE outrun[c]
  BY <1>1 DEF Commits
<1>3. ASSUME c \in DOMAIN s.loaded
      PROVE  /\ s.loaded[c] \in Row /\ s.mine[c] \in Row /\ s.move[c] \in Move
             /\ c \in Written(s) <=> s.mine[c] # s.loaded[c] \/ s.move[c] # "keep"
             /\ rows'[c].geocode = IF s.mine[c].geocode # s.loaded[c].geocode
                                   THEN s.mine[c].geocode ELSE rows[c].geocode
             /\ rows'[c].located = IF s.mine[c].located # s.loaded[c].located
                                   THEN s.mine[c].located ELSE rows[c].located
             /\ rows'[c].named = rows[c].named
             /\ Scheduled(c)' <=> \/ s.move[c] \in {"now", "later"}
                                  \/ s.move[c] = "keep" /\ Scheduled(c)
  <2> DEFINE old == s.loaded[c]
             new == s.mine[c]
  <2>1. old \in Row /\ new \in Row /\ s.move[c] \in Move
    BY <1>1, <1>3 DEF IsSession
  <2>2. PICK b \in BOOLEAN : b = (s.move[c] = "later")
    OBVIOUS
  <2>3. rows'[c] = MergeRow(rows[c], old, new, b)
    BY <1>1, <1>2, <1>3, <2>2 DEF Merged
  <2>4. c \in Written(s) <=> new # old \/ s.move[c] # "keep"
    BY <1>3 DEF Written
  <2>5. Scheduled(c)' <=> s.move[c] \in {"now", "later"} \/ (s.move[c] = "keep" /\ Scheduled(c))
    BY <1>1, <1>2, <1>3, <2>1 DEF Scheduled, Moved, Sent, Move
  <2> HIDE DEF old, new
  <2>6. /\ rows'[c].geocode = IF new.geocode # old.geocode THEN new.geocode ELSE rows[c].geocode
        /\ rows'[c].located = IF new.located # old.located THEN new.located ELSE rows[c].located
        /\ rows'[c].named = rows[c].named
    BY <1>1, <2>1, <2>3, MergedIs
  <2> QED
    BY <2>1, <2>4, <2>5, <2>6 DEF old, new
<1>4. ASSUME c \notin Written(s) PROVE Same(c)
  <2>1. CASE c \notin DOMAIN s.loaded
    <3>1. rows'[c] = rows[c] /\ (Scheduled(c)' <=> Scheduled(c))
      BY <1>1, <1>2, <2>1 DEF Merged, Scheduled, Moved, Sent
    <3> QED
      BY <1>2, <1>4, <3>1 DEF Same
  <2>2. CASE c \in DOMAIN s.loaded
    <3>1. s.mine[c] = s.loaded[c] /\ s.move[c] = "keep"
      BY <1>3, <1>4, <2>2
    <3> QED
      BY <1>2, <1>3, <1>4, <2>2, <3>1 DEF Same
  <2> QED
    BY <2>1, <2>2
<1> QED
  BY <1>1, <1>2, <1>3, <1>4

\* What another session read of a case still holds after a commit wrote the case.
LEMMA OutdatedRead ==
  ASSUME NEW c, NEW a, NEW v, NEW d, ReadAs(c, a, v, d),
         NEW old \in Row, NEW new \in Row, NEW move \in Move, NEW u \in BOOLEAN, NEW b \in BOOLEAN,
         rows[c] \in Row, a \in Row, v \in BOOLEAN,
         ReadAs(c, old, u, b), StagedAs(old, new, move, u), new # old \/ move # "keep",
         rows'[c].located = IF new.located # old.located THEN new.located ELSE rows[c].located,
         outrun[c] \in 0 .. 2,
         outrun'[c] = IF b /\ outrun[c] < 2 THEN outrun[c] + 1 ELSE outrun[c],
         Scheduled(c)' <=> (move \in {"now", "later"} \/ (move = "keep" /\ Scheduled(c)))
  PROVE  ReadAs(c, a, v, TRUE)'
<1>0. /\ old.located \in BOOLEAN /\ new.located \in BOOLEAN /\ rows[c].located \in BOOLEAN
      /\ a.located \in BOOLEAN
  BY DEF Row
<1>1. a.located => rows'[c].located
  BY <1>0 DEF ReadAs, StagedAs
<1>2. outrun'[c] = 0 => outrun[c] = 0 /\ ~b
  OBVIOUS
<1>3. ASSUME a.located, ~v, outrun'[c] = 0 PROVE Scheduled(c)'
  <2>1. Scheduled(c) /\ rows[c].located /\ old.located
    BY <1>0, <1>2, <1>3 DEF ReadAs
  <2>2. move # "null"
    BY <1>0, <2>1 DEF StagedAs
  <2> QED
    BY <2>1, <2>2 DEF Move
<1>4. /\ a.geocode = "resolved" => a.located
      /\ ~a.named /\ ~a.located => v
      /\ outrun'[c] = 0 /\ a.geocode = "manual_review" => v /\ ~a.located
      /\ outrun'[c] = 0 /\ a.geocode \in {"pending", "resolved"} => ~v
  BY <1>2 DEF ReadAs
<1> QED
  BY <1>1, <1>3, <1>4 DEF ReadAs

\* A commit places every case again, and leaves the other sessions sound.
LEMMA CommitPlaced ==
  ASSUME LInv, NEW w \in Workers, Commit(w), TypeOK'
  PROVE  LInv'
<1>0. PICK s : s = open[w]
  OBVIOUS
<1>1. Commits(s) /\ Leaves(w, s) /\ s \in Sessions
  BY <1>0, CommitIs DEF LInv, Commits, Sessions
<1>2. /\ IsSession(s) /\ DOMAIN rows' = DOMAIN rows
      /\ \A c \in DOMAIN s.loaded : Read(s, c) /\ Staged(s, c)
  BY <1>1, SessionsTyped DEF LInv, Sound, Commits
<1>3. ASSUME NEW c \in DOMAIN s.loaded, c \in DOMAIN rows
      PROVE  \E u, b \in BOOLEAN :
                /\ b <=> c \in s.behind
                /\ ReadAs(c, s.loaded[c], u, b) /\ StagedAs(s.loaded[c], s.mine[c], s.move[c], u)
  <2>1. PICK u \in BOOLEAN : u <=> c \in s.unscheduled
    OBVIOUS
  <2>2. PICK b \in BOOLEAN : b <=> c \in s.behind
    OBVIOUS
  <2>3. ReadAs(c, s.loaded[c], u, b)
    BY <1>2, <1>3, <2>1, <2>2 DEF Read, ReadAs
  <2>4. StagedAs(s.loaded[c], s.mine[c], s.move[c], u)
    BY <1>2, <1>3, <2>1 DEF Staged, StagedAs
  <2> QED
    BY <2>2, <2>3, <2>4
<1>4. ASSUME NEW c \in DOMAIN rows PROVE Placed(c)'
  <2>1. Placed(c) /\ rows[c] \in Row
    BY DEF LInv, TypeOK
  <2>2. CASE c \notin Written(s)
    BY <1>1, <2>1, <2>2, CommitTo, PlacedKept
  <2>3. CASE c \in Written(s)
    <3>1. c \in DOMAIN s.loaded
      BY <2>3 DEF Written
    <3>2. PICK u, b \in BOOLEAN :
             /\ b <=> c \in s.behind
             /\ ReadAs(c, s.loaded[c], u, b) /\ StagedAs(s.loaded[c], s.mine[c], s.move[c], u)
      BY <1>3, <1>4, <3>1
    <3>3. PICK old, new, move : old = s.loaded[c] /\ new = s.mine[c] /\ move = s.move[c]
      OBVIOUS
    <3>4. /\ old \in Row /\ new \in Row /\ move \in Move
          /\ new # old \/ move # "keep"
          /\ rows'[c].geocode = IF new.geocode # old.geocode THEN new.geocode ELSE rows[c].geocode
          /\ rows'[c].located = IF new.located # old.located THEN new.located ELSE rows[c].located
          /\ rows'[c].named = rows[c].named
          /\ Scheduled(c)' <=> (move \in {"now", "later"} \/ (move = "keep" /\ Scheduled(c)))
      BY <1>1, <1>4, <2>3, <3>1, <3>3, CommitTo
    <3>5. /\ outrun[c] \in 0 .. 2
          /\ outrun'[c] = IF b /\ (new # old \/ move # "keep") /\ outrun[c] < 2
                          THEN outrun[c] + 1 ELSE outrun[c]
      BY <1>1, <1>4, <2>3, <3>2, <3>4, CommitTo
    <3>6. ReadAs(c, old, u, b) /\ StagedAs(old, new, move, u)
      BY <3>2, <3>3
    <3> QED
      BY <2>1, <3>4, <3>5, <3>6, CommitPlaces
  <2> QED
    BY <2>2, <2>3
<1>5. ASSUME NEW t \in Sessions' PROVE Sound(t)'
  <2>1. PICK r \in Sessions : Outdated(r, t, Written(s), Sent(s, "later"))
    <3>1. \A v \in Workers :
             \/ open'[v] = Idle
             \/ /\ v # w /\ open[v] # Idle /\ IsSession(open[v]) /\ IsSession(open'[v])
                /\ Outdated(open[v], open'[v], Written(s), Sent(s, "later"))
      BY <1>1, OthersAfter DEF LInv
    <3> QED
      BY <1>5, <3>1 DEF Sessions
  <2>2. Left(r, t) /\ IsSession(r) /\ Sound(r) /\ DOMAIN r.loaded \subseteq DOMAIN rows
    BY <2>1, SessionsTyped DEF LInv, Left
  <2>3. ASSUME NEW c \in DOMAIN r.loaded PROVE Read(t, c)'
    <3>1. CASE c \notin Written(s)
      BY <1>1, <2>2, <2>3, <3>1, CommitTo, ReadKept DEF Sound
    <3>2. CASE c \in Written(s)
      <4>1. c \in DOMAIN s.loaded /\ c \in DOMAIN rows /\ rows[c] \in Row
        BY <2>2, <2>3, <3>2 DEF Written, LInv, TypeOK
      <4>2. PICK u, b \in BOOLEAN :
               /\ b <=> c \in s.behind
               /\ ReadAs(c, s.loaded[c], u, b) /\ StagedAs(s.loaded[c], s.mine[c], s.move[c], u)
        BY <1>3, <4>1
      <4>3. PICK old, new, move : old = s.loaded[c] /\ new = s.mine[c] /\ move = s.move[c]
        OBVIOUS
      <4>4. /\ old \in Row /\ new \in Row /\ move \in Move
            /\ new # old \/ move # "keep"
            /\ rows'[c].located = IF new.located # old.located THEN new.located ELSE rows[c].located
            /\ Scheduled(c)' <=> (move \in {"now", "later"} \/ (move = "keep" /\ Scheduled(c)))
            /\ outrun[c] \in 0 .. 2
        BY <1>1, <3>2, <4>1, <4>3, CommitTo
      <4>5. outrun'[c] = IF b /\ outrun[c] < 2 THEN outrun[c] + 1 ELSE outrun[c]
        BY <1>1, <3>2, <4>1, <4>2, CommitTo
      <4>6. PICK a : a = r.loaded[c]
        OBVIOUS
      <4>7. PICK v \in BOOLEAN : v <=> c \in r.unscheduled
        OBVIOUS
      <4>8. PICK d \in BOOLEAN : d <=> c \in r.behind
        OBVIOUS
      <4>9. a \in Row /\ ReadAs(c, a, v, d)
        BY <2>2, <2>3, <4>6, <4>7, <4>8 DEF IsSession, Sound, Read, ReadAs
      <4>10. ReadAs(c, old, u, b) /\ StagedAs(old, new, move, u)
        BY <4>2, <4>3
      <4>11. ReadAs(c, a, v, TRUE)'
        BY <4>1, <4>4, <4>5, <4>9, <4>10, OutdatedRead
      <4>12. t.loaded[c] = a /\ (c \in t.unscheduled <=> v) /\ c \in t.behind
        BY <2>1, <2>3, <3>2, <4>6, <4>7 DEF Outdated
      <4> QED
        BY <4>11, <4>12 DEF Read, ReadAs
    <3> QED
      BY <3>1, <3>2
  <2> QED
    BY <2>2, <2>3, SoundKept
<1> QED
  BY <1>2, <1>4, <1>5 DEF LInv

\* Every step keeps the invariant about locations.
LEMMA NextPlaced == LInv /\ [Next]_vars => LInv'
<1> SUFFICES ASSUME LInv, [Next]_vars PROVE LInv'
  OBVIOUS
<1>0. TypeOK /\ TypeOK'
  BY NextTyped DEF LInv
<1>1. ASSUME NEW c \in Cases, NEW named \in BOOLEAN, NEW located \in BOOLEAN,
             CreateCase(c, named, located) \/ UpdateLocation(c, named, located)
      PROVE  LInv'
  BY <1>0, <1>1, CreatePlaced, UpdatePlaced
<1>2. ASSUME UNCHANGED <<rows, due, later, open, outrun>> PROVE LInv'
  <2>1. (\A c : Same(c)) /\ Sessions' = Sessions
    BY <1>2 DEF Same, Scheduled, Sessions
  <2> QED
    BY <1>0, <1>2, <2>1, AllSame
<1>3. ASSUME NEW c \in Cases, ChangeStatus(c) PROVE LInv'
  <2>1. /\ c \in DOMAIN rows /\ rows' = [rows EXCEPT ![c].active = ~@]
        /\ UNCHANGED <<due, later, open, outrun>>
    BY <1>3 DEF ChangeStatus
  <2>2. rows[c] \in Row
    BY <1>0, <2>1 DEF TypeOK
  <2>3. Same(c)
    <3>1. rows'[c] = [rows[c] EXCEPT !.active = ~rows[c].active]
      BY <1>0, <2>1 DEF TypeOK
    <3> QED
      BY <2>1, <2>2, <3>1 DEF Same, Scheduled, Row
  <2>4. \A d \in DOMAIN rows \ {c} : Same(d)
    BY <2>1 DEF Same, Scheduled
  <2>5. DOMAIN rows' = DOMAIN rows /\ Sessions' = Sessions
    BY <2>1 DEF Sessions
  <2> QED
    BY <1>0, <2>1, <2>3, <2>4, <2>5, AllSame
<1>4. ASSUME \/ \E n \in AlertIds : ResolveAlert(n) \/ ActivateAlert(n)
             \/ \E c \in Cases : RaiseAlert(c) \/ MoveSimulation(c)
      PROVE  LInv'
  BY <1>2, <1>4 DEF ResolveAlert, ActivateAlert, RaiseAlert, MoveSimulation
<1>5. ASSUME NEW w \in Workers,
             StartScan(w) \/ \E c \in Cases : StartRun(w, c) \/ StartRefresh(w, c)
      PROVE  LInv'
  BY <1>0, <1>5, StartIs, StartPlaced
<1>6. ASSUME NEW w \in Workers, Refresh(w) \/ Assess(w) \/ AssessFails(w) PROVE LInv'
  BY <1>0, <1>6, AdvanceIs, AdvancePlaced
<1>7. ASSUME NEW w \in Workers, Commit(w) PROVE LInv'
  BY <1>0, <1>7, CommitPlaced
<1>8. ASSUME NEW w \in Workers, Lose(w) PROVE LInv'
  <2>1. /\ open' = [open EXCEPT ![w] = Idle] /\ UNCHANGED <<rows, due, later, outrun>>
    BY <1>8 DEF Lose
  <2>2. Sessions' \subseteq Sessions
    BY <1>0, <2>1, OneSession
  <2>3. \A c : Same(c)
    BY <2>1 DEF Same, Scheduled
  <2> QED
    BY <1>0, <2>1, <2>2, <2>3, AllSame
<1>9. ASSUME NEW c \in Cases, ComeDue(c) PROVE LInv'
  <2>1. /\ c \in later /\ later' = later \ {c} /\ due' = Append(due, c)
        /\ UNCHANGED <<rows, open, outrun>>
    BY <1>9 DEF ComeDue
  <2>2. Range(due') = Range(due) \cup {c}
    BY <1>0, <2>1, Appended DEF TypeOK
  <2>3. (\A d : Same(d)) /\ Sessions' = Sessions
    BY <2>1, <2>2 DEF Same, Scheduled, Sessions
  <2> QED
    BY <1>0, <2>1, <2>3, AllSame
<1>10. ASSUME Staff PROVE LInv'
  BY <1>1, <1>3, <1>4, <1>5, <1>10 DEF Staff
<1>11. ASSUME NEW w \in Workers, StartScan(w) \/ Work(w) \/ Lose(w) PROVE LInv'
  BY <1>5, <1>6, <1>7, <1>8, <1>11 DEF Work
<1> QED
  BY <1>2, <1>9, <1>10, <1>11 DEF Next, vars

\* A case whose location is resolved has a next check, unless two commits that
\* wrote its place or its check were outrun: whatever staff and the other sessions
\* do while one calls the services, no commit strands the case alone.
THEOREM ResolvedComesBack == Spec => []ResolvedIsScheduled
<1>1. LInv => ResolvedIsScheduled
  BY DEF LInv, Placed, Scheduled, ResolvedIsScheduled
<1>2. LInv /\ [Next]_vars => LInv'
  BY NextPlaced
<1> QED
  BY <1>1, <1>2, InitPlaced, PTL DEF Spec

-----------------------------------------------------------------------------
(***************************************************************************)
(* The alerts.                                                             *)
(*                                                                         *)
(* A session decides about an alert when it handles a case and writes it   *)
(* when it commits.  The invariant says what of that decision still holds  *)
(* in between, whatever staff and other sessions do to the alerts          *)
(* (Warned); what an assessment by another session undoes is late.         *)
(***************************************************************************)

\* An alert of the monitor has belonged to one case only.
Owned ==
    \A n \in DOMAIN alerts :
        /\ alerts[n].case \in alerts[n].been /\ alerts[n].been \subseteq DOMAIN rows
        /\ alerts[n].opened = "monitor" => alerts[n].been = {alerts[n].case}

\* Staff had no hand in any alert of the case.
Untouched(c) == \A n \in DOMAIN alerts : c \in alerts[n].been => alerts[n].opened = "monitor"

Follows(c) ==
    /\ \A m, n \in Watched(c) : m = n
    /\ Untouched(c) /\ Active(c) # {} => rows[c].verdict = "danger"

\* A session raises an alert only where the monitor has none, and resolves the only
\* one there is of a case it found calm, unless others assessed the case since it
\* looked.
Warned(s, c) ==
    /\ c \in s.raise => s.move[c] = "later" /\ s.mine[c].verdict = "danger"
    /\ c \in s.raise \ s.late => Watched(c) = {}
    /\ s.move[c] = "later" => s.mine[c].verdict \in {"danger", "calm"}
    /\ s.move[c] = "later" /\ s.mine[c].verdict = "calm" /\ Untouched(c)
       /\ c \notin s.late \cup overlapped
          => Active(c) \subseteq s.resolve

Heeds(s) == Pending(s) /\ \A c \in DOMAIN s.loaded : Warned(s, c)

AInv ==
    /\ TypeOK
    /\ Owned
    /\ \A c \in DOMAIN rows \ overlapped : Follows(c)
    /\ \A s \in Sessions : Heeds(s)

\* At most one of the active alerts of a case was opened by the monitor.
LEMMA FollowsIs == AInv => AlertsFollowVerdict
<1> SUFFICES ASSUME AInv, NEW c \in DOMAIN rows \ overlapped
             PROVE  /\ Cardinality(Watched(c)) <= 1
                    /\ (\A n \in DOMAIN alerts : c \in alerts[n].been => alerts[n].opened = "monitor")
                          => (Active(c) # {} => rows[c].verdict = "danger")
  BY DEF AlertsFollowVerdict
<1> DEFINE S == Watched(c)
<1>1. Follows(c)
  BY DEF AInv
<1>2. \A m, n \in S : m = n
  BY <1>1 DEF Follows
<1>3. Cardinality(S) <= 1
  <2> HIDE DEF S
  <2>1. CASE S = {}
    BY <2>1, FS_EmptySet
  <2>2. CASE S # {}
    <3>1. PICK n \in S : TRUE
      BY <2>2
    <3>2. S = {n}
      BY <1>2, <3>1
    <3>3. Cardinality({n}) = 1
      BY FS_Singleton
    <3> QED
      BY <3>2, <3>3
  <2> QED
    BY <2>1, <2>2
<1> QED
  BY <1>1, <1>3 DEF Follows, Untouched

\* A step that lets no alert of the monitor appear, and none that is active of a
\* case staff had no hand in.
Calmer ==
    /\ \A c : Watched(c)' \subseteq Watched(c)
    /\ \A c \in DOMAIN rows : Untouched(c)' => Untouched(c) /\ Active(c)' \subseteq Active(c)

\* A decision about the alerts of a case outlives such a step.
LEMMA WarnedKept ==
  ASSUME Calmer, overlapped' = overlapped, NEW s, NEW t, Left(s, t),
         NEW c \in DOMAIN rows, Warned(s, c)
  PROVE  Warned(t, c)'
<1>1. /\ t.mine = s.mine /\ t.move = s.move /\ t.raise = s.raise /\ t.resolve = s.resolve
      /\ s.late \subseteq t.late
  BY LeftIs
<1>2. Watched(c)' \subseteq Watched(c) /\ (Untouched(c)' => Untouched(c) /\ Active(c)' \subseteq Active(c))
  BY DEF Calmer
<1> QED
  BY <1>1, <1>2 DEF Warned

\* So do all the decisions of a session.
LEMMA HeedsKept ==
  ASSUME TypeOK, Calmer, overlapped' = overlapped, NEW s \in Sessions, Heeds(s), NEW t, Left(s, t)
  PROVE  Heeds(t)'
<1>1. t.todo = s.todo /\ t.loaded = s.loaded /\ t.mine = s.mine /\ t.move = s.move
  BY LeftIs
<1>2. DOMAIN s.loaded \subseteq DOMAIN rows
  BY SessionsTyped
<1>3. Pending(t)'
  BY <1>1 DEF Heeds, Pending
<1>4. \A c \in DOMAIN s.loaded : Warned(t, c)'
  BY <1>2, WarnedKept DEF Heeds
<1> QED
  BY <1>1, <1>3, <1>4 DEF Heeds

\* The invariant about alerts does too.
LEMMA CalmerKept ==
  ASSUME AInv, TypeOK', Owned', Calmer, DOMAIN rows' = DOMAIN rows,
         \A c \in DOMAIN rows : rows'[c].verdict = rows[c].verdict, overlapped' = overlapped,
         \A t \in Sessions' : Heeds(t)' \/ \E s \in Sessions : Left(s, t)
  PROVE  AInv'
<1>1. ASSUME NEW c \in DOMAIN rows' \ overlapped' PROVE Follows(c)'
  BY <1>1 DEF AInv, Follows, Calmer
<1>2. \A t \in Sessions' : Heeds(t)'
  BY HeedsKept DEF AInv
<1> QED
  BY <1>1, <1>2 DEF AInv

\* The alerts after a new one of staff.
LEMMA StaffRaises ==
  ASSUME AInv, NEW c \in DOMAIN rows, Fits(alerts, {c}), alerts' = Raised(alerts, {c}, "staff"),
         UNCHANGED rows
  PROVE  Owned' /\ Calmer
<1>1. PICK id \in [{c} -> Free(alerts)] :
        IsInjective(id) /\ IsRaised(Raised(alerts, {c}, "staff"), alerts, {c}, "staff", id)
  BY RaisedIs
<1>2. PICK n : n = id[c]
  OBVIOUS
<1>3. Range(id) = {n} /\ n \in Free(alerts)
  BY <1>1, <1>2 DEF Range
<1>4. /\ DOMAIN alerts' = DOMAIN alerts \cup {n}
      /\ alerts'[n] = New(c, "staff")
      /\ \A m \in DOMAIN alerts \ {n} : alerts'[m] = alerts[m]
  BY <1>1, <1>2, <1>3 DEF IsRaised
<1>5. /\ alerts'[n].case = c /\ alerts'[n].active /\ alerts'[n].opened = "staff"
      /\ alerts'[n].been = {c}
  BY <1>4 DEF New
<1>6. n \in DOMAIN alerts => ~alerts[n].active /\ alerts[n].opened = "monitor"
  BY <1>3 DEF Free
<1>7. Owned'
  <2>1. \A m \in DOMAIN alerts \ {n} :
          /\ alerts'[m].case \in alerts'[m].been /\ alerts'[m].been \subseteq DOMAIN rows
          /\ alerts'[m].opened = "monitor" => alerts'[m].been = {alerts'[m].case}
    BY <1>4 DEF AInv, Owned
  <2>2. rows' = rows
    OBVIOUS
  <2>3. /\ alerts'[n].case \in alerts'[n].been /\ alerts'[n].been \subseteq DOMAIN rows
        /\ alerts'[n].opened # "monitor"
    BY <1>5
  <2>4. \A m \in DOMAIN alerts' : m = n \/ m \in DOMAIN alerts \ {n}
    BY <1>4
  <2> QED
    BY <2>1, <2>2, <2>3, <2>4 DEF Owned
<1>8. \A d : Watched(d)' \subseteq Watched(d)
  BY <1>4, <1>5 DEF Watched, Active
<1>9. ASSUME NEW d \in DOMAIN rows, Untouched(d)' PROVE Untouched(d) /\ Active(d)' \subseteq Active(d)
  <2>1. d # c
    BY <1>4, <1>5, <1>9 DEF Untouched
  <2>2. Untouched(d)
    BY <1>4, <1>6, <1>9 DEF Untouched
  <2>3. Active(d)' \subseteq Active(d)
    BY <1>4, <1>5, <2>1 DEF Active
  <2> QED
    BY <2>2, <2>3
<1> QED
  BY <1>7, <1>8, <1>9 DEF Calmer

\* What staff do to alerts.
LEMMA StaffCalms ==
  ASSUME AInv,
         \/ \E n \in AlertIds : ResolveAlert(n) \/ ActivateAlert(n)
         \/ \E c \in Cases : RaiseAlert(c) \/ MoveSimulation(c)
  PROVE  Owned' /\ Calmer /\ UNCHANGED <<rows, open, overlapped>>
<1>0. \A n \in DOMAIN alerts : alerts[n] \in Alert
  BY DEF AInv, TypeOK
<1>1. UNCHANGED <<rows, open, overlapped>>
  BY DEF ResolveAlert, ActivateAlert, RaiseAlert, MoveSimulation
<1>2. ASSUME NEW n \in AlertIds, ResolveAlert(n) PROVE Owned' /\ Calmer
  <2>1. n \in DOMAIN alerts /\ alerts' = [alerts EXCEPT ![n].active = FALSE]
    BY <1>2 DEF ResolveAlert
  <2>2. /\ DOMAIN alerts' = DOMAIN alerts
        /\ \A m \in DOMAIN alerts \ {n} : alerts'[m] = alerts[m]
        /\ alerts'[n].case = alerts[n].case /\ alerts'[n].been = alerts[n].been
        /\ alerts'[n].opened = alerts[n].opened /\ ~alerts'[n].active
    <3>1. alerts' = [m \in DOMAIN alerts |->
                        IF m = n THEN [alerts[n] EXCEPT !.active = FALSE] ELSE alerts[m]]
      BY <2>1 DEF AInv, TypeOK
    <3>2. alerts'[n] = [alerts[n] EXCEPT !.active = FALSE] /\ alerts[n] \in Alert
      BY <1>0, <2>1, <3>1
    <3> QED
      BY <3>1, <3>2 DEF Alert
  <2>3. Owned'
    BY <1>1, <2>2 DEF AInv, Owned
  <2>4. Calmer
    BY <2>2 DEF Calmer, Watched, Untouched, Active
  <2> QED
    BY <2>3, <2>4
<1>3. ASSUME NEW n \in AlertIds, ActivateAlert(n) PROVE Owned' /\ Calmer
  <2>1. n \in DOMAIN alerts
        /\ alerts' = [alerts EXCEPT ![n].active = TRUE, ![n].opened = "staff"]
    BY <1>3 DEF ActivateAlert
  <2>2. /\ DOMAIN alerts' = DOMAIN alerts
        /\ \A m \in DOMAIN alerts \ {n} : alerts'[m] = alerts[m]
        /\ alerts'[n].case = alerts[n].case /\ alerts'[n].been = alerts[n].been
        /\ alerts'[n].opened = "staff"
    <3>1. alerts' = [m \in DOMAIN alerts |->
                        IF m = n THEN [alerts[n] EXCEPT !.active = TRUE, !.opened = "staff"]
                        ELSE alerts[m]]
      BY <2>1 DEF AInv, TypeOK
    <3>2. alerts'[n] = [alerts[n] EXCEPT !.active = TRUE, !.opened = "staff"] /\ alerts[n] \in Alert
      BY <1>0, <2>1, <3>1
    <3> QED
      BY <3>1, <3>2 DEF Alert
  <2>3. Owned'
    BY <1>1, <2>2 DEF AInv, Owned
  <2>4. \A d : Watched(d)' \subseteq Watched(d)
    BY <2>2 DEF Watched, Active
  <2>5. ASSUME NEW d, Untouched(d)' PROVE Untouched(d) /\ Active(d)' \subseteq Active(d)
    <3>1. d \notin alerts[n].been /\ alerts[n].case # d
      BY <2>1, <2>2, <2>5 DEF Untouched, AInv, Owned
    <3> QED
      BY <2>2, <2>5, <3>1 DEF Untouched, Active
  <2> QED
    BY <2>3, <2>4, <2>5 DEF Calmer
<1>4. ASSUME NEW c \in Cases, RaiseAlert(c) PROVE Owned' /\ Calmer
  BY <1>1, <1>4, StaffRaises DEF RaiseAlert
<1>5. ASSUME NEW c \in Cases, MoveSimulation(c) PROVE Owned' /\ Calmer
  <2>1. PICK n \in DOMAIN alerts :
          /\ alerts[n].opened = "staff"
          /\ alerts' = [alerts EXCEPT ![n].case = c, ![n].been = @ \cup {c}]
    BY <1>5 DEF MoveSimulation
  <2>2. /\ DOMAIN alerts' = DOMAIN alerts
        /\ \A m \in DOMAIN alerts \ {n} : alerts'[m] = alerts[m]
        /\ alerts'[n].case = c /\ alerts'[n].been = alerts[n].been \cup {c}
        /\ alerts'[n].opened = "staff"
    <3>1. alerts' = [m \in DOMAIN alerts |->
                        IF m = n THEN [alerts[n] EXCEPT !.case = c, !.been = alerts[n].been \cup {c}]
                        ELSE alerts[m]]
      BY <2>1 DEF AInv, TypeOK
    <3>2. /\ alerts'[n] = [alerts[n] EXCEPT !.case = c, !.been = alerts[n].been \cup {c}]
          /\ alerts[n] \in Alert
      BY <1>0, <2>1, <3>1
    <3> QED
      BY <2>1, <3>1, <3>2 DEF Alert
  <2>3. Owned'
    <3>1. \A m \in DOMAIN alerts \ {n} :
            /\ alerts'[m].case \in alerts'[m].been /\ alerts'[m].been \subseteq DOMAIN rows
            /\ alerts'[m].opened = "monitor" => alerts'[m].been = {alerts'[m].case}
      BY <2>2 DEF AInv, Owned
    <3>2. alerts'[n].case \in alerts'[n].been /\ alerts'[n].been \subseteq DOMAIN rows
      <4>1. c \in DOMAIN rows
        BY <1>5 DEF MoveSimulation
      <4>2. alerts[n].been \subseteq DOMAIN rows
        BY <2>1 DEF AInv, Owned
      <4> QED
        BY <2>2, <4>1, <4>2
    <3> QED
      BY <1>1, <2>2, <3>1, <3>2 DEF Owned
  <2>4. \A d : Watched(d)' \subseteq Watched(d)
    BY <2>2 DEF Watched, Active
  <2>5. ASSUME NEW d, Untouched(d)' PROVE Untouched(d) /\ Active(d)' \subseteq Active(d)
    <3>1. d # c /\ d \notin alerts[n].been
      BY <2>1, <2>2, <2>5 DEF Untouched
    <3> QED
      BY <2>2, <2>5, <3>1 DEF Untouched, Active
  <2> QED
    BY <2>3, <2>4, <2>5 DEF Calmer
<1>6. Owned' /\ Calmer
  BY <1>2, <1>3, <1>4, <1>5
<1> QED
  BY <1>1, <1>6

\* The invariant about alerts outlives that.
LEMMA StaffFollows ==
  ASSUME AInv, TypeOK',
         \/ \E n \in AlertIds : ResolveAlert(n) \/ ActivateAlert(n)
         \/ \E c \in Cases : RaiseAlert(c) \/ MoveSimulation(c)
  PROVE  AInv'
<1>1. Owned' /\ Calmer /\ UNCHANGED <<rows, open, overlapped>>
  BY StaffCalms
<1>2. \A t \in Sessions' : t \in Sessions /\ Left(t, t)
  BY <1>1 DEF Sessions, Left
<1> QED
  BY <1>1, <1>2, CalmerKept

\* While no alert changes, what is said of them stays.
LEMMA AlertsKept ==
  ASSUME UNCHANGED alerts
  PROVE  Calmer /\ \A c : (Untouched(c)' <=> Untouched(c)) /\ Active(c)' = Active(c)
  BY DEF Calmer, Watched, Untouched, Active

\* A new case has no alert.
LEMMA CreateFollows ==
  ASSUME AInv, NEW c \in Cases, NEW named \in BOOLEAN, NEW located \in BOOLEAN,
         CreateCase(c, named, located), TypeOK'
  PROVE  AInv'
<1>1. /\ c \notin DOMAIN rows
      /\ rows' = [d \in DOMAIN rows \cup {c} |->
                    IF d = c THEN Created(named, located) ELSE rows[d]]
      /\ UNCHANGED <<alerts, open, overlapped>>
  BY DEF CreateCase
<1>2. Calmer /\ \A d : (Untouched(d)' <=> Untouched(d)) /\ Active(d)' = Active(d)
  BY <1>1, AlertsKept
<1>3. DOMAIN rows' = DOMAIN rows \cup {c} /\ \A d \in DOMAIN rows : rows'[d] = rows[d]
  BY <1>1
<1>4. Owned'
  BY <1>1, <1>3 DEF AInv, Owned
<1>5. \A d \in DOMAIN rows \ overlapped : Follows(d)'
  BY <1>2, <1>3 DEF AInv, Follows, Calmer
<1>6. Follows(c)'
  <2>1. \A n \in DOMAIN alerts : alerts[n].case # c
    BY <1>1 DEF AInv, Owned
  <2>2. Active(c)' = {} /\ Watched(c)' = {}
    BY <1>2, <2>1 DEF Active, Watched
  <2> QED
    BY <2>2 DEF Follows
<1>7. ASSUME NEW s \in Sessions' PROVE Heeds(s)'
  <2>1. s \in Sessions /\ Left(s, s)
    BY <1>1, <1>7 DEF Sessions, Left
  <2> QED
    BY <1>1, <1>2, <2>1, HeedsKept DEF AInv
<1> QED
  BY <1>1, <1>3, <1>4, <1>5, <1>6, <1>7 DEF AInv

\* A session that starts has decided nothing.
LEMMA StartFollows ==
  ASSUME AInv, NEW w \in Workers, NEW kind, NEW batch, Starts(w, kind, batch), TypeOK'
  PROVE  AInv'
<1>0. PICK s : s = Loaded(kind, batch)
  OBVIOUS
<1>1. /\ IsInjective(batch) /\ open' = [open EXCEPT ![w] = s]
      /\ UNCHANGED <<rows, alerts, overlapped>>
  BY <1>0 DEF Starts
<1>2. /\ s.todo = batch /\ s.loaded = [c \in Range(batch) |-> rows[c]] /\ s.mine = s.loaded
      /\ s.move = [c \in Range(batch) |-> "keep"] /\ s.raise = {}
  BY <1>0 DEF Loaded
<1>3. Pending(s)'
  BY <1>1, <1>2 DEF Pending
<1>4. \A c \in DOMAIN s.loaded : Warned(s, c)'
  BY <1>2 DEF Warned
<1>5. Sessions' \subseteq Sessions \cup {s}
  BY <1>1, OneSession DEF AInv
<1>6. Calmer /\ Owned'
  BY <1>1, AlertsKept DEF AInv, Owned
<1>7. \A t \in Sessions : Left(t, t)
  BY DEF Left
<1>8. Heeds(s)'
  BY <1>3, <1>4 DEF Heeds
<1> QED
  BY <1>1, <1>5, <1>6, <1>7, <1>8, CalmerKept

\* A case that a session has handled is warned of as the alerts are then.
LEMMA AdvanceFollows ==
  ASSUME AInv, NEW w \in Workers, NEW found, NEW u, Advances(w, found, u), TypeOK'
  PROVE  AInv'
<1>0. PICK s : s = open[w]
  OBVIOUS
<1> DEFINE c == Head(s.todo)
<1>1. /\ s # Idle /\ s.todo # <<>> /\ Looked(s, found) /\ Advanced(s, found, u)
      /\ open' = [open EXCEPT ![w] = u]
      /\ UNCHANGED <<rows, alerts, overlapped>>
  BY <1>0 DEF Advances
<1>2. Sessions' \subseteq Sessions \cup ({u} \ {Idle}) /\ s \in Sessions
  BY <1>0, <1>1, OneSession DEF AInv, Sessions
<1>3. /\ IsSession(s) /\ Pending(s)
      /\ \A d \in DOMAIN s.loaded : d \in DOMAIN rows /\ Warned(s, d)
  BY <1>2, SessionsTyped DEF AInv, Heeds
<1>4. Calmer /\ \A d : (Untouched(d)' <=> Untouched(d)) /\ Active(d)' = Active(d)
  BY <1>1, AlertsKept
<1>5. ASSUME u # Idle PROVE Heeds(u)'
  <2>1. Turned(s, u, found)
    BY <1>1, <1>3, <1>5, TurnedIs
  <2>2. /\ u.loaded = s.loaded /\ Pending(u) /\ c \in DOMAIN s.loaded /\ s.move[c] = "keep"
        /\ \A d \in DOMAIN s.loaded \ {c} : u.mine[d] = s.mine[d] /\ u.move[d] = s.move[d]
        /\ s.raise \subseteq u.raise /\ u.raise \subseteq s.raise \cup {c}
        /\ s.resolve \subseteq u.resolve /\ u.late = s.late
    BY <2>1 DEF Turned
  <2>3. found[1] \in Row /\ s.mine[c] \in Row
    BY <1>1, <1>3, LookedTyped, HeadAndTail DEF IsSession
  <2>4. found[2] # "later"
    <3>1. found = <<s.mine[c], "keep">> \/ found \in Refreshed(c, s.mine[c], c \in s.unscheduled)
      BY <1>1 DEF Looked
    <3>2. \A row, b : found \in Refreshed(c, row, b) => found[2] # "later"
      BY DEF Refreshed, Unnamed, Geocoded
    <3> QED
      BY <3>1, <3>2
  <2>5. c \notin s.raise /\ (c \notin overlapped => Follows(c))
    BY <1>3, <2>2 DEF Warned, AInv
  <2>6. Warned(u, c)
    <3>1. CASE u.mine[c] = found[1] /\ u.move[c] = found[2] /\ u.raise = s.raise
      BY <2>4, <2>5, <3>1 DEF Warned
    <3>2. CASE /\ u.move[c] = "later" /\ u.mine[c] = [found[1] EXCEPT !.verdict = "danger"]
               /\ u.raise = IF Active(c) = {} THEN s.raise \cup {c} ELSE s.raise
      <4>1. u.mine[c].verdict = "danger"
        BY <2>3, <3>2 DEF Row
      <4>2. c \in u.raise => Watched(c) = {}
        BY <2>5, <3>2 DEF Watched
      <4> QED
        BY <3>2, <4>1, <4>2 DEF Warned
    <3>3. CASE /\ u.move[c] = "later" /\ u.mine[c] = [found[1] EXCEPT !.verdict = "calm"]
               /\ u.raise = s.raise
               /\ \E chosen : /\ u.resolve = s.resolve \cup chosen
                              /\ Active(c) # {} => \E n \in Active(c) : chosen = {n}
      <4>1. u.mine[c].verdict = "calm"
        BY <2>3, <3>3 DEF Row
      <4>2. ASSUME Untouched(c), c \notin overlapped PROVE \A m, n \in Active(c) : m = n
        <5>1. Active(c) \subseteq Watched(c)
          BY <4>2 DEF Active, Watched, Untouched, AInv, Owned
        <5> QED
          BY <2>5, <4>2, <5>1 DEF Follows
      <4>3. Untouched(c) /\ c \notin overlapped => Active(c) \subseteq u.resolve
        BY <3>3, <4>2
      <4> QED
        BY <2>5, <3>3, <4>1, <4>3 DEF Warned
    <3> QED
      BY <2>1, <3>1, <3>2, <3>3 DEF Turned
  <2>7. ASSUME NEW d \in DOMAIN s.loaded, d # c PROVE Warned(u, d)
    BY <1>3, <2>2, <2>7 DEF Warned
  <2>8. (Pending(u) <=> Pending(u)') /\ Left(u, u)
    BY DEF Pending, Left
  <2>9. \A d \in DOMAIN u.loaded : Warned(u, d)'
    BY <1>1, <1>3, <1>4, <2>2, <2>6, <2>7, <2>8, WarnedKept
  <2> QED
    BY <2>2, <2>8, <2>9 DEF Heeds
<1>6. Owned' /\ \A t \in Sessions : Left(t, t)
  BY <1>1 DEF AInv, Owned, Left
<1> QED
  BY <1>1, <1>2, <1>4, <1>5, <1>6, CalmerKept

\* What a commit makes of the alerts and of the verdict of a case.
LEMMA CommitAlerts ==
  ASSUME AInv, NEW s \in Sessions, Commits(s)
  PROVE  /\ Owned'
         /\ \A c \in DOMAIN rows :
              /\ \E n : Watched(c)' \subseteq Watched(c) \cup {n}
              /\ c \notin s.raise => /\ Watched(c)' \subseteq Watched(c)
                                    /\ Active(c)' \subseteq Active(c) \ s.resolve
              /\ Untouched(c)' => Untouched(c)
              /\ rows'[c].verdict = IF c \in Sent(s, "later") THEN s.mine[c].verdict
                                    ELSE rows[c].verdict
<1>1. Commits(s)
  OBVIOUS
<1>3. /\ IsSession(s) /\ s.raise \subseteq DOMAIN s.loaded
      /\ DOMAIN s.loaded \subseteq DOMAIN rows
  BY SessionsTyped DEF AInv, IsSession
<1>4. PICK table : table = Settled(s)
  OBVIOUS
<1>5. /\ DOMAIN table = DOMAIN alerts
      /\ \A n \in DOMAIN alerts :
            /\ table[n].case = alerts[n].case /\ table[n].been = alerts[n].been
            /\ table[n].opened = alerts[n].opened
            /\ table[n].active <=> alerts[n].active /\ n \notin s.resolve
  <2>1. \A n \in DOMAIN alerts : alerts[n] \in Alert
    BY DEF AInv, TypeOK
  <2> QED
    BY <1>4, <2>1 DEF Settled, Alert
<1>6. PICK id \in [s.raise -> Free(table)] :
        IsInjective(id) /\ IsRaised(alerts', table, s.raise, "monitor", id)
  BY <1>1, <1>4, RaisedIs DEF Commits
<1>7. /\ DOMAIN alerts' = DOMAIN alerts \cup Range(id)
      /\ \A c \in s.raise : alerts'[id[c]] = New(c, "monitor")
      /\ \A n \in DOMAIN alerts \ Range(id) : alerts'[n] = table[n]
  BY <1>5, <1>6 DEF IsRaised
<1>8. /\ \A n \in Range(id) : \E c \in s.raise : n = id[c]
      /\ \A c \in s.raise : id[c] \in Range(id)
      /\ \A n \in Range(id) : n \in DOMAIN alerts => alerts[n].opened = "monitor"
  <2>1. \A n \in Range(id) : n \in Free(table) /\ \E c \in s.raise : n = id[c]
    BY <1>6 DEF Range
  <2>2. \A c \in s.raise : id[c] \in Range(id)
    BY <1>6 DEF Range
  <2> QED
    BY <1>5, <2>1, <2>2 DEF Free
<1>9. \A c \in s.raise : /\ alerts'[id[c]].case = c /\ alerts'[id[c]].been = {c}
                         /\ alerts'[id[c]].opened = "monitor"
  <2> SUFFICES ASSUME NEW c \in s.raise
               PROVE  /\ alerts'[id[c]].case = c /\ alerts'[id[c]].been = {c}
                      /\ alerts'[id[c]].opened = "monitor"
    OBVIOUS
  <2>1. alerts'[id[c]] = New(c, "monitor")
    BY <1>7
  <2>2. New(c, "monitor").case = c /\ New(c, "monitor").been = {c}
        /\ New(c, "monitor").opened = "monitor"
    BY DEF New
  <2> QED
    BY <2>1, <2>2
<1>10. DOMAIN rows' = DOMAIN rows
       /\ \A c \in DOMAIN rows : rows'[c] = Merged(s, c)
  BY <1>1 DEF Commits
<1>11. Owned'
  <2>1. ASSUME NEW n \in DOMAIN alerts \ Range(id)
        PROVE  /\ alerts'[n].case \in alerts'[n].been /\ alerts'[n].been \subseteq DOMAIN rows
               /\ alerts'[n].opened = "monitor" => alerts'[n].been = {alerts'[n].case}
    BY <1>5, <1>7, <2>1 DEF AInv, Owned
  <2>2. ASSUME NEW n \in Range(id)
        PROVE  /\ alerts'[n].case \in alerts'[n].been /\ alerts'[n].been \subseteq DOMAIN rows
               /\ alerts'[n].opened = "monitor" => alerts'[n].been = {alerts'[n].case}
    <3>1. PICK c \in s.raise : n = id[c]
      BY <1>8, <2>2
    <3>2. alerts'[n].case = c /\ alerts'[n].been = {c}
      BY <1>9, <3>1
    <3>3. c \in DOMAIN rows
      BY <1>3
    <3> QED
      BY <3>2, <3>3
  <2> QED
    BY <1>7, <1>10, <2>1, <2>2 DEF Owned
<1>12. ASSUME NEW c \in DOMAIN rows
       PROVE  /\ \E n : Watched(c)' \subseteq Watched(c) \cup {n}
              /\ c \notin s.raise => /\ Watched(c)' \subseteq Watched(c)
                                    /\ Active(c)' \subseteq Active(c) \ s.resolve
  <2>1. \A n \in Watched(c)' : (c \in s.raise /\ n = id[c]) \/ n \in Watched(c)
    BY <1>5, <1>7, <1>8, <1>9 DEF Watched, Active
  <2>2. c \notin s.raise => Active(c)' \subseteq Active(c) \ s.resolve
    BY <1>5, <1>7, <1>8, <1>9 DEF Active
  <2>3. Watched(c)' \subseteq Watched(c) \cup {id[c]}
    BY <2>1
  <2> QED
    BY <2>1, <2>2, <2>3
<1>13. ASSUME NEW c \in DOMAIN rows, Untouched(c)' PROVE Untouched(c)
  <2>1. ASSUME NEW n \in DOMAIN alerts, c \in alerts[n].been PROVE alerts[n].opened = "monitor"
    <3>1. CASE n \in Range(id)
      BY <1>8, <3>1
    <3>2. CASE n \notin Range(id)
      BY <1>5, <1>7, <1>13, <2>1, <3>2 DEF Untouched
    <3> QED
      BY <3>1, <3>2
  <2> QED
    BY <2>1 DEF Untouched
<1>14. ASSUME NEW c \in DOMAIN rows
       PROVE  rows'[c].verdict = IF c \in Sent(s, "later") THEN s.mine[c].verdict
                                 ELSE rows[c].verdict
  <2>1. rows[c] \in Row /\ DOMAIN s.mine = DOMAIN s.loaded /\ DOMAIN s.move = DOMAIN s.loaded
    BY <1>3 DEF AInv, TypeOK, IsSession
  <2>2. CASE c \notin DOMAIN s.mine
    BY <1>10, <2>1, <2>2 DEF Merged, Sent
  <2>3. CASE c \in DOMAIN s.mine
    <3>1. s.loaded[c] \in Row /\ s.mine[c] \in Row
      BY <1>3, <2>1, <2>3 DEF IsSession
    <3>2. PICK b \in BOOLEAN : b <=> s.move[c] = "later"
      OBVIOUS
    <3>3. rows'[c] = MergeRow(rows[c], s.loaded[c], s.mine[c], b)
      <4>1. (s.move[c] = "later") = b
        BY <3>2
      <4> QED
        BY <1>10, <2>3, <4>1 DEF Merged
    <3>4. rows'[c].verdict = IF b THEN s.mine[c].verdict ELSE rows[c].verdict
      BY <2>1, <3>1, <3>3, MergedIs
    <3>5. b <=> c \in Sent(s, "later")
      BY <2>1, <2>3, <3>2 DEF Sent
    <3> QED
      BY <3>4, <3>5
  <2> QED
    BY <2>2, <2>3
<1> QED
  BY <1>11, <1>12, <1>13, <1>14

\* A commit writes the alerts that the session decided about, and the verdicts;
\* the others that looked for an alert of the same case are late then.
LEMMA CommitFollows ==
  ASSUME AInv, NEW w \in Workers, Commit(w), TypeOK'
  PROVE  AInv'
<1>0. PICK s : s = open[w]
  OBVIOUS
<1>1. Commits(s) /\ Leaves(w, s) /\ s \in Sessions
  BY <1>0, CommitIs DEF AInv, Commits, Sessions
<1>2. /\ IsSession(s) /\ s.raise \subseteq DOMAIN s.loaded /\ DOMAIN s.move = DOMAIN s.loaded
      /\ DOMAIN s.loaded \subseteq DOMAIN rows
      /\ \A d \in DOMAIN s.loaded : Warned(s, d)
  BY <1>1, SessionsTyped DEF AInv, Heeds, IsSession
<1>3. /\ DOMAIN rows' = DOMAIN rows
      /\ overlapped' = overlapped \cup (Sent(s, "later") \cap s.late)
  BY <1>1 DEF Commits
<1>4. s.raise \subseteq Sent(s, "later")
  BY <1>2 DEF Warned, Sent
<1>5. ASSUME NEW c \in DOMAIN rows
      PROVE  /\ \E n : Watched(c)' \subseteq Watched(c) \cup {n}
             /\ c \notin s.raise => /\ Watched(c)' \subseteq Watched(c)
                                   /\ Active(c)' \subseteq Active(c) \ s.resolve
             /\ Untouched(c)' => Untouched(c)
             /\ rows'[c].verdict = IF c \in Sent(s, "later") THEN s.mine[c].verdict
                                   ELSE rows[c].verdict
  BY <1>1, CommitAlerts
<1>6. ASSUME NEW c \in DOMAIN rows \ overlapped' PROVE Follows(c)'
  <2>1. Follows(c) /\ (c \in Sent(s, "later") => c \notin s.late)
    BY <1>3 DEF AInv
  <2>2. c \in Sent(s, "later") => c \in DOMAIN s.loaded /\ s.move[c] = "later" /\ Warned(s, c)
    BY <1>2 DEF Sent
  <2>3. \A m, n \in Watched(c)' : m = n
    <3>1. CASE c \in s.raise
      <4>1. Watched(c) = {}
        BY <1>4, <2>1, <2>2, <3>1 DEF Warned
      <4> QED
        BY <1>5, <4>1
    <3>2. CASE c \notin s.raise
      BY <1>5, <2>1, <3>2 DEF Follows
    <3> QED
      BY <3>1, <3>2
  <2>4. ASSUME Untouched(c)', Active(c)' # {} PROVE rows'[c].verdict = "danger"
    <3>1. Untouched(c)
      BY <1>5, <2>4
    <3>2. CASE c \notin Sent(s, "later")
      BY <1>4, <1>5, <2>1, <2>4, <3>1, <3>2 DEF Follows
    <3>3. CASE c \in s.raise
      BY <1>4, <1>5, <2>2, <3>3 DEF Warned
    <3>4. CASE c \in Sent(s, "later") /\ c \notin s.raise
      <4>1. ~(Active(c) \subseteq s.resolve)
        BY <1>5, <2>4, <3>4
      <4>2. c \notin s.late \cup overlapped
        BY <1>3, <2>1, <3>4
      <4>3. s.mine[c].verdict = "danger"
        BY <2>2, <3>1, <3>4, <4>1, <4>2 DEF Warned
      <4> QED
        BY <1>5, <3>4, <4>3
    <3> QED
      BY <3>2, <3>3, <3>4
  <2> QED
    BY <2>3, <2>4 DEF Follows
<1>7. ASSUME NEW t \in Sessions' PROVE Heeds(t)'
  <2>1. PICK r \in Sessions : Outdated(r, t, Written(s), Sent(s, "later"))
    <3>1. \A v \in Workers :
             \/ open'[v] = Idle
             \/ /\ v # w /\ open[v] # Idle /\ IsSession(open[v]) /\ IsSession(open'[v])
                /\ Outdated(open[v], open'[v], Written(s), Sent(s, "later"))
      BY <1>1, OthersAfter DEF AInv
    <3> QED
      BY <1>7, <3>1 DEF Sessions
  <2>2. /\ t.todo = r.todo /\ t.loaded = r.loaded /\ t.mine = r.mine /\ t.move = r.move
        /\ t.raise = r.raise /\ t.resolve = r.resolve
        /\ t.late = r.late \cup ((Sent(s, "later") \cap DOMAIN r.loaded) \ Range(r.todo))
    BY <2>1 DEF Outdated
  <2>3. Heeds(r) /\ DOMAIN r.loaded \subseteq DOMAIN rows
    BY SessionsTyped DEF AInv
  <2>4. ASSUME NEW c \in DOMAIN r.loaded PROVE Warned(t, c)'
    <3>1. Warned(r, c) /\ (r.move[c] = "later" => c \notin Range(r.todo)) /\ c \in DOMAIN rows
      BY <2>3, <2>4 DEF Heeds, Pending
    <3>2. r.move[c] = "later" /\ c \notin t.late => c \notin r.late /\ c \notin s.raise
      BY <1>4, <2>2, <2>4, <3>1
    <3>3. c \in t.raise \ t.late => Watched(c)' = {}
      <4>1. ASSUME c \in t.raise \ t.late PROVE Watched(c)' = {}
        <5>1. r.move[c] = "later" /\ c \in r.raise \ r.late /\ c \notin s.raise
          BY <2>2, <3>1, <3>2, <4>1 DEF Warned
        <5>2. Watched(c) = {}
          BY <3>1, <5>1 DEF Warned
        <5> QED
          BY <1>5, <3>1, <5>1, <5>2
      <4> QED
        BY <4>1
    <3>4. t.move[c] = "later" /\ t.mine[c].verdict = "calm" /\ Untouched(c)'
          /\ c \notin t.late \cup overlapped' => Active(c)' \subseteq t.resolve
      <4>1. ASSUME t.move[c] = "later", t.mine[c].verdict = "calm", Untouched(c)',
                   c \notin t.late \cup overlapped'
            PROVE  Active(c)' \subseteq t.resolve
        <5>1. Active(c)' \subseteq Active(c) /\ Untouched(c) /\ c \notin r.late \cup overlapped
          BY <1>3, <1>5, <2>2, <3>1, <3>2, <4>1
        <5> QED
          BY <2>2, <3>1, <4>1, <5>1 DEF Warned
      <4> QED
        BY <4>1
    <3>5. /\ c \in t.raise => t.move[c] = "later" /\ t.mine[c].verdict = "danger"
          /\ t.move[c] = "later" => t.mine[c].verdict \in {"danger", "calm"}
      BY <2>2, <3>1 DEF Warned
    <3> QED
      BY <3>3, <3>4, <3>5 DEF Warned
  <2>5. Pending(t)'
    BY <2>2, <2>3 DEF Heeds, Pending
  <2> QED
    BY <2>2, <2>4, <2>5 DEF Heeds
<1>8. Owned'
  BY <1>1, CommitAlerts
<1> QED
  BY <1>3, <1>6, <1>7, <1>8 DEF AInv

\* A new location leaves the sessions to their work.
LEMMA UpdateLeaves ==
  ASSUME TypeOK, NEW c \in Cases, NEW named, NEW located, UpdateLocation(c, named, located),
         NEW t \in Sessions'
  PROVE  \E s \in Sessions : Left(s, t)
<1>1. open' = Overtaken(open, {c}, {})
  BY DEF UpdateLocation
<1>2. \A w \in Workers :
         \/ open[w] = Idle /\ open'[w] = Idle
         \/ /\ open[w] # Idle /\ IsSession(open[w]) /\ IsSession(open'[w])
            /\ Outdated(open[w], open'[w], {c}, {})
  BY <1>1, OvertakenIs DEF TypeOK
<1> QED
  BY <1>2 DEF Sessions, Left

\* There is no alert at the start.
LEMMA InitFollows == Init => AInv
<1> SUFFICES ASSUME Init PROVE AInv
  OBVIOUS
<1>1. TypeOK
  BY InitTyped
<1>2. DOMAIN alerts = {} /\ Sessions = {}
  <2>1. DOMAIN <<>> = {}
    OBVIOUS
  <2> QED
    BY <2>1 DEF Init, Sessions
<1> QED
  BY <1>1, <1>2 DEF AInv, Owned, Follows, Watched, Active

\* Every step keeps the invariant about alerts.
LEMMA NextFollows == AInv /\ [Next]_vars => AInv'
<1> SUFFICES ASSUME AInv, [Next]_vars PROVE AInv'
  OBVIOUS
<1>0. TypeOK /\ TypeOK'
  BY NextTyped DEF AInv
<1>1. ASSUME NEW c \in Cases, NEW named \in BOOLEAN, NEW located \in BOOLEAN,
             CreateCase(c, named, located)
      PROVE  AInv'
  BY <1>0, <1>1, CreateFollows
<1>2. ASSUME UNCHANGED <<alerts, overlapped>>, DOMAIN rows' = DOMAIN rows,
             \A c \in DOMAIN rows : rows'[c].verdict = rows[c].verdict,
             \A t \in Sessions' : \E s \in Sessions : Left(s, t)
      PROVE  AInv'
  <2>1. Calmer /\ Owned'
    BY <1>2, AlertsKept DEF AInv, Owned
  <2> QED
    BY <1>0, <1>2, <2>1, CalmerKept
<1>3. ASSUME NEW c \in Cases, NEW named \in BOOLEAN, NEW located \in BOOLEAN,
             UpdateLocation(c, named, located)
      PROVE  AInv'
  <2>1. PICK there, status :
          /\ c \in DOMAIN rows /\ UNCHANGED <<alerts, overlapped>>
          /\ open' = Overtaken(open, {c}, {})
          /\ rows' = [rows EXCEPT ![c].named = named, ![c].located = there, ![c].geocode = status]
    BY <1>3 DEF UpdateLocation
  <2>2. rows'[c].verdict = rows[c].verdict
    <3>1. rows'[c] = [rows[c] EXCEPT !.named = named, !.located = there, !.geocode = status]
      BY <1>0, <2>1 DEF TypeOK
    <3>2. rows[c] \in Row
      BY <1>0, <2>1 DEF TypeOK
    <3> QED
      BY <3>1, <3>2 DEF Row
  <2>3. DOMAIN rows' = DOMAIN rows /\ \A d \in DOMAIN rows \ {c} : rows'[d] = rows[d]
    BY <2>1
  <2>4. ASSUME NEW t \in Sessions' PROVE \E s \in Sessions : Left(s, t)
    BY <1>0, <1>3, <2>4, UpdateLeaves
  <2> QED
    BY <1>2, <2>1, <2>2, <2>3, <2>4
<1>4. ASSUME NEW c \in Cases, ChangeStatus(c) PROVE AInv'
  <2>1. /\ c \in DOMAIN rows /\ UNCHANGED <<alerts, open, overlapped>>
        /\ rows' = [rows EXCEPT ![c].active = ~@]
    BY <1>4 DEF ChangeStatus
  <2>2. rows'[c].verdict = rows[c].verdict
    <3>1. rows'[c] = [rows[c] EXCEPT !.active = ~rows[c].active]
      BY <1>0, <2>1 DEF TypeOK
    <3>2. rows[c] \in Row
      BY <1>0, <2>1 DEF TypeOK
    <3> QED
      BY <3>1, <3>2 DEF Row
  <2>3. DOMAIN rows' = DOMAIN rows /\ \A d \in DOMAIN rows \ {c} : rows'[d] = rows[d]
    BY <2>1
  <2>4. \A t \in Sessions' : t \in Sessions /\ Left(t, t)
    BY <2>1 DEF Sessions, Left
  <2> QED
    BY <1>2, <2>1, <2>2, <2>3, <2>4
<1>5. ASSUME \/ \E n \in AlertIds : ResolveAlert(n) \/ ActivateAlert(n)
             \/ \E c \in Cases : RaiseAlert(c) \/ MoveSimulation(c)
      PROVE  AInv'
  BY <1>0, <1>5, StaffFollows
<1>6. ASSUME NEW w \in Workers,
             StartScan(w) \/ \E c \in Cases : StartRun(w, c) \/ StartRefresh(w, c)
      PROVE  AInv'
  BY <1>0, <1>6, StartIs, StartFollows
<1>7. ASSUME NEW w \in Workers, Refresh(w) \/ Assess(w) \/ AssessFails(w) PROVE AInv'
  BY <1>0, <1>7, AdvanceIs, AdvanceFollows
<1>8. ASSUME NEW w \in Workers, Commit(w) PROVE AInv'
  BY <1>0, <1>8, CommitFollows
<1>9. ASSUME NEW w \in Workers, Lose(w) PROVE AInv'
  <2>1. open' = [open EXCEPT ![w] = Idle] /\ UNCHANGED <<rows, alerts, overlapped>>
    BY <1>9 DEF Lose
  <2>2. \A t \in Sessions' : t \in Sessions /\ Left(t, t)
    BY <1>0, <2>1, OneSession DEF Left
  <2> QED
    BY <1>2, <2>1, <2>2
<1>10. ASSUME UNCHANGED <<rows, alerts, open, overlapped>> PROVE AInv'
  <2>1. \A t \in Sessions' : t \in Sessions /\ Left(t, t)
    BY <1>10 DEF Sessions, Left
  <2> QED
    BY <1>2, <1>10, <2>1
<1>11. ASSUME Staff PROVE AInv'
  BY <1>1, <1>3, <1>4, <1>5, <1>6, <1>11 DEF Staff
<1>12. ASSUME NEW w \in Workers, StartScan(w) \/ Work(w) \/ Lose(w) PROVE AInv'
  BY <1>6, <1>7, <1>8, <1>9, <1>12 DEF Work
<1> QED
  BY <1>10, <1>11, <1>12 DEF Next, ComeDue, vars

\* However sessions overlap and whatever staff do between their steps, the monitor
\* has at most one active alert of its own for a case, and none of a case that its
\* newest assessment found out of danger, unless staff had a hand in an alert of
\* that case or a commit assessed it by what was looked up before another one.
THEOREM AlertsAgree == Spec => []AlertsFollowVerdict
<1>1. AInv /\ [Next]_vars => AInv'
  BY NextFollows
<1> QED
  BY <1>1, FollowsIs, InitFollows, PTL DEF Spec

-----------------------------------------------------------------------------
(***************************************************************************)
(* How many alerts the monitor has.                                        *)
(*                                                                         *)
(* A session stages an alert only when the case has none, and each worker  *)
(* has one session: the workers about to write an alert of a case and the  *)
(* alerts that the monitor has of it are together no more than there are   *)
(* workers.                                                                *)
(***************************************************************************)
Raisers(c) == {w \in Workers : open[w] # Idle /\ c \in open[w].raise}

Bounded(c) == Cardinality(Raisers(c)) + Cardinality(Watched(c)) <= Cardinality(Workers)

BInv == AInv /\ \A c \in Cases : Bounded(c)

\* There are finitely many of both.
LEMMA FewAlerts ==
  ASSUME TypeOK
  PROVE  \A c : IsFiniteSet(Raisers(c)) /\ IsFiniteSet(Watched(c))
<1>1. IsFiniteSet(AlertIds)
  BY BoundsAssumption, FS_Interval DEF AlertIds
<1>2. \A c : Watched(c) \subseteq AlertIds /\ Raisers(c) \subseteq Workers
  BY DEF Watched, Active, Raisers, TypeOK
<1> QED
  BY <1>1, <1>2, WorkersAssumption, FS_Subset

\* The bound outlives a step that adds to neither.
LEMMA FewerBounded ==
  ASSUME TypeOK, TypeOK', NEW c, Bounded(c),
         Raisers(c)' \subseteq Raisers(c), Watched(c)' \subseteq Watched(c)
  PROVE  Bounded(c)'
<1>1. /\ IsFiniteSet(Raisers(c)) /\ IsFiniteSet(Watched(c))
      /\ IsFiniteSet(Raisers(c)') /\ IsFiniteSet(Watched(c)')
  BY FewAlerts, FS_Subset
<1>2. Cardinality(Raisers(c)') <= Cardinality(Raisers(c))
  BY <1>1, FS_Subset
<1>3. Cardinality(Watched(c)') <= Cardinality(Watched(c))
  BY <1>1, FS_Subset
<1>4. /\ Cardinality(Raisers(c)) \in Nat /\ Cardinality(Watched(c)) \in Nat
      /\ Cardinality(Raisers(c)') \in Nat /\ Cardinality(Watched(c)') \in Nat
      /\ Cardinality(Workers) \in Nat
  BY <1>1, WorkersAssumption, FS_CardinalityType
<1>5. Cardinality(Raisers(c)') + Cardinality(Watched(c)') <= Cardinality(Workers)
  BY <1>2, <1>3, <1>4 DEF Bounded
<1> QED
  BY <1>5 DEF Bounded

\* A step of one worker that leaves the alerts alone adds at most a case without one.
LEMMA WorkerBounded ==
  ASSUME TypeOK, TypeOK', NEW w \in Workers, NEW u, open' = [open EXCEPT ![w] = u],
         UNCHANGED alerts, NEW c, Bounded(c),
         u # Idle /\ c \in u.raise => (open[w] # Idle /\ c \in open[w].raise) \/ Active(c) = {}
  PROVE  Bounded(c)'
<1>1. \A v \in Workers : open'[v] = IF v = w THEN u ELSE open[v]
  BY DEF TypeOK
<1>2. Watched(c)' = Watched(c) /\ (Active(c) = {} => Watched(c) = {})
  BY DEF Watched, Active
<1>3. CASE Active(c) # {}
  <2>1. Raisers(c)' \subseteq Raisers(c)
    BY <1>1, <1>3 DEF Raisers
  <2> QED
    BY <1>2, <2>1, FewerBounded
<1>4. CASE Active(c) = {}
  <2>1. Raisers(c)' \subseteq Workers
    BY DEF Raisers
  <2>2. Cardinality(Raisers(c)') <= Cardinality(Workers)
    BY <2>1, WorkersAssumption, FS_Subset
  <2>3. Cardinality(Watched(c)') = 0
    BY <1>2, <1>4, FS_EmptySet
  <2>4. Cardinality(Raisers(c)') \in Nat /\ Cardinality(Workers) \in Nat
    BY <2>1, WorkersAssumption, FS_Subset, FS_CardinalityType
  <2>5. Cardinality(Raisers(c)') + Cardinality(Watched(c)') <= Cardinality(Workers)
    BY <2>2, <2>3, <2>4
  <2> QED
    BY <2>5 DEF Bounded
<1> QED
  BY <1>3, <1>4

\* A commit ends a session that was to write an alert for each one it writes.
LEMMA CommitBounded ==
  ASSUME AInv, TypeOK', NEW w \in Workers, Commit(w), NEW c \in Cases, Bounded(c)
  PROVE  Bounded(c)'
<1>0. PICK s : s = open[w]
  OBVIOUS
<1>1. Commits(s) /\ Leaves(w, s) /\ s \in Sessions /\ s # Idle
  BY <1>0, CommitIs DEF AInv, Commits, Sessions
<1>2. \A v \in Workers :
         \/ open'[v] = Idle
         \/ /\ v # w /\ open[v] # Idle
            /\ open'[v].raise = open[v].raise
  BY <1>1, OthersAfter DEF AInv, Outdated
<1>3. Raisers(c)' \subseteq Raisers(c) \ {w}
  BY <1>2, <1>1, OthersAfter DEF Raisers, AInv
<1>4. CASE c \notin s.raise
  <2>1. Watched(c)' \subseteq Watched(c)
    <3>1. CASE c \in DOMAIN rows
      BY <1>1, <1>4, <3>1, CommitAlerts
    <3>2. CASE c \notin DOMAIN rows
      <4>1. Owned' /\ DOMAIN rows' = DOMAIN rows
        BY <1>1, CommitAlerts DEF Commits
      <4> QED
        BY <3>2, <4>1 DEF Owned, Watched, Active
    <3> QED
      BY <3>1, <3>2
  <2> QED
    BY <1>3, <2>1, FewerBounded DEF AInv
<1>5. CASE c \in s.raise
  <2>1. c \in DOMAIN rows /\ w \in Raisers(c)
    BY <1>0, <1>1, <1>5, SessionsTyped DEF AInv, IsSession, Raisers
  <2>2. PICK n : Watched(c)' \subseteq Watched(c) \cup {n}
    BY <1>1, <2>1, CommitAlerts
  <2>3. IsFiniteSet(Raisers(c)) /\ IsFiniteSet(Watched(c))
    BY FewAlerts DEF AInv
  <2>4. /\ IsFiniteSet(Watched(c) \cup {n})
        /\ Cardinality(Watched(c) \cup {n}) <= Cardinality(Watched(c)) + 1
    <3>1. IsFiniteSet(Watched(c) \cup {n})
          /\ Cardinality(Watched(c) \cup {n}) = IF n \in Watched(c) THEN Cardinality(Watched(c))
                                                ELSE Cardinality(Watched(c)) + 1
      BY <2>3, FS_AddElement
    <3>2. Cardinality(Watched(c)) \in Nat
      BY <2>3, FS_CardinalityType
    <3> QED
      BY <3>1, <3>2
  <2>5. IsFiniteSet(Raisers(c) \ {w}) /\ Cardinality(Raisers(c) \ {w}) = Cardinality(Raisers(c)) - 1
    BY <2>1, <2>3, FS_RemoveElement
  <2>6. Cardinality(Raisers(c)') <= Cardinality(Raisers(c) \ {w}) /\ IsFiniteSet(Raisers(c)')
    BY <1>3, <2>5, FS_Subset
  <2>7. Cardinality(Watched(c)') <= Cardinality(Watched(c) \cup {n}) /\ IsFiniteSet(Watched(c)')
    BY <2>2, <2>4, FS_Subset
  <2>8. /\ Cardinality(Raisers(c)) \in Nat /\ Cardinality(Watched(c)) \in Nat
        /\ Cardinality(Raisers(c)') \in Nat /\ Cardinality(Watched(c)') \in Nat
        /\ Cardinality(Watched(c) \cup {n}) \in Nat /\ Cardinality(Workers) \in Nat
    BY <2>3, <2>4, <2>6, <2>7, WorkersAssumption, FS_CardinalityType
  <2>9. Cardinality(Raisers(c)') + Cardinality(Watched(c)') <= Cardinality(Workers)
    BY <2>4, <2>5, <2>6, <2>7, <2>8 DEF Bounded
  <2> QED
    BY <2>9 DEF Bounded
<1> QED
  BY <1>4, <1>5

\* Every step keeps the bound.
LEMMA NextBounded == BInv /\ [Next]_vars => BInv'
<1> SUFFICES ASSUME BInv, [Next]_vars, NEW c \in Cases PROVE Bounded(c)'
  BY NextFollows DEF BInv
<1>0. AInv /\ TypeOK /\ TypeOK' /\ Bounded(c)
  BY NextTyped DEF BInv, AInv
<1>1. ASSUME UNCHANGED <<alerts, open>> PROVE Bounded(c)'
  BY <1>0, <1>1 DEF Bounded, Raisers, Watched, Active
<1>2. ASSUME NEW d \in Cases, NEW named \in BOOLEAN, NEW located \in BOOLEAN,
             CreateCase(d, named, located) \/ UpdateLocation(d, named, located)
      PROVE  Bounded(c)'
  <2>1. CASE CreateCase(d, named, located)
    BY <1>1, <2>1 DEF CreateCase
  <2>2. CASE UpdateLocation(d, named, located)
    <3>1. open' = Overtaken(open, {d}, {}) /\ UNCHANGED alerts
      BY <2>2 DEF UpdateLocation
    <3>2. \A w \in Workers :
             \/ open[w] = Idle /\ open'[w] = Idle
             \/ /\ open[w] # Idle /\ IsSession(open[w]) /\ IsSession(open'[w])
                /\ Outdated(open[w], open'[w], {d}, {})
      BY <1>0, <3>1, OvertakenIs DEF TypeOK
    <3>3. Raisers(c)' \subseteq Raisers(c)
      BY <3>2 DEF Raisers, Outdated
    <3>4. Watched(c)' = Watched(c)
      BY <3>1 DEF Watched, Active
    <3> QED
      BY <1>0, <3>3, <3>4, FewerBounded
  <2> QED
    BY <1>2, <2>1, <2>2
<1>3. ASSUME \/ \E n \in AlertIds : ResolveAlert(n) \/ ActivateAlert(n)
             \/ \E d \in Cases : RaiseAlert(d) \/ MoveSimulation(d)
      PROVE  Bounded(c)'
  <2>1. Calmer /\ open' = open
    BY <1>0, <1>3, StaffCalms
  <2>2. Raisers(c)' = Raisers(c) /\ Watched(c)' \subseteq Watched(c)
    BY <2>1 DEF Calmer, Raisers
  <2> QED
    BY <1>0, <2>2, FewerBounded
<1>4. ASSUME NEW w \in Workers,
             StartScan(w) \/ \E d \in Cases : StartRun(w, d) \/ StartRefresh(w, d)
      PROVE  Bounded(c)'
  <2>1. PICK kind, batch : Starts(w, kind, batch)
    BY <1>0, <1>4, StartIs
  <2>2. PICK s : s = Loaded(kind, batch)
    OBVIOUS
  <2>3. open' = [open EXCEPT ![w] = s] /\ UNCHANGED alerts /\ s.raise = {}
    BY <2>1, <2>2 DEF Starts, Loaded
  <2> QED
    BY <1>0, <2>3, WorkerBounded
<1>5. ASSUME NEW w \in Workers, Refresh(w) \/ Assess(w) \/ AssessFails(w) PROVE Bounded(c)'
  <2>1. PICK found, u : Advances(w, found, u)
    BY <1>5, AdvanceIs
  <2>2. PICK s : s = open[w]
    OBVIOUS
  <2>3. /\ s # Idle /\ s.todo # <<>> /\ Advanced(s, found, u)
        /\ open' = [open EXCEPT ![w] = u] /\ UNCHANGED alerts
    BY <2>1, <2>2 DEF Advances
  <2>4. IsSession(s) /\ Pending(s)
    BY <1>0, <2>2, <2>3, SessionsTyped DEF AInv, Heeds, Sessions
  <2>5. u # Idle /\ c \in u.raise => c \in s.raise \/ Active(c) = {}
    <3>1. ASSUME u # Idle, c \in u.raise PROVE c \in s.raise \/ Active(c) = {}
      <4>1. Turned(s, u, found)
        BY <2>3, <2>4, <3>1, TurnedIs
      <4>2. \/ u.raise = s.raise
            \/ u.raise = IF Active(Head(s.todo)) = {} THEN s.raise \cup {Head(s.todo)} ELSE s.raise
        BY <4>1 DEF Turned
      <4> QED
        BY <3>1, <4>2
    <3> QED
      BY <3>1
  <2> QED
    BY <1>0, <2>2, <2>3, <2>5, WorkerBounded
<1>6. ASSUME NEW w \in Workers, Commit(w) PROVE Bounded(c)'
  BY <1>0, <1>6, CommitBounded
<1>7. ASSUME NEW w \in Workers, Lose(w) PROVE Bounded(c)'
  <2>1. open' = [open EXCEPT ![w] = Idle] /\ UNCHANGED alerts
    BY <1>7 DEF Lose
  <2> QED
    BY <1>0, <2>1, WorkerBounded
<1>8. ASSUME Staff PROVE Bounded(c)'
  BY <1>1, <1>2, <1>3, <1>4, <1>8 DEF Staff, ChangeStatus
<1>9. ASSUME NEW w \in Workers, StartScan(w) \/ Work(w) \/ Lose(w) PROVE Bounded(c)'
  BY <1>4, <1>5, <1>6, <1>7, <1>9 DEF Work
<1> QED
  BY <1>1, <1>8, <1>9 DEF Next, ComeDue, vars

\* Nothing is raised at the start.
LEMMA InitBounded == Init => BInv
<1> SUFFICES ASSUME Init, NEW c \in Cases PROVE Bounded(c)
  BY InitFollows DEF BInv
<1>1. Raisers(c) = {} /\ Watched(c) = {}
  <2>1. DOMAIN <<>> = {}
    OBVIOUS
  <2> QED
    BY <2>1 DEF Init, Raisers, Watched, Active
<1>2. Cardinality({}) = 0 /\ Cardinality(Workers) \in Nat
  BY WorkersAssumption, FS_EmptySet, FS_CardinalityType
<1> QED
  BY <1>1, <1>2 DEF Bounded

\* However many sessions look for an alert of a case before any of them writes one,
\* and however long it goes on, the monitor never has more active alerts of its own
\* for a case than there are workers.
THEOREM AlertsDoNotPile == Spec => []AlertsBounded
<1>1. BInv => AlertsBounded
  <2> SUFFICES ASSUME BInv, NEW c \in DOMAIN rows
               PROVE  Cardinality(Watched(c)) <= Cardinality(Workers)
    BY DEF AlertsBounded
  <2>1. TypeOK /\ Bounded(c)
    BY DEF BInv, AInv, TypeOK
  <2>2. /\ Cardinality(Raisers(c)) \in Nat /\ Cardinality(Watched(c)) \in Nat
        /\ Cardinality(Workers) \in Nat
    BY <2>1, FewAlerts, WorkersAssumption, FS_CardinalityType
  <2> QED
    BY <2>1, <2>2 DEF Bounded
<1>2. BInv /\ [Next]_vars => BInv'
  BY NextBounded
<1> QED
  BY <1>1, <1>2, InitBounded, PTL DEF Spec

=============================================================================
