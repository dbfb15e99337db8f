-------------------------- MODULE CaseNumbers_proofs ---------------------------
(***************************************************************************)
(* Proofs about CaseNumbers, for every set of prefixes and requests.       *)
(***************************************************************************)
EXTENDS CaseNumbers, FiniteSetTheorems, TLAPS

IInv ==
    /\ TypeOK
    /\ IsFiniteSet(rows)
    /\ NumbersGapless
    /\ HolderHasNext

\* The count of a prefix is a natural number.
LEMMA CountType ==
    ASSUME IsFiniteSet(rows), NEW p
    PROVE  IsFiniteSet(RowsOf(p)) /\ Cardinality(RowsOf(p)) \in Nat
  BY FS_Subset, FS_CardinalityType DEF RowsOf

\* A step that leaves the committed rows alone leaves every count alone.
LEMMA SameRows ==
    ASSUME rows' = rows
    PROVE  /\ \A p : RowsOf(p)' = RowsOf(p)
           /\ \A p : NextNumber(p)' = NextNumber(p)
           /\ NumbersGapless => NumbersGapless'
  <1>1. \A p : RowsOf(p)' = RowsOf(p)
    BY DEF RowsOf
  <1>2. \A p : NextNumber(p)' = NextNumber(p)
    BY <1>1 DEF NextNumber
  <1>3. NumbersGapless => NumbersGapless'
    BY <1>1 DEF NumbersGapless
  <1>4. QED
    BY <1>1, <1>2, <1>3

\* What a commit does to the rows of each prefix.
LEMMA CommitRows ==
    ASSUME IInv, NEW t \in pending, Commit(t)
    PROVE  LET x == [req |-> t.req, prefix |-> t.prefix, number |-> t.number]
               p == t.prefix
           IN  /\ p \in Prefixes /\ x \in CaseRow
               /\ x.number = Cardinality(RowsOf(p)) + 1 /\ x.prefix = p
               /\ RowsOf(p)' = RowsOf(p) \cup {x}
               /\ Cardinality(RowsOf(p)') = Cardinality(RowsOf(p)) + 1
               /\ \A q : q # p => RowsOf(q)' = RowsOf(q)
  <1> DEFINE x == [req |-> t.req, prefix |-> t.prefix, number |-> t.number]
             p == t.prefix
  <1>1. /\ t \in Creation /\ p \in Prefixes /\ x \in CaseRow
        /\ x.prefix = p /\ x.number = t.number
    BY DEF IInv, TypeOK, Creation, CaseRow
  <1>2. rows' = rows \cup {x} /\ t.inserted = "yes"
    BY DEF Commit
  <1>3. x.number = Cardinality(RowsOf(p)) + 1
    BY <1>1, <1>2 DEF IInv, HolderHasNext, NextNumber
  <1> HIDE DEF x
  <1>4. RowsOf(p)' = RowsOf(p) \cup {x} /\ \A q : q # p => RowsOf(q)' = RowsOf(q)
    BY <1>1, <1>2 DEF RowsOf
  <1>5. IsFiniteSet(RowsOf(p)) /\ Cardinality(RowsOf(p)) \in Nat
    BY CountType DEF IInv
  <1>6. x \notin RowsOf(p)
    <2>1. SUFFICES ASSUME x \in RowsOf(p)
                   PROVE  FALSE
      OBVIOUS
    <2>2. x.number \in 1 .. Cardinality(RowsOf(p))
      BY <1>1, <2>1 DEF IInv, NumbersGapless
    <2>3. QED
      BY <1>3, <1>5, <2>2
  <1>7. Cardinality(RowsOf(p)') = Cardinality(RowsOf(p)) + 1
    BY <1>4, <1>5, <1>6, FS_AddElement
  <1>8. QED
    BY <1>1, <1>3, <1>4, <1>7 DEF x

LEMMA CommitGapless ==
    ASSUME IInv, NEW t \in pending, Commit(t)
    PROVE  NumbersGapless'
  <1> DEFINE x == [req |-> t.req, prefix |-> t.prefix, number |-> t.number]
             p == t.prefix
             n == Cardinality(RowsOf(p))
  <1>1. /\ p \in Prefixes /\ x.number = n + 1
        /\ RowsOf(p)' = RowsOf(p) \cup {x}
        /\ Cardinality(RowsOf(p)') = n + 1
        /\ \A q : q # p => RowsOf(q)' = RowsOf(q)
    BY CommitRows
  <1>2. n \in Nat
    BY CountType DEF IInv
  <1>3. /\ {y.number : y \in RowsOf(p)} = 1 .. n
        /\ \A y, z \in RowsOf(p) : y.number = z.number => y = z
    BY <1>1 DEF IInv, NumbersGapless
  <1> HIDE DEF x, n
  <1>4. {y.number : y \in RowsOf(p)'} = 1 .. (n + 1)
    BY <1>1, <1>2, <1>3
  <1>5. \A y, z \in RowsOf(p)' : y.number = z.number => y = z
    <2>1. \A y \in RowsOf(p) : y.number \in 1 .. n
      BY <1>3
    <2>2. QED
      BY <1>1, <1>2, <1>3, <2>1
  <1>6. ASSUME NEW q \in Prefixes
        PROVE  /\ {y.number : y \in RowsOf(q)'} = 1 .. Cardinality(RowsOf(q)')
               /\ \A y, z \in RowsOf(q)' : y.number = z.number => y = z
    <2>1. CASE q = p
      BY <1>1, <1>4, <1>5, <2>1
    <2>2. CASE q # p
      BY <1>1, <2>2 DEF IInv, NumbersGapless
    <2>3. QED
      BY <2>1, <2>2
  <1>7. QED
    BY <1>6 DEF NumbersGapless

LEMMA CommitHolder ==
    ASSUME IInv, NEW t \in pending, Commit(t)
    PROVE  HolderHasNext'
  <1>1. /\ t.prefix \in Prefixes /\ t.inserted = "yes" /\ pending' = pending \ {t}
        /\ NextNumber(t.prefix)' = NextNumber(t.prefix) + 1
        /\ \A q : q # t.prefix => NextNumber(q)' = NextNumber(q)
    BY CommitRows DEF Commit, NextNumber
  <1>2. \A q : NextNumber(q) \in Nat
    BY CountType DEF IInv, NextNumber
  <1>3. ASSUME NEW u \in pending'
        PROVE  /\ u.number \in 1 .. NextNumber(u.prefix)'
               /\ u.inserted = "yes" => u.number = NextNumber(u.prefix)'
    <2>1. /\ u \in pending /\ u # t
          /\ u.number \in 1 .. NextNumber(u.prefix)
          /\ u.inserted = "yes" => u.number = NextNumber(u.prefix)
          /\ u.inserted = "yes" => u.prefix # t.prefix
      BY <1>1 DEF IInv, HolderHasNext
    <2>2. QED
      BY <1>1, <1>2, <2>1
  <1>4. QED
    BY <1>1, <1>3 DEF IInv, HolderHasNext

\* The index admits a number only if it is the next one of its prefix and
\* nobody holds it.
LEMMA InsertHolder ==
    ASSUME IInv, NEW t \in pending, Insert(t)
    PROVE  HolderHasNext'
  <1> DEFINE u == [t EXCEPT !.inserted = "yes"]
             p == t.prefix
  <1>1. /\ t \in Creation /\ p \in Prefixes /\ rows' = rows
        /\ u.number = t.number /\ u.prefix = p /\ u.inserted = "yes"
        /\ pending' = (pending \ {t}) \cup {u}
    BY DEF IInv, TypeOK, Insert, Creation
  <1>2. \A q : NextNumber(q)' = NextNumber(q)
    BY <1>1, SameRows
  <1>3. Cardinality(RowsOf(p)) \in Nat
    BY CountType DEF IInv
  <1>4. t.number = NextNumber(p)
    <2>1. t.number \in 1 .. Cardinality(RowsOf(p)) + 1
      BY DEF IInv, HolderHasNext, NextNumber
    <2>2. t.number \notin 1 .. Cardinality(RowsOf(p))
      <3>1. \A x \in RowsOf(p) : x.number # t.number
        BY DEF Insert, SameNumber, RowsOf
      <3>2. {x.number : x \in RowsOf(p)} = 1 .. Cardinality(RowsOf(p))
        BY <1>1 DEF IInv, NumbersGapless
      <3>3. QED
        BY <3>1, <3>2
    <2>3. QED
      BY <1>3, <2>1, <2>2 DEF NextNumber
  <1>5. \A w \in pending : w.inserted = "yes" => w.prefix # p
    <2>1. ASSUME NEW w \in pending, w.inserted = "yes", w.prefix = p
          PROVE  FALSE
      <3>1. w.number = NextNumber(p)
        BY <2>1 DEF IInv, HolderHasNext
      <3>2. QED
        BY <1>4, <2>1, <3>1 DEF Insert, SameNumber
    <2>2. QED
      BY <2>1
  <1> HIDE DEF u
  <1>6. ASSUME NEW w \in pending'
        PROVE  /\ w.number \in 1 .. NextNumber(w.prefix)
               /\ w.inserted = "yes" => w.number = NextNumber(w.prefix)
               /\ \A z \in pending' :
                    w.inserted = "yes" /\ z.inserted = "yes" /\ w.prefix = z.prefix => w = z
    <2>1. CASE w = u
      BY <1>1, <1>3, <1>4, <1>5, <2>1 DEF NextNumber
    <2>2. CASE w \in pending
      BY <1>1, <1>5, <2>2 DEF IInv, HolderHasNext
    <2>3. QED
      BY <1>1, <2>1, <2>2
  <1>7. QED
    BY <1>2, <1>6 DEF HolderHasNext

LEMMA TakeHolder ==
    ASSUME IInv, NEW r \in Requests, NEW p \in Prefixes, TakeNumber(r, p)
    PROVE  HolderHasNext'
  <1> DEFINE t == [req |-> r, prefix |-> p, number |-> NextNumber(p), inserted |-> "no"]
  <1>1. /\ t.prefix = p /\ t.number = NextNumber(p) /\ t.inserted = "no"
        /\ pending' = pending \cup {t} /\ rows' = rows
    BY DEF TakeNumber
  <1>2. Cardinality(RowsOf(p)) \in Nat
    BY CountType DEF IInv
  <1> HIDE DEF t
  <1>3. \A q : NextNumber(q)' = NextNumber(q)
    BY <1>1, SameRows
  <1>4. t.number \in 1 .. NextNumber(t.prefix)
    BY <1>1, <1>2 DEF NextNumber
  <1>5. QED
    BY <1>1, <1>3, <1>4 DEF IInv, HolderHasNext

LEMMA InitInvariant == Init => IInv
  <1> SUFFICES ASSUME Init
               PROVE  IInv
    OBVIOUS
  <1>1. \A p : RowsOf(p) = {}
    BY DEF Init, RowsOf
  <1>2. Cardinality({}) = 0 /\ IsFiniteSet({})
    BY FS_EmptySet
  <1>3. QED
    BY <1>1, <1>2 DEF Init, IInv, TypeOK, NumbersGapless, HolderHasNext

LEMMA NextInvariant == IInv /\ [Next]_vars => IInv'
  <1> SUFFICES ASSUME IInv, [Next]_vars
               PROVE  IInv'
    OBVIOUS
  <1>1. ASSUME NEW r \in Requests, NEW p \in Prefixes, TakeNumber(r, p)
        PROVE  IInv'
    <2>1. rows' = rows /\ Cardinality(RowsOf(p)) \in Nat
      BY <1>1, CountType DEF TakeNumber, IInv
    <2>2. NumbersGapless'
      BY <2>1, SameRows DEF IInv
    <2>3. TypeOK'
      BY <1>1, <2>1 DEF IInv, TypeOK, TakeNumber, Creation, NextNumber
    <2>4. QED
      BY <1>1, <2>1, <2>2, <2>3, TakeHolder DEF IInv
  <1>2. ASSUME NEW t \in pending, Insert(t)
        PROVE  IInv'
    <2>1. rows' = rows
      BY <1>2 DEF Insert
    <2>2. NumbersGapless'
      BY <2>1, SameRows DEF IInv
    <2>3. [t EXCEPT !.inserted = "yes"] \in Creation
      BY DEF IInv, TypeOK, Creation
    <2>4. TypeOK'
      BY <1>2, <2>3 DEF IInv, TypeOK, Insert
    <2>5. QED
      BY <1>2, <2>1, <2>2, <2>4, InsertHolder DEF IInv
  <1>3. ASSUME NEW t \in pending, Conflict(t) \/ Rollback(t)
        PROVE  IInv'
    <2>1. rows' = rows /\ pending' \subseteq pending
      BY <1>3 DEF Conflict, Rollback
    <2>2. NumbersGapless' /\ \A q : NextNumber(q)' = NextNumber(q)
      BY <2>1, SameRows DEF IInv
    <2>3. HolderHasNext'
      BY <2>1, <2>2 DEF IInv, HolderHasNext
    <2>4. TypeOK'
      BY <1>3 DEF IInv, TypeOK, Conflict, Rollback, Creation
    <2>5. QED
      BY <2>1, <2>2, <2>3, <2>4 DEF IInv
  <1>4. ASSUME NEW t \in pending, Commit(t)
        PROVE  IInv'
    <2> DEFINE x == [req |-> t.req, prefix |-> t.prefix, number |-> t.number]
    <2>1. x \in CaseRow /\ rows' = rows \cup {x}
      BY <1>4, CommitRows DEF Commit
    <2>2. TypeOK' /\ IsFiniteSet(rows')
      BY <1>4, <2>1, FS_AddElement DEF IInv, TypeOK, Commit
    <2>3. QED
      BY <1>4, <2>2, CommitGapless, CommitHolder DEF IInv
  <1>5. CASE UNCHANGED vars
    <2>1. rows' = rows /\ UNCHANGED <<pending, served, refused>>
      BY <1>5 DEF vars
    <2>2. NumbersGapless' /\ \A q : NextNumber(q)' = NextNumber(q)
      BY <2>1, SameRows DEF IInv
    <2>3. QED
      BY <2>1, <2>2 DEF IInv, TypeOK, HolderHasNext
  <1>6. QED
    BY <1>1, <1>2, <1>3, <1>4, <1>5 DEF Next

\* Every reachable state satisfies the inductive invariant.
THEOREM Invariance == Spec => []IInv
  BY InitInvariant, NextInvariant, PTL DEF Spec

\* The variables keep their types.
THEOREM TypeCorrect == Spec => []TypeOK
  BY Invariance, PTL DEF IInv

\* The numbers under each prefix are 1..n, each used once, however the
\* creations interleave and fail.
THEOREM Gapless == Spec => []NumbersGapless
  BY Invariance, PTL DEF IInv

\* A creation past its flush holds the next number of its prefix.
THEOREM HoldersHaveNext == Spec => []HolderHasNext
  BY Invariance, PTL DEF IInv

-----------------------------------------------------------------------------
(* The register: a commit appends to one prefix, every other step changes none. *)

\* The requests of some cases of one prefix, in the order of their numbers.
InOrder(S) == [n \in 1 .. Cardinality(S) |-> (CHOOSE x \in S : x.number = n).req]

LEMMA RegisterIs ==
    /\ Register = [p \in Prefixes |-> InOrder(RowsOf(p))]
    /\ Register' = [p \in Prefixes |-> InOrder(RowsOf(p)')]
  BY DEF Register, InOrder

\* Where the numbers of some cases are 1 to how many they are, each case stands at
\* the position that its number says.
LEMMA OrderType ==
    ASSUME NEW S, S \subseteq CaseRow, Cardinality(S) \in Nat,
           {x.number : x \in S} = 1 .. Cardinality(S),
           \A x, y \in S : x.number = y.number => x = y
    PROVE  /\ InOrder(S) \in Seq(Requests)
           /\ Len(InOrder(S)) = Cardinality(S)
           /\ \A x \in S : InOrder(S)[x.number] = x.req
  <1> DEFINE n == Cardinality(S)
  <1>1. \A x \in S : (CHOOSE y \in S : y.number = x.number) = x
    OBVIOUS
  <1>2. \A x \in S : x.number \in 1 .. n
    OBVIOUS
  <1>3. InOrder(S) = [i \in 1 .. n |-> (CHOOSE x \in S : x.number = i).req]
    BY DEF InOrder
  <1>4. \A x \in S : InOrder(S)[x.number] = x.req
    BY <1>1, <1>2, <1>3
  <1>5. ASSUME NEW i \in 1 .. n PROVE InOrder(S)[i] \in Requests
    <2>1. PICK x \in S : x.number = i
      OBVIOUS
    <2>2. QED
      BY <1>4, <2>1 DEF CaseRow
  <1> HIDE DEF n
  <1>6. InOrder(S) \in [1 .. n -> Requests]
    BY <1>3, <1>5
  <1>7. QED
    BY <1>4, <1>6 DEF n

LEMMA CommitAppends ==
    ASSUME IInv, NEW t \in pending, Commit(t)
    PROVE  t.req \in Requests /\ t.prefix \in Prefixes
           /\ Register' = [Register EXCEPT ![t.prefix] = Append(@, t.req)]
  <1> DEFINE x == [req |-> t.req, prefix |-> t.prefix, number |-> t.number]
             p == t.prefix
             n == Cardinality(RowsOf(p))
  <1>1. /\ p \in Prefixes /\ x.number = n + 1 /\ x \in CaseRow
        /\ RowsOf(p)' = RowsOf(p) \cup {x}
        /\ Cardinality(RowsOf(p)') = n + 1
        /\ \A q : q # p => RowsOf(q)' = RowsOf(q)
    BY CommitRows
  <1>2. IInv'
    BY NextInvariant DEF Next
  <1> DEFINE S == RowsOf(p)
             T == RowsOf(p)'
  <1>3. /\ InOrder(S) \in Seq(Requests) /\ Len(InOrder(S)) = n
        /\ \A y \in S : InOrder(S)[y.number] = y.req
    <2>1. S \subseteq CaseRow /\ Cardinality(S) \in Nat
      BY CountType DEF IInv, TypeOK, RowsOf
    <2>2. /\ {y.number : y \in S} = 1 .. Cardinality(S)
          /\ \A y, z \in S : y.number = z.number => y = z
      BY <1>1 DEF IInv, NumbersGapless
    <2> HIDE DEF S
    <2>3. QED
      BY <2>1, <2>2, OrderType DEF S
  <1>4. /\ InOrder(T) \in Seq(Requests) /\ Len(InOrder(T)) = n + 1
        /\ \A y \in S \cup {x} : InOrder(T)[y.number] = y.req
    <2>1. T \subseteq CaseRow
      BY <1>2 DEF IInv, TypeOK, RowsOf
    <2>2. /\ {y.number : y \in T} = 1 .. Cardinality(T)
          /\ \A y, z \in T : y.number = z.number => y = z
      BY <1>1, <1>2 DEF IInv, NumbersGapless
    <2>3. T = S \cup {x} /\ Cardinality(T) = n + 1 /\ n \in Nat
      BY <1>1, CountType DEF IInv
    <2> HIDE DEF S, T, x, n
    <2>4. Cardinality(T) \in Nat
      BY <2>3
    <2>5. /\ InOrder(T) \in Seq(Requests) /\ Len(InOrder(T)) = Cardinality(T)
          /\ \A y \in T : InOrder(T)[y.number] = y.req
      BY <2>1, <2>2, <2>4, OrderType
    <2>6. QED
      BY <2>3, <2>5
  <1>5. n \in Nat /\ {y.number : y \in RowsOf(p)} = 1 .. n
    BY <1>1, CountType DEF IInv, NumbersGapless
  <1>6. x.req = t.req /\ x.req \in Requests
    BY <1>1 DEF CaseRow
  <1> HIDE DEF S, T, x, n
  <1>7. InOrder(T) = Append(InOrder(S), t.req)
    <2>1. ASSUME NEW i \in 1 .. n PROVE InOrder(T)[i] = InOrder(S)[i]
      <3>1. PICK y \in S : y.number = i
        BY <1>5 DEF S
      <3>2. QED
        BY <1>3, <1>4, <3>1
    <2>2. InOrder(T)[n + 1] = t.req
      BY <1>1, <1>4, <1>6
    <2>3. QED
      BY <1>3, <1>4, <1>5, <1>6, <2>1, <2>2
  <1>8. \A q \in Prefixes : InOrder(RowsOf(q)') =
           IF q = p THEN Append(InOrder(RowsOf(q)), t.req) ELSE InOrder(RowsOf(q))
    BY <1>1, <1>7 DEF S, T
  <1>9. QED
    BY <1>1, <1>6, <1>8, RegisterIs

\* Case numbers are positions in an append-only register: every creation that
\* commits appends to the register of its prefix, and nothing else changes it,
\* whatever creations overlap, collide or are rolled back.
THEOREM NumbersAreARegister == Spec => ImplementsRegister
  <1>1. Init => Numbering!Init
    <2> SUFFICES ASSUME Init PROVE Register = [p \in Prefixes |-> <<>>]
      BY DEF Numbering!Init
    <2>1. \A p \in Prefixes : Cardinality(RowsOf(p)) = 0
      BY FS_EmptySet DEF Init, RowsOf
    <2>2. QED
      BY <2>1 DEF Register
  <1>2. IInv /\ [Next]_vars => [Numbering!Next]_Register
    <2> SUFFICES ASSUME IInv, [Next]_vars PROVE Numbering!Next \/ Register' = Register
      OBVIOUS
    <2>1. ASSUME NEW t \in pending, Commit(t) PROVE Numbering!Next
      BY <2>1, CommitAppends DEF Numbering!Next
    <2>2. CASE rows' = rows
      BY <2>2, SameRows, RegisterIs
    <2>3. QED
      BY <2>1, <2>2 DEF Next, TakeNumber, Insert, Conflict, Rollback, vars
  <1>3. QED
    BY <1>1, <1>2, Invariance, PTL DEF Spec, ImplementsRegister, Numbering!Spec

=============================================================================
