----------------------------- MODULE CaseNumbers ------------------------------
(***************************************************************************)
(* The creation of cases: CaseService.create_case, whose transaction       *)
(* counts the cases that carry its prefix, takes the next number, inserts  *)
(* the row and commits.  The count and the insert are separate statements  *)
(* of a READ COMMITTED transaction, so two creations may take the same     *)
(* number; the unique index on case_number then makes the second insert    *)
(* wait for the first transaction and fails it with an IntegrityError when *)
(* the first one commits.  Nothing retries: the client gets a 500.         *)
(***************************************************************************)
EXTENDS Naturals, FiniteSets, Sequences

CONSTANTS
    Prefixes,  \* ORGSLUG-YEAR-: two organizations may share the first 8 letters
    Requests   \* the POST /cases that are made

VARIABLES
    rows,      \* committed cases, with their CASE_CREATED audit records
    pending,   \* the creations that have a number and have not ended
    served,    \* the requests that were received
    refused    \* the requests that were answered with an IntegrityError

vars == <<rows, pending, served, refused>>

\* A case: the request that created it, its prefix and its number.
CaseRow == [req : Requests, prefix : Prefixes, number : Nat]
Creation == [req : Requests, prefix : Prefixes, number : Nat, inserted : {"no", "yes"}]

TypeOK ==
    /\ rows \subseteq CaseRow
    /\ pending \subseteq Creation
    /\ served \subseteq Requests
    /\ refused \subseteq Requests

Init == rows = {} /\ pending = {} /\ served = {} /\ refused = {}

-----------------------------------------------------------------------------
RowsOf(p) == {x \in rows : x.prefix = p}

\* Mutant of NextNumber: all the cases are counted.
NextNumberOfAll(p) == Cardinality(rows) + 1

\* _generate_case_number: SELECT count(*) WHERE case_number LIKE prefix, plus one.
NextNumber(p) == Cardinality(RowsOf(p)) + 1

SameNumber(x, y) == x.prefix = y.prefix /\ x.number = y.number

\* create_case up to its flush.
TakeNumber(r, p) ==
    /\ r \notin served
    /\ served' = served \cup {r}
    /\ pending' = pending \cup
           {[req |-> r, prefix |-> p, number |-> NextNumber(p), inserted |-> "no"]}
    /\ UNCHANGED <<rows, refused>>

\* db.flush(): the unique index admits the number.  While another open
\* transaction holds the same number the INSERT waits.
Insert(t) ==
    /\ t.inserted = "no"
    /\ ~\E x \in rows : SameNumber(x, t)
    /\ ~\E u \in pending : u.inserted = "yes" /\ SameNumber(u, t)
    /\ pending' = (pending \ {t}) \cup {[t EXCEPT !.inserted = "yes"]}
    /\ UNCHANGED <<rows, served, refused>>

\* Mutant of Conflict: the insert replaces the case that has the number.
ConflictReplacing(t) ==
    /\ t.inserted = "no"
    /\ \E x \in rows : SameNumber(x, t)
    /\ rows' = {x \in rows : ~SameNumber(x, t)}
                 \cup {[req |-> t.req, prefix |-> t.prefix, number |-> t.number]}
    /\ pending' = pending \ {t}
    /\ UNCHANGED <<served, refused>>

\* Mutant of Conflict: the insert is tried again with the same number.
ConflictRetrying(t) ==
    /\ t.inserted = "no"
    /\ \E x \in rows : SameNumber(x, t)
    /\ UNCHANGED vars

\* db.flush() raises: the number belongs to a committed case.
Conflict(t) ==
    /\ t.inserted = "no"
    /\ \E x \in rows : SameNumber(x, t)
    /\ pending' = pending \ {t}
    /\ refused' = refused \cup {t.req}
    /\ UNCHANGED <<rows, served>>

\* db.commit() of the route.
Commit(t) ==
    /\ t.inserted = "yes"
    /\ rows' = rows \cup {[req |-> t.req, prefix |-> t.prefix, number |-> t.number]}
    /\ pending' = pending \ {t}
    /\ UNCHANGED <<served, refused>>

\* The transaction ends without a commit: an error, a lost connection or process.
Rollback(t) ==
    /\ pending' = pending \ {t}
    /\ UNCHANGED <<rows, served, refused>>

Next ==
    \/ \E r \in Requests, p \in Prefixes : TakeNumber(r, p)
    \/ \E t \in pending : Insert(t) \/ Conflict(t) \/ Commit(t) \/ Rollback(t)

\* The thread of a request goes on with its next statement; the INSERT that
\* waits for an index entry is woken when the entry's transaction ends.
Proceed(r) == \E t \in pending : t.req = r /\ (Insert(t) \/ Conflict(t) \/ Commit(t))

Spec == Init /\ [][Next]_vars
FairSpec == Spec /\ \A r \in Requests : WF_vars(Proceed(r))

-----------------------------------------------------------------------------
\* The numbers under a prefix are 1 to the number of its cases, each used
\* once: a number that a failed creation had taken is not lost, and a stale
\* count never yields a number that leaves a gap.
NumbersGapless ==
    \A p \in Prefixes :
        /\ {x.number : x \in RowsOf(p)} = 1 .. Cardinality(RowsOf(p))
        /\ \A x, y \in RowsOf(p) : x.number = y.number => x = y

\* A creation that holds an index entry holds the next number of its prefix,
\* so that at most one creation of a prefix is past its flush.
HolderHasNext ==
    \A t \in pending :
        /\ t.number \in 1 .. NextNumber(t.prefix)
        /\ t.inserted = "yes" => t.number = NextNumber(t.prefix)
        /\ \A u \in pending :
             t.inserted = "yes" /\ u.inserted = "yes" /\ t.prefix = u.prefix => t = u

\* Every creation ends: nobody waits forever for an index entry.
CreationEnds ==
    \A r \in Requests : (\E t \in pending : t.req = r) ~> (\A t \in pending : t.req # r)

\* The register of a prefix: position n belongs to the case with number n.
Register ==
    [p \in Prefixes |-> [n \in 1 .. Cardinality(RowsOf(p)) |->
        (CHOOSE x \in RowsOf(p) : x.number = n).req]]

Numbering == INSTANCE NumberRegister WITH register <- Register

\* Case numbers are positions in an append-only register.
ImplementsRegister == Numbering!Spec

=============================================================================
