----------------------------- MODULE CaseEvidence -----------------------------
(***************************************************************************)
(* What the case workflow promises to a reader of the database, however    *)
(* its requests interleave: the status of a case changes together with the *)
(* evidence of the decision, the evidence is never lost, a case is never   *)
(* new again, and only a case that was staffed is ever closed.             *)
(***************************************************************************)
CONSTANT Cases

VARIABLES
    status,    \* the status of each case
    approved,  \* the cases with an approval on record
    disputed,  \* the cases with a rejection on record
    ended,     \* the cases with a closing time
    staffed    \* the cases with an assignment

vars == <<status, approved, disputed, ended, staffed>>

Init ==
    /\ status \in [Cases -> {"new", "verified"}]
    /\ approved = {} /\ disputed = {} /\ ended = {} /\ staffed = {}

Becomes(c, s) == status' = [status EXCEPT ![c] = s]

\* A decision taken on what the case was then leaves a case alone that is
\* already past new.
BecomesOrStays(c, s) == Becomes(c, s) \/ (status[c] # "new" /\ UNCHANGED status)

Approve(c) ==
    /\ Becomes(c, "verified")
    /\ approved' = approved \cup {c}
    /\ UNCHANGED <<disputed, ended, staffed>>

Reject(c) ==
    /\ BecomesOrStays(c, "rejected")
    /\ disputed' = disputed \cup {c}
    /\ UNCHANGED <<approved, ended, staffed>>

Delete(c) ==
    /\ Becomes(c, "rejected")
    /\ UNCHANGED <<approved, disputed, ended, staffed>>

Assign(c) ==
    /\ BecomesOrStays(c, "assigned")
    /\ staffed' = staffed \cup {c}
    /\ UNCHANGED <<approved, disputed, ended>>

Close(c) ==
    /\ c \in staffed
    /\ Becomes(c, "closed")
    /\ ended' = ended \cup {c}
    /\ UNCHANGED <<approved, disputed, staffed>>

Next == \E c \in Cases :
    \/ Approve(c)
    \/ Reject(c)
    \/ Delete(c)
    \/ Assign(c)
    \/ Close(c)

Spec == Init /\ [][Next]_vars

=============================================================================
