----------------------------- MODULE CaseWorkflow -----------------------------
(***************************************************************************)
(* The life of the aid cases of one organization: the requests that read   *)
(* and change a row of the table cases, the assignments they add, the      *)
(* denormalized counter of each volunteer and the audit log.               *)
(*                                                                         *)
(* A request is two steps.  The first one loads the rows, checks the       *)
(* guards of the handler and stages its changes in the request's own       *)
(* session; the second is db.commit(), which merges the staged columns     *)
(* into the database, or a rollback.  The sessions of the request threads  *)
(* and of the uvicorn worker processes interleave between the two: nothing *)
(* is locked and the isolation level is PostgreSQL's READ COMMITTED.       *)
(* A request whose guard fails answers 400 and changes nothing: it has no  *)
(* step here.  Each element of Requests is served at most once, which is   *)
(* the bound on the length of a behaviour.                                 *)
(***************************************************************************)
EXTENDS Naturals, FiniteSets, OrmSession

CONSTANTS
    Cases,        \* rows of the table cases
    Volunteers,   \* rows of the table volunteers
    Requests,     \* the HTTP requests that are made
    Levels,       \* values of each input of the risk score
    NoVolunteer   \* the volunteer of a request that names none

ASSUME LevelsAssumption == Levels \subseteq Nat \ {0} /\ Levels # {}
ASSUME NoVolunteerAssumption == NoVolunteer \notin Volunteers

VARIABLES
    cases,        \* the committed row of each case
    counter,      \* volunteers.active_assignment_count
    assignments,  \* rows of the table assignments
    audit,        \* rows of the table audit_logs
    open,         \* the transactions that have loaded and not yet committed
    served,       \* the requests that have been received
    stale         \* history: the cases that a commit from an outdated row has written

vars == <<cases, counter, assignments, audit, open, served, stale>>

-----------------------------------------------------------------------------
CaseStatus ==
    {"new", "verified", "assigned", "in_progress", "resolved", "closed", "rejected"}

VerificationStatus == {"pending", "verified", "disputed"}

\* A risk score stands for the inputs it was computed from; 0 is the input
\* of a score that was written by hand (the seeded rows).
Score == [urgency : Levels \cup {0}, people : Levels \cup {0}, needs : Levels \cup {0}]
ByHand == [urgency |-> 0, people |-> 0, needs |-> 0]

\* The columns of a case that the operations below read or write.  notes is
\* special_requirements, as the set of rejection reasons its text contains;
\* closed says that closed_at is set.
Row == [status : CaseStatus, verification : VerificationStatus, closed : BOOLEAN,
        notes : SUBSET Requests,
        urgency : Levels, people : Levels, needs : Levels, risk : Score]

Op == {"update", "approve", "reject", "close", "delete", "assign", "confirm", "recalculate"}

\* A session between its first query and its commit: the row as it was
\* loaded, the row as the session holds it, and the rows it will add.
Transaction == [req : Requests, op : Op, case : Cases, loaded : Row, mine : Row,
                vol : Volunteers \cup {NoVolunteer}, count : Nat]

\* The rows log_action adds; the operations missing here log nothing.
AuditedOp == {"update", "approve", "reject", "close"}

\* The operations that add an assignment, with or without a score.
AssigningOp == {"assign", "confirm"}

AuditRecord == [req : Requests, case : Cases, op : AuditedOp]
AssignmentRow == [req : Requests, case : Cases, vol : Volunteers, op : AssigningOp]

TypeOK ==
    /\ cases \in [Cases -> Row]
    /\ counter \in [Volunteers -> Nat]
    /\ assignments \subseteq AssignmentRow
    /\ audit \subseteq AuditRecord
    /\ open \subseteq Transaction
    /\ served \subseteq Requests
    /\ stale \subseteq Cases

-----------------------------------------------------------------------------
\* compute_risk_score, as the inputs it reads from the row.  The type of disaster, the
\* hours since the case was opened and the vulnerability of the persons linked to it,
\* which update_case does not pass, are left out: no property reads them.
ComputeRisk(row) == [urgency |-> row.urgency, people |-> row.people, needs |-> row.needs]

\* A row as create_case leaves it, or as the seed script writes it.
CreatedRow(row) ==
    /\ row.verification = "pending" /\ ~row.closed /\ row.notes = {}
    /\ \/ row.status = "new" /\ row.risk = ComputeRisk(row)
       \/ row.status \in {"new", "verified"} /\ row.risk = ByHand

InitialRows ==
    {r \in [status : {"new", "verified"}, verification : {"pending"}, closed : {FALSE},
            notes : {{}}, urgency : Levels, people : Levels, needs : Levels, risk : Score]
        : CreatedRow(r)}

Init ==
    /\ cases \in [Cases -> InitialRows]
    /\ counter = [v \in Volunteers |-> 0]
    /\ assignments = {}
    /\ audit = {}
    /\ open = {}
    /\ served = {}
    /\ stale = {}

\* The first part of a handler: the row is loaded and the changes are staged.
Stage(r, op, c, mine, v, count) ==
    /\ r \notin served
    /\ served' = served \cup {r}
    /\ open' = open \cup {[req |-> r, op |-> op, case |-> c, loaded |-> cases[c],
                           mine |-> mine, vol |-> v, count |-> count]}
    /\ UNCHANGED <<cases, counter, assignments, audit, stale>>

StageCase(r, op, c, mine) == Stage(r, op, c, mine, NoVolunteer, 0)

-----------------------------------------------------------------------------
\* Mutant of Update: the score is computed before the changes are applied.
UpdateScoringFirst(r, c) ==
    \E u, p, n \in Levels :
        StageCase(r, "update", c,
            [cases[c] EXCEPT !.urgency = u, !.people = p, !.needs = n,
                             !.risk = ComputeRisk(cases[c])])

\* PUT /cases/{id}.  The request may replace the text that carries the
\* rejection notes, and the score is recomputed when it names an urgency, a
\* number of people or a disaster type, but not when it names only the needs.
Update(r, c) ==
    \E u, p, n \in Levels, text \in {{}, cases[c].notes}, rescore \in BOOLEAN :
        LET edited == [cases[c] EXCEPT !.urgency = u, !.people = p, !.needs = n,
                                       !.notes = text]
        IN  /\ ~rescore => u = cases[c].urgency /\ p = cases[c].people
            /\ StageCase(r, "update", c,
                   IF rescore THEN [edited EXCEPT !.risk = ComputeRisk(edited)] ELSE edited)

\* POST /cases/{id}/recalculate-risk
Recalculate(r, c) ==
    StageCase(r, "recalculate", c, [cases[c] EXCEPT !.risk = ComputeRisk(cases[c])])

\* Mutant of Approve: the status is not checked.
ApproveUnchecked(r, c) ==
    StageCase(r, "approve", c,
        [cases[c] EXCEPT !.status = "verified", !.verification = "verified"])

\* POST /cases/{id}/approve
Approve(r, c) ==
    /\ cases[c].status = "new"
    /\ StageCase(r, "approve", c,
           [cases[c] EXCEPT !.status = "verified", !.verification = "verified"])

\* Mutant of Reject: the note replaces the text.
RejectReplacing(r, c) ==
    /\ cases[c].status \notin {"resolved", "closed"}
    /\ StageCase(r, "reject", c,
           [cases[c] EXCEPT !.status = "rejected", !.verification = "disputed", !.notes = {r}])

\* POST /cases/{id}/reject: the reason is appended to the text that was loaded.
Reject(r, c) ==
    /\ cases[c].status \notin {"resolved", "closed"}
    /\ StageCase(r, "reject", c,
           [cases[c] EXCEPT !.status = "rejected", !.verification = "disputed",
                            !.notes = @ \cup {r}])

\* Mutant of Close: any case that is not closed may be closed.
CloseUnassigned(r, c) ==
    /\ cases[c].status # "closed"
    /\ StageCase(r, "close", c, [cases[c] EXCEPT !.status = "closed", !.closed = TRUE])

\* POST /cases/{id}/close
Close(r, c) ==
    /\ cases[c].status \in {"in_progress", "resolved", "assigned"}
    /\ StageCase(r, "close", c, [cases[c] EXCEPT !.status = "closed", !.closed = TRUE])

\* DELETE /cases/{id}: a soft delete, from any status.
Delete(r, c) == StageCase(r, "delete", c, [cases[c] EXCEPT !.status = "rejected"])

\* POST /cases/{id}/assign: from any status, and the counter is left alone.
AssignVolunteer(r, c, v) ==
    Stage(r, "assign", c, [cases[c] EXCEPT !.status = "assigned"], v, 0)

\* POST /allocation/confirm: from any status; the counter is read now and, one
\* higher, written with the commit.
ConfirmAllocation(r, c, v) ==
    Stage(r, "confirm", c, [cases[c] EXCEPT !.status = "assigned"], v, counter[v])

-----------------------------------------------------------------------------
\* Mutant of MergeRow: the flush writes every column.
WriteRow(now, t) == t.mine

MergeRow(now, t) ==
    [status       |-> Flushed(now.status, t.loaded.status, t.mine.status),
     verification |-> Flushed(now.verification, t.loaded.verification, t.mine.verification),
     closed       |-> Flushed(now.closed, t.loaded.closed, t.mine.closed),
     notes        |-> Flushed(now.notes, t.loaded.notes, t.mine.notes),
     urgency      |-> Flushed(now.urgency, t.loaded.urgency, t.mine.urgency),
     people       |-> Flushed(now.people, t.loaded.people, t.mine.people),
     needs        |-> Flushed(now.needs, t.loaded.needs, t.mine.needs),
     risk         |-> Flushed(now.risk, t.loaded.risk, t.mine.risk)]

\* Mutant of NewAssignments: confirm_allocation adds no assignment.
NewManualAssignments(t) ==
    IF t.op = "assign"
    THEN {[req |-> t.req, case |-> t.case, vol |-> t.vol, op |-> t.op]} ELSE {}

NewAssignments(t) ==
    IF t.op \in AssigningOp
    THEN {[req |-> t.req, case |-> t.case, vol |-> t.vol, op |-> t.op]} ELSE {}

\* Mutant of NewAudit: reject_case logs nothing.
NewAuditOfSuccess(t) ==
    IF t.op \in AuditedOp \ {"reject"}
    THEN {[req |-> t.req, case |-> t.case, op |-> t.op]} ELSE {}

NewAudit(t) ==
    IF t.op \in AuditedOp THEN {[req |-> t.req, case |-> t.case, op |-> t.op]} ELSE {}

\* The case, if it changed between its load and the commit that writes it.
Outdated(t) == {c \in {t.case} : t.loaded # cases[c]}

\* db.commit() of the handler: one database transaction.
Commit(t) ==
    /\ cases' = [cases EXCEPT ![t.case] = MergeRow(@, t)]
    /\ counter' = IF t.op = "confirm" THEN [counter EXCEPT ![t.vol] = t.count + 1] ELSE counter
    /\ assignments' = assignments \cup NewAssignments(t)
    /\ audit' = audit \cup NewAudit(t)
    /\ stale' = stale \cup Outdated(t)
    /\ open' = open \ {t}
    /\ UNCHANGED served

\* get_db rolls back: a query failed, the connection or the process was lost.
Rollback(t) ==
    /\ open' = open \ {t}
    /\ UNCHANGED <<cases, counter, assignments, audit, served, stale>>

Receive(r, c) ==
    \/ Update(r, c)
    \/ Recalculate(r, c)
    \/ Approve(r, c)
    \/ Reject(r, c)
    \/ Close(r, c)
    \/ Delete(r, c)
    \/ \E v \in Volunteers : AssignVolunteer(r, c, v)
    \/ \E v \in Volunteers : ConfirmAllocation(r, c, v)

Next ==
    \/ \E r \in Requests, c \in Cases : Receive(r, c)
    \/ \E t \in open : Commit(t)
    \/ \E t \in open : Rollback(t)

Spec == Init /\ [][Next]_vars

-----------------------------------------------------------------------------
Audited(c, op) == \E a \in audit : a.case = c /\ a.op = op
Staffed(c) == \E a \in assignments : a.case = c
Confirmed(v) == {a \in assignments : a.vol = v /\ a.op = "confirm"}

-----------------------------------------------------------------------------
(***************************************************************************)
(* What holds however the requests interleave.                             *)
(***************************************************************************)

\* A case that is new has not been decided on, closed or staffed: no stale
\* commit takes a case back to new, and no operation acts on a case and
\* leaves it new (approve_case may rely on status = new alone).
NewIsUntouched ==
    \A c \in Cases : cases[c].status = "new" =>
        /\ cases[c].verification = "pending"
        /\ ~cases[c].closed
        /\ ~Staffed(c)
        /\ \A op \in {"approve", "reject", "close"} : ~Audited(c, op)

\* Every decision that a row shows was taken by a request that committed the
\* evidence with it: the log_action row and the column changes of one handler
\* are one transaction, and the merge with stale columns never shows a
\* decision nobody took.  No handler ever makes a case in_progress or resolved.
StatusExplained ==
    \A c \in Cases :
        /\ cases[c].status \notin {"in_progress", "resolved"}
        /\ cases[c].status = "closed" => cases[c].closed
        /\ cases[c].closed => Audited(c, "close")
        /\ cases[c].status = "assigned" => Staffed(c)
        /\ cases[c].verification = "verified" => Audited(c, "approve")
        /\ cases[c].verification = "disputed" => Audited(c, "reject")

\* A case is closed only after somebody was assigned to it, whatever
\* happened to its status between the read and the commit of close_case.
ClosedWasAssigned ==
    \A c \in Cases : cases[c].closed => Staffed(c)

\* active_assignment_count never exceeds the confirmed assignments and never
\* forgets all of them: the increments of confirm_allocation can be lost to
\* each other, but not invented, and never lost altogether.
CounterWithinConfirmed ==
    \A v \in Volunteers :
        /\ counter[v] <= Cardinality(Confirmed(v))
        /\ Confirmed(v) # {} => counter[v] > 0

\* What a request staged, by operation, against the row that it loaded.
StagedChange(t) ==
    /\ t.op \in {"update", "recalculate"} => t.mine.status = t.loaded.status
    /\ t.op = "approve" => t.loaded.status = "new" /\ t.mine.status = "verified"
    /\ t.op \in {"reject", "delete"} => t.mine.status = "rejected"
    /\ t.op = "close" => t.loaded.status # "closed" /\ t.mine.status = "closed"
    /\ t.op \in AssigningOp => t.mine.status = "assigned" /\ t.vol \in Volunteers
    /\ CASE t.op = "approve" -> t.mine.verification = "verified"
         [] t.op = "reject" -> t.mine.verification = "disputed"
         [] OTHER -> t.mine.verification = t.loaded.verification
    /\ IF t.op = "close" THEN t.mine.closed ELSE t.mine.closed = t.loaded.closed

\* What an open transaction relies on, from the moment it loaded its rows, is
\* still true when it commits, although nothing is locked: a case that was
\* past new still is, a closing time is still there, a case that is about to
\* be closed is staffed, and the counter it is about to raise is covered by
\* the confirmed assignments.
SnapshotsHold ==
    \A t \in open :
        /\ StagedChange(t)
        /\ t.loaded.status # "new" => cases[t.case].status # "new"
        /\ t.loaded.closed => cases[t.case].closed
        /\ t.op = "close" => Staffed(t.case)
        /\ t.op = "confirm" => t.count \in 0 .. Cardinality(Confirmed(t.vol))

\* The promise that survives the interleavings, as a specification of its own.
Evidence == INSTANCE CaseEvidence WITH
    status   <- [c \in Cases |-> cases[c].status],
    approved <- {c \in Cases : Audited(c, "approve")},
    disputed <- {c \in Cases : Audited(c, "reject")},
    ended    <- {c \in Cases : cases[c].closed},
    staffed  <- {c \in Cases : Staffed(c)}

\* Every commit is one of the moves of CaseEvidence, its evidence included.
ImplementsEvidence == Evidence!Spec

-----------------------------------------------------------------------------
(***************************************************************************)
(* What holds of a row until a commit from an outdated row writes it.      *)
(***************************************************************************)

\* The stored score was computed from the urgency and the number of people
\* that are stored with it: update_case recomputes after it has applied the
\* changes, not before, and only a commit from an outdated row parts them.
RiskIsCurrent ==
    \A c \in Cases \ stale : cases[c].risk # ByHand =>
        /\ cases[c].risk.urgency = cases[c].urgency
        /\ cases[c].risk.people = cases[c].people

\* The reason of a rejection stays in special_requirements until staff edit
\* the case: a second rejection appends to the first, unless it read the text
\* before the first one was committed.
ReasonsKept ==
    \A a \in audit : a.op = "reject" =>
        a.req \in cases[a.case].notes \/ Audited(a.case, "update") \/ a.case \in stale

\* "transitions: new -> verified" (approve_case): no other status becomes
\* verified, but for an approval that read the case before its last change.
VerifiedOnlyFromNew ==
    [][\A c \in Cases :
        cases'[c].status = "verified" /\ cases[c].status # "verified"
            => cases[c].status = "new" \/ c \in stale']_vars

=============================================================================
