-------------------------- MODULE CaseWorkflow_proofs --------------------------
(***************************************************************************)
(* Proofs about CaseWorkflow, for every set of cases, volunteers, requests *)
(* and levels.                                                             *)
(***************************************************************************)
EXTENDS CaseWorkflow, FiniteSetTheorems, TLAPS

-----------------------------------------------------------------------------
(* Types. *)

\* Staging a request keeps the types when what it stages has them.
LEMMA StageType ==
    ASSUME TypeOK, NEW r \in Requests, NEW op \in Op, NEW c \in Cases, NEW mine \in Row,
           NEW v \in Volunteers \cup {NoVolunteer}, NEW n \in Nat,
           Stage(r, op, c, mine, v, n)
    PROVE  TypeOK'
  <1>1. cases[c] \in Row
    BY DEF TypeOK
  <1>2. [req |-> r, op |-> op, case |-> c, loaded |-> cases[c],
         mine |-> mine, vol |-> v, count |-> n] \in Transaction
    BY <1>1 DEF Transaction
  <1>3. QED
    BY <1>2 DEF TypeOK, Stage

\* A merged row is a row.
LEMMA MergeType ==
    ASSUME NEW now \in Row, NEW t \in Transaction
    PROVE  MergeRow(now, t) \in Row
  BY DEF Row, Transaction, MergeRow, Flushed

LEMMA ReceiveType ==
    ASSUME TypeOK, NEW r \in Requests, NEW c \in Cases, Receive(r, c)
    PROVE  TypeOK'
  <1>0. cases[c] \in Row
    BY DEF TypeOK
  <1>1. CASE Update(r, c)
    <2>1. PICK u \in Levels, p \in Levels, n \in Levels, text \in {{}, cases[c].notes},
               rescore \in BOOLEAN :
            LET edited == [cases[c] EXCEPT !.urgency = u, !.people = p, !.needs = n,
                                           !.notes = text]
            IN StageCase(r, "update", c,
                   IF rescore THEN [edited EXCEPT !.risk = ComputeRisk(edited)] ELSE edited)
      BY <1>1 DEF Update
    <2> DEFINE edited == [cases[c] EXCEPT !.urgency = u, !.people = p, !.needs = n,
                                          !.notes = text]
               scored == [edited EXCEPT !.risk = ComputeRisk(edited)]
    <2>2. edited \in Row
      BY <1>0 DEF Row
    <2>3. ComputeRisk(edited) \in Score
      BY <2>2 DEF Row, Score, ComputeRisk
    <2>4. scored \in Row
      <3> HIDE DEF edited
      <3> QED BY <2>2, <2>3 DEF Row
    <2>5. Stage(r, "update", c, IF rescore THEN scored ELSE edited, NoVolunteer, 0)
      BY <2>1 DEF StageCase
    <2> HIDE DEF edited, scored
    <2>6. QED
      BY <2>2, <2>4, <2>5, StageType DEF Op
  <1>2. CASE Recalculate(r, c)
    <2>1. [cases[c] EXCEPT !.risk = ComputeRisk(cases[c])] \in Row
      BY <1>0 DEF Row, Score, ComputeRisk
    <2>2. QED
      BY <1>2, <2>1, StageType DEF Recalculate, StageCase, Op
  <1>3. CASE Approve(r, c)
    <2>1. [cases[c] EXCEPT !.status = "verified", !.verification = "verified"] \in Row
      BY <1>0 DEF Row, CaseStatus, VerificationStatus
    <2>2. QED
      BY <1>3, <2>1, StageType DEF Approve, StageCase, Op
  <1>4. CASE Reject(r, c)
    <2>1. [cases[c] EXCEPT !.status = "rejected", !.verification = "disputed",
                           !.notes = @ \cup {r}] \in Row
      BY <1>0 DEF Row, CaseStatus, VerificationStatus
    <2>2. QED
      BY <1>4, <2>1, StageType DEF Reject, StageCase, Op
  <1>5. CASE Close(r, c)
    <2>1. [cases[c] EXCEPT !.status = "closed", !.closed = TRUE] \in Row
      BY <1>0 DEF Row, CaseStatus
    <2>2. QED
      BY <1>5, <2>1, StageType DEF Close, StageCase, Op
  <1>6. CASE Delete(r, c)
    <2>1. [cases[c] EXCEPT !.status = "rejected"] \in Row
      BY <1>0 DEF Row, CaseStatus
    <2>2. QED
      BY <1>6, <2>1, StageType DEF Delete, StageCase, Op
  <1>7. [cases[c] EXCEPT !.status = "assigned"] \in Row
    BY <1>0 DEF Row, CaseStatus
  <1>8. ASSUME NEW v \in Volunteers, AssignVolunteer(r, c, v)
        PROVE  TypeOK'
    BY <1>7, <1>8, StageType DEF AssignVolunteer, Op
  <1>9. ASSUME NEW v \in Volunteers, ConfirmAllocation(r, c, v)
        PROVE  TypeOK'
    <2>1. counter[v] \in Nat
      BY DEF TypeOK
    <2>2. QED
      BY <1>7, <1>9, <2>1, StageType DEF ConfirmAllocation, Op
  <1>10. QED
    BY <1>1, <1>2, <1>3, <1>4, <1>5, <1>6, <1>8, <1>9 DEF Receive

LEMMA CommitType ==
    ASSUME TypeOK, SnapshotsHold, NEW t \in open, Commit(t)
    PROVE  TypeOK'
  <1>0. t \in Transaction /\ cases[t.case] \in Row /\ t.case \in Cases
    BY DEF TypeOK, Transaction
  <1>1. cases' \in [Cases -> Row]
    BY <1>0, MergeType DEF Commit, TypeOK
  <1>2. t.count \in Nat /\ t.vol \in Volunteers \cup {NoVolunteer} /\ t.req \in Requests
        /\ t.op \in Op
    BY <1>0 DEF Transaction
  <1>3. t.op \in AssigningOp => t.vol \in Volunteers
    BY DEF SnapshotsHold, StagedChange
  <1>4. counter' \in [Volunteers -> Nat]
    BY <1>2, <1>3 DEF Commit, TypeOK, AssigningOp
  <1>5. NewAssignments(t) \subseteq AssignmentRow
    BY <1>0, <1>2, <1>3 DEF NewAssignments, AssignmentRow, AssigningOp
  <1>6. NewAudit(t) \subseteq AuditRecord
    BY <1>0, <1>2 DEF NewAudit, AuditRecord
  <1>7. Outdated(t) \subseteq Cases
    BY <1>0 DEF Outdated, Transaction
  <1>8. QED
    BY <1>1, <1>4, <1>5, <1>6, <1>7 DEF Commit, TypeOK

-----------------------------------------------------------------------------
(* What a request stages. *)

\* The transaction a handler opens: what all the handlers have in common.
Opens(r, c, t) ==
    /\ r \notin served /\ served' = served \cup {r}
    /\ open' = open \cup {t}
    /\ UNCHANGED <<cases, counter, assignments, audit, stale>>
    /\ t.req = r /\ t.case = c /\ t.loaded = cases[c]
    /\ StagedChange(t)
    /\ t.op = "close" => cases[c].status \in {"in_progress", "resolved", "assigned"}
    /\ t.op = "confirm" => t.count = counter[t.vol]

LEMMA ReceiveOpens ==
    ASSUME TypeOK, NEW r \in Requests, NEW c \in Cases, Receive(r, c)
    PROVE  \E t : Opens(r, c, t)
  <1>0. cases[c] \in Row
    BY DEF TypeOK
  <1> DEFINE T(op, mine, v, n) == [req |-> r, op |-> op, case |-> c, loaded |-> cases[c],
                                   mine |-> mine, vol |-> v, count |-> n]
  <1>1. CASE Update(r, c)
    <2>1. PICK u \in Levels, p \in Levels, n \in Levels, text \in {{}, cases[c].notes},
               rescore \in BOOLEAN :
            LET edited == [cases[c] EXCEPT !.urgency = u, !.people = p, !.needs = n,
                                           !.notes = text]
            IN StageCase(r, "update", c,
                   IF rescore THEN [edited EXCEPT !.risk = ComputeRisk(edited)] ELSE edited)
      BY <1>1 DEF Update
    <2> DEFINE edited == [cases[c] EXCEPT !.urgency = u, !.people = p, !.needs = n,
                                          !.notes = text]
               mine == IF rescore THEN [edited EXCEPT !.risk = ComputeRisk(edited)] ELSE edited
    <2>2. /\ edited.status = cases[c].status
          /\ edited.verification = cases[c].verification
          /\ edited.closed = cases[c].closed
          /\ edited \in Row
      BY <1>0 DEF Row
    <2>3. /\ mine.status = cases[c].status
          /\ mine.verification = cases[c].verification
          /\ mine.closed = cases[c].closed
      <3> HIDE DEF edited
      <3> QED BY <2>2 DEF Row
    <2> HIDE DEF mine
    <2>4. Opens(r, c, T("update", mine, NoVolunteer, 0))
      BY <2>1, <2>3 DEF Opens, StageCase, Stage, StagedChange, AssigningOp, mine
    <2>5. QED
      BY <2>4
  <1>2. CASE Recalculate(r, c)
    <2> DEFINE mine == [cases[c] EXCEPT !.risk = ComputeRisk(cases[c])]
    <2>1. /\ mine.status = cases[c].status
          /\ mine.verification = cases[c].verification
          /\ mine.closed = cases[c].closed
      BY <1>0 DEF Row
    <2>2. Stage(r, "recalculate", c, mine, NoVolunteer, 0)
      BY <1>2 DEF Recalculate, StageCase
    <2> HIDE DEF mine
    <2>3. Opens(r, c, T("recalculate", mine, NoVolunteer, 0))
      BY <2>1, <2>2 DEF Opens, Stage, StagedChange, AssigningOp
    <2>4. QED
      BY <2>3
  <1>3. CASE Approve(r, c)
    <2> DEFINE mine == [cases[c] EXCEPT !.status = "verified", !.verification = "verified"]
    <2>1. /\ mine.status = "verified"
          /\ mine.verification = "verified"
          /\ mine.closed = cases[c].closed
      BY <1>0 DEF Row
    <2>2. Stage(r, "approve", c, mine, NoVolunteer, 0) /\ cases[c].status = "new"
      BY <1>3 DEF Approve, StageCase
    <2> HIDE DEF mine
    <2>3. Opens(r, c, T("approve", mine, NoVolunteer, 0))
      BY <2>1, <2>2 DEF Opens, Stage, StagedChange, AssigningOp
    <2>4. QED
      BY <2>3
  <1>4. CASE Reject(r, c)
    <2> DEFINE mine == [cases[c] EXCEPT !.status = "rejected", !.verification = "disputed",
                                        !.notes = @ \cup {r}]
    <2>1. /\ mine.status = "rejected"
          /\ mine.verification = "disputed"
          /\ mine.closed = cases[c].closed
      BY <1>0 DEF Row
    <2>2. Stage(r, "reject", c, mine, NoVolunteer, 0)
      BY <1>4 DEF Reject, StageCase
    <2> HIDE DEF mine
    <2>3. Opens(r, c, T("reject", mine, NoVolunteer, 0))
      BY <2>1, <2>2 DEF Opens, Stage, StagedChange, AssigningOp
    <2>4. QED
      BY <2>3
  <1>5. CASE Close(r, c)
    <2> DEFINE mine == [cases[c] EXCEPT !.status = "closed", !.closed = TRUE]
    <2>1. /\ mine.status = "closed"
          /\ mine.verification = cases[c].verification
          /\ mine.closed
      BY <1>0 DEF Row
    <2>2. /\ Stage(r, "close", c, mine, NoVolunteer, 0)
          /\ cases[c].status \in {"in_progress", "resolved", "assigned"}
      BY <1>5 DEF Close, StageCase
    <2> HIDE DEF mine
    <2>3. Opens(r, c, T("close", mine, NoVolunteer, 0))
      BY <2>1, <2>2 DEF Opens, Stage, StagedChange, AssigningOp
    <2>4. QED
      BY <2>3
  <1>6. CASE Delete(r, c)
    <2> DEFINE mine == [cases[c] EXCEPT !.status = "rejected"]
    <2>1. /\ mine.status = "rejected"
          /\ mine.verification = cases[c].verification
          /\ mine.closed = cases[c].closed
      BY <1>0 DEF Row
    <2>2. Stage(r, "delete", c, mine, NoVolunteer, 0)
      BY <1>6 DEF Delete, StageCase
    <2> HIDE DEF mine
    <2>3. Opens(r, c, T("delete", mine, NoVolunteer, 0))
      BY <2>1, <2>2 DEF Opens, Stage, StagedChange, AssigningOp
    <2>4. QED
      BY <2>3
  <1>7. ASSUME NEW v \in Volunteers, AssignVolunteer(r, c, v) \/ ConfirmAllocation(r, c, v)
        PROVE  \E t : Opens(r, c, t)
    <2> DEFINE mine == [cases[c] EXCEPT !.status = "assigned"]
    <2>1. /\ mine.status = "assigned"
          /\ mine.verification = cases[c].verification
          /\ mine.closed = cases[c].closed
      BY <1>0 DEF Row
    <2>2. \/ Stage(r, "assign", c, mine, v, 0)
          \/ Stage(r, "confirm", c, mine, v, counter[v])
      BY <1>7 DEF AssignVolunteer, ConfirmAllocation
    <2> HIDE DEF mine
    <2>3. \/ Opens(r, c, T("assign", mine, v, 0))
          \/ Opens(r, c, T("confirm", mine, v, counter[v]))
      BY <2>1, <2>2 DEF Opens, Stage, StagedChange, AssigningOp
    <2>4. QED
      BY <2>3
  <1>8. QED
    BY <1>1, <1>2, <1>3, <1>4, <1>5, <1>6, <1>7 DEF Receive

-----------------------------------------------------------------------------
(* What a commit does. *)

\* The committed row, column by column; the rows of other cases stay.
LEMMA CommitRow ==
    ASSUME TypeOK, NEW t \in open, Commit(t)
    PROVE  /\ t.case \in Cases
           /\ \A c \in Cases : c # t.case => cases'[c] = cases[c]
           /\ cases'[t.case].status =
                Flushed(cases[t.case].status, t.loaded.status, t.mine.status)
           /\ cases'[t.case].verification =
                Flushed(cases[t.case].verification, t.loaded.verification, t.mine.verification)
           /\ cases'[t.case].closed =
                Flushed(cases[t.case].closed, t.loaded.closed, t.mine.closed)
  <1>1. t.case \in Cases /\ cases[t.case] \in Row
    BY DEF TypeOK, Transaction
  <1>2. cases' = [cases EXCEPT ![t.case] = MergeRow(cases[t.case], t)]
    BY DEF Commit
  <1>3. cases'[t.case] = MergeRow(cases[t.case], t)
    BY <1>1, <1>2 DEF TypeOK
  <1>4. \A c \in Cases : c # t.case => cases'[c] = cases[c]
    BY <1>1, <1>2 DEF TypeOK
  <1>5. QED
    BY <1>1, <1>3, <1>4 DEF MergeRow

\* The evidence a commit adds, and no other.
LEMMA CommitEvidence ==
    ASSUME TypeOK, NEW t \in open, Commit(t)
    PROVE  /\ \A c \in Cases, op \in AuditedOp :
                Audited(c, op)' <=> Audited(c, op) \/ (c = t.case /\ op = t.op)
           /\ \A c \in Cases :
                Staffed(c)' <=> Staffed(c) \/ (c = t.case /\ t.op \in AssigningOp)
  <1>1. audit' = audit \cup NewAudit(t) /\ assignments' = assignments \cup NewAssignments(t)
    BY DEF Commit
  <1>2. ASSUME NEW c \in Cases, NEW op \in AuditedOp
        PROVE  (\E a \in NewAudit(t) : a.case = c /\ a.op = op) <=> c = t.case /\ op = t.op
    <2>1. CASE t.op \in AuditedOp
      <3> DEFINE b == [req |-> t.req, case |-> t.case, op |-> t.op]
      <3>1. NewAudit(t) = {b} /\ b.case = t.case /\ b.op = t.op
        BY <2>1 DEF NewAudit
      <3> HIDE DEF b
      <3>2. QED
        BY <3>1
    <2>2. CASE t.op \notin AuditedOp
      BY <2>2 DEF NewAudit
    <2>3. QED
      BY <2>1, <2>2
  <1>3. ASSUME NEW c \in Cases
        PROVE  (\E a \in NewAssignments(t) : a.case = c) <=> c = t.case /\ t.op \in AssigningOp
    <2>1. CASE t.op \in AssigningOp
      <3> DEFINE b == [req |-> t.req, case |-> t.case, vol |-> t.vol, op |-> t.op]
      <3>1. NewAssignments(t) = {b} /\ b.case = t.case
        BY <2>1 DEF NewAssignments
      <3> HIDE DEF b
      <3>2. QED
        BY <2>1, <3>1
    <2>2. CASE t.op \notin AssigningOp
      BY <2>2 DEF NewAssignments
    <2>3. QED
      BY <2>1, <2>2
  <1>4. ASSUME NEW c \in Cases, NEW op \in AuditedOp
        PROVE  Audited(c, op)' <=> Audited(c, op) \/ (c = t.case /\ op = t.op)
    BY <1>1, <1>2 DEF Audited
  <1>5. ASSUME NEW c \in Cases
        PROVE  Staffed(c)' <=> Staffed(c) \/ (c = t.case /\ t.op \in AssigningOp)
    BY <1>1, <1>3 DEF Staffed
  <1>6. QED
    BY <1>4, <1>5

Bookkeeping ==
    /\ IsFiniteSet(assignments)
    /\ \A t \in open : t.req \in served
    /\ \A t, u \in open : t.req = u.req => t = u
    /\ \A a \in assignments : a.req \in served
    /\ \A a \in assignments, t \in open : a.req # t.req

LEMMA CommitBookkeeping ==
    ASSUME TypeOK, Bookkeeping, NEW t \in open, Commit(t)
    PROVE  Bookkeeping'
  <1>1. IsFiniteSet(NewAssignments(t))
    BY FS_EmptySet, FS_Singleton DEF NewAssignments
  <1>2. IsFiniteSet(assignments')
    BY <1>1, FS_Union DEF Commit, Bookkeeping
  <1>3. \A a \in assignments' : a \in assignments \/ a.req = t.req
    BY DEF Commit, NewAssignments
  <1>4. QED
    BY <1>2, <1>3 DEF Commit, Bookkeeping

\* The confirmed assignments of a volunteer after a commit.
LEMMA CommitConfirmed ==
    ASSUME TypeOK, Bookkeeping, NEW t \in open, Commit(t), NEW v \in Volunteers
    PROVE  /\ IsFiniteSet(Confirmed(v))
           /\ Cardinality(Confirmed(v)) \in Nat
           /\ t.op = "confirm" /\ t.vol = v =>
                Cardinality(Confirmed(v)') = Cardinality(Confirmed(v)) + 1
           /\ ~(t.op = "confirm" /\ t.vol = v) => Confirmed(v)' = Confirmed(v)
  <1>1. IsFiniteSet(Confirmed(v))
    BY FS_Subset DEF Bookkeeping, Confirmed
  <1>2. Cardinality(Confirmed(v)) \in Nat
    BY <1>1, FS_CardinalityType
  <1>3. ASSUME t.op = "confirm", t.vol = v
        PROVE  Cardinality(Confirmed(v)') = Cardinality(Confirmed(v)) + 1
    <2> DEFINE a == [req |-> t.req, case |-> t.case, vol |-> t.vol, op |-> t.op]
    <2>1. NewAssignments(t) = {a}
      BY <1>3 DEF NewAssignments, AssigningOp
    <2>2. a.vol = v /\ a.op = "confirm" /\ a.req = t.req
      BY <1>3
    <2>3. a \notin Confirmed(v)
      BY <2>2 DEF Bookkeeping, Confirmed
    <2>4. assignments' = assignments \cup {a}
      BY <2>1 DEF Commit
    <2> HIDE DEF a
    <2>5. Confirmed(v)' = Confirmed(v) \cup {a}
      BY <2>2, <2>4 DEF Confirmed
    <2>6. QED
      BY <1>1, <2>3, <2>5, FS_AddElement
  <1>4. ASSUME ~(t.op = "confirm" /\ t.vol = v)
        PROVE  Confirmed(v)' = Confirmed(v)
    BY <1>4 DEF Commit, Confirmed, NewAssignments
  <1>5. QED
    BY <1>1, <1>2, <1>3, <1>4

IInv ==
    /\ TypeOK
    /\ Bookkeeping
    /\ SnapshotsHold
    /\ NewIsUntouched
    /\ StatusExplained
    /\ ClosedWasAssigned
    /\ CounterWithinConfirmed

LEMMA CommitNew ==
    ASSUME IInv, NEW t \in open, Commit(t)
    PROVE  NewIsUntouched'
  <1> SUFFICES ASSUME NEW c \in Cases, cases'[c].status = "new"
               PROVE  /\ cases'[c].verification = "pending"
                      /\ ~cases'[c].closed
                      /\ ~Staffed(c)'
                      /\ \A op \in {"approve", "reject", "close"} : ~Audited(c, op)'
    BY DEF NewIsUntouched
  <1>1. TypeOK /\ SnapshotsHold /\ NewIsUntouched /\ t \in Transaction
    BY DEF IInv, TypeOK
  <1>2. CASE c # t.case
    BY <1>1, <1>2, CommitRow, CommitEvidence DEF NewIsUntouched, AuditedOp
  <1>3. CASE c = t.case
    <2>1. t.op \in {"update", "recalculate"} /\ cases[c].status = "new"
      BY <1>1, <1>3, CommitRow DEF SnapshotsHold, StagedChange, Flushed, Transaction, Op,
                                   AssigningOp
    <2>2. cases'[c].verification = cases[c].verification /\ cases'[c].closed = cases[c].closed
      BY <1>1, <1>3, <2>1, CommitRow DEF SnapshotsHold, StagedChange, Flushed
    <2>3. QED
      BY <1>1, <1>3, <2>1, <2>2, CommitEvidence DEF NewIsUntouched, AuditedOp, AssigningOp
  <1>4. QED
    BY <1>2, <1>3

LEMMA CommitExplained ==
    ASSUME IInv, NEW t \in open, Commit(t)
    PROVE  StatusExplained' /\ ClosedWasAssigned'
  <1>1. TypeOK /\ SnapshotsHold /\ StatusExplained /\ ClosedWasAssigned /\ t \in Transaction
    BY DEF IInv, TypeOK
  <1>2. ASSUME NEW c \in Cases
        PROVE  /\ cases'[c].status \notin {"in_progress", "resolved"}
               /\ cases'[c].status = "closed" => cases'[c].closed
               /\ cases'[c].closed => Audited(c, "close")' /\ Staffed(c)'
               /\ cases'[c].status = "assigned" => Staffed(c)'
               /\ cases'[c].verification = "verified" => Audited(c, "approve")'
               /\ cases'[c].verification = "disputed" => Audited(c, "reject")'
    <2>1. CASE c # t.case
      BY <1>1, <2>1, CommitRow, CommitEvidence DEF StatusExplained, ClosedWasAssigned, AuditedOp
    <2>2. CASE c = t.case
      <3>1. t.op \in Op
        BY <1>1 DEF Transaction
      <3>2. /\ cases'[c].status \notin {"in_progress", "resolved"}
            /\ cases'[c].status = "assigned" => Staffed(c)'
        BY <1>1, <2>2, <3>1, CommitRow, CommitEvidence
           DEF StatusExplained, SnapshotsHold, StagedChange, Flushed, Op, AssigningOp
      <3>3. cases'[c].closed => Audited(c, "close")' /\ Staffed(c)'
        BY <1>1, <2>2, <3>1, CommitRow, CommitEvidence
           DEF StatusExplained, ClosedWasAssigned, SnapshotsHold, StagedChange, Flushed,
               Op, AssigningOp, AuditedOp
      <3>4. cases'[c].status = "closed" => cases'[c].closed
        BY <1>1, <2>2, <3>1, CommitRow
           DEF StatusExplained, SnapshotsHold, StagedChange, Flushed, Op, AssigningOp
      <3>5. /\ cases'[c].verification = "verified" => Audited(c, "approve")'
            /\ cases'[c].verification = "disputed" => Audited(c, "reject")'
        BY <1>1, <2>2, <3>1, CommitRow, CommitEvidence
           DEF StatusExplained, SnapshotsHold, StagedChange, Flushed, Op, AuditedOp
      <3>6. QED
        BY <3>2, <3>3, <3>4, <3>5
    <2>3. QED
      BY <2>1, <2>2
  <1>3. QED
    BY <1>2 DEF StatusExplained, ClosedWasAssigned

LEMMA CommitCounter ==
    ASSUME IInv, NEW t \in open, Commit(t)
    PROVE  CounterWithinConfirmed'
  <1>1. /\ TypeOK /\ Bookkeeping /\ CounterWithinConfirmed
        /\ t.op = "confirm" =>
             t.vol \in Volunteers /\ t.count \in 0 .. Cardinality(Confirmed(t.vol))
    BY DEF IInv, SnapshotsHold, StagedChange, AssigningOp
  <1>2. ASSUME NEW v \in Volunteers
        PROVE  /\ counter'[v] <= Cardinality(Confirmed(v)')
               /\ Confirmed(v)' # {} => counter'[v] > 0
    <2>1. CASE t.op = "confirm" /\ t.vol = v
      <3>1. counter'[v] = t.count + 1
        BY <2>1 DEF Commit, TypeOK, IInv
      <3>2. Cardinality(Confirmed(v)') = Cardinality(Confirmed(v)) + 1
            /\ Cardinality(Confirmed(v)) \in Nat
        BY <1>1, <2>1, CommitConfirmed
      <3>3. QED
        BY <1>1, <2>1, <3>1, <3>2
    <2>2. CASE ~(t.op = "confirm" /\ t.vol = v)
      <3>1. counter'[v] = counter[v]
        BY <1>1, <2>2 DEF Commit, TypeOK
      <3>2. Confirmed(v)' = Confirmed(v)
        BY <1>1, <2>2, CommitConfirmed
      <3>3. QED
        BY <1>1, <3>1, <3>2 DEF CounterWithinConfirmed
    <2>3. QED
      BY <2>1, <2>2
  <1>3. QED
    BY <1>2 DEF CounterWithinConfirmed

LEMMA CommitSnapshots ==
    ASSUME IInv, NEW t \in open, Commit(t)
    PROVE  SnapshotsHold'
  <1>1. /\ TypeOK /\ Bookkeeping /\ SnapshotsHold
        /\ t \in Transaction /\ t.op \in Op
        /\ open' = open \ {t}
    BY DEF IInv, TypeOK, Commit, Transaction
  <1>2. ASSUME NEW u \in open'
        PROVE  /\ StagedChange(u)
               /\ u.loaded.status # "new" => cases'[u.case].status # "new"
               /\ u.loaded.closed => cases'[u.case].closed
               /\ u.op = "close" => Staffed(u.case)'
               /\ u.op = "confirm" => u.count \in 0 .. Cardinality(Confirmed(u.vol)')
    <2>1. /\ u \in open /\ u.case \in Cases
          /\ StagedChange(u)
          /\ u.loaded.status # "new" => cases[u.case].status # "new"
          /\ u.loaded.closed => cases[u.case].closed
          /\ u.op = "close" => Staffed(u.case)
          /\ u.op = "confirm" =>
               u.vol \in Volunteers /\ u.count \in 0 .. Cardinality(Confirmed(u.vol))
      BY <1>1 DEF SnapshotsHold, TypeOK, Transaction, StagedChange, AssigningOp
    <2>2. u.loaded.status # "new" => cases'[u.case].status # "new"
      <3>1. CASE u.case # t.case
        BY <1>1, <2>1, <3>1, CommitRow
      <3>2. CASE u.case = t.case
        BY <1>1, <2>1, <3>2, CommitRow
           DEF SnapshotsHold, StagedChange, Flushed, Op, AssigningOp
      <3>3. QED
        BY <3>1, <3>2
    <2>3. u.loaded.closed => cases'[u.case].closed
      <3>1. CASE u.case # t.case
        BY <1>1, <2>1, <3>1, CommitRow
      <3>2. CASE u.case = t.case
        BY <1>1, <2>1, <3>2, CommitRow DEF SnapshotsHold, StagedChange, Flushed
      <3>3. QED
        BY <3>1, <3>2
    <2>4. u.op = "close" => Staffed(u.case)'
      BY <1>1, <2>1, CommitEvidence
    <2>5. ASSUME u.op = "confirm"
          PROVE  u.count \in 0 .. Cardinality(Confirmed(u.vol)')
      <3>1. \/ Cardinality(Confirmed(u.vol)') = Cardinality(Confirmed(u.vol)) + 1
            \/ Cardinality(Confirmed(u.vol)') = Cardinality(Confirmed(u.vol))
        BY <1>1, <2>1, <2>5, CommitConfirmed
      <3>2. Cardinality(Confirmed(u.vol)) \in Nat
        BY <1>1, <2>1, <2>5, CommitConfirmed
      <3>3. QED
        BY <2>1, <2>5, <3>1, <3>2
    <2>6. QED
      BY <2>1, <2>2, <2>3, <2>4, <2>5
  <1>3. QED
    BY <1>2 DEF SnapshotsHold

-----------------------------------------------------------------------------
(* The invariant. *)

LEMMA InitInvariant == Init => IInv
  <1> SUFFICES ASSUME Init
               PROVE  IInv
    OBVIOUS
  <1>1. ASSUME NEW c \in Cases
        PROVE  /\ cases[c] \in Row
               /\ cases[c].status \in {"new", "verified"}
               /\ cases[c].verification = "pending"
               /\ ~cases[c].closed
    <2>1. cases[c] \in InitialRows
      BY DEF Init
    <2>2. QED
      BY <2>1 DEF InitialRows, CreatedRow, Row, CaseStatus, VerificationStatus
  <1>2. TypeOK
    BY <1>1 DEF Init, TypeOK, InitialRows
  <1>3. Bookkeeping /\ SnapshotsHold
    BY FS_EmptySet DEF Init, Bookkeeping, SnapshotsHold
  <1>4. NewIsUntouched /\ StatusExplained /\ ClosedWasAssigned
    BY <1>1 DEF Init, NewIsUntouched, StatusExplained, ClosedWasAssigned, Staffed, Audited
  <1>5. CounterWithinConfirmed
    <2>1. ASSUME NEW v \in Volunteers
          PROVE  Confirmed(v) = {} /\ counter[v] = 0
      BY DEF Init, Confirmed
    <2>2. QED
      BY <2>1, FS_EmptySet DEF CounterWithinConfirmed
  <1>6. QED
    BY <1>2, <1>3, <1>4, <1>5 DEF IInv

LEMMA ReceiveInvariant ==
    ASSUME IInv, NEW r \in Requests, NEW c \in Cases, Receive(r, c)
    PROVE  IInv'
  <1>1. PICK t : Opens(r, c, t)
    BY ReceiveOpens DEF IInv
  <1>2. TypeOK'
    BY ReceiveType DEF IInv
  <1>3. /\ UNCHANGED <<cases, counter, assignments, audit, stale>>
        /\ \A d, op : Audited(d, op)' = Audited(d, op)
        /\ \A d : Staffed(d)' = Staffed(d)
        /\ \A v : Confirmed(v)' = Confirmed(v)
    BY <1>1 DEF Opens, Audited, Staffed, Confirmed
  <1>4. /\ NewIsUntouched' /\ StatusExplained' /\ ClosedWasAssigned'
        /\ CounterWithinConfirmed'
    BY <1>3 DEF IInv, NewIsUntouched, StatusExplained, ClosedWasAssigned,
                CounterWithinConfirmed
  <1>5. Bookkeeping'
    BY <1>1, <1>3 DEF IInv, Bookkeeping, Opens
  <1>6. SnapshotsHold'
    <2>1. t \in Transaction
      BY <1>1, <1>2 DEF Opens, TypeOK
    <2>2. t.op = "close" => Staffed(t.case)
      BY <1>1 DEF Opens, IInv, StatusExplained
    <2>3. t.op = "confirm" => t.count \in 0 .. Cardinality(Confirmed(t.vol))
      <3> SUFFICES ASSUME t.op = "confirm"
                   PROVE  t.count \in 0 .. Cardinality(Confirmed(t.vol))
        OBVIOUS
      <3>1. t.vol \in Volunteers /\ t.count = counter[t.vol]
        BY <1>1 DEF Opens, StagedChange, AssigningOp
      <3>2. counter[t.vol] \in Nat /\ counter[t.vol] <= Cardinality(Confirmed(t.vol))
        BY <3>1 DEF IInv, TypeOK, CounterWithinConfirmed
      <3>3. Cardinality(Confirmed(t.vol)) \in Nat
        BY FS_Subset, FS_CardinalityType DEF IInv, Bookkeeping, Confirmed
      <3>4. QED
        BY <3>1, <3>2, <3>3
    <2>4. /\ t.loaded.status # "new" => cases[t.case].status # "new"
          /\ t.loaded.closed => cases[t.case].closed
          /\ StagedChange(t)
      BY <1>1 DEF Opens
    <2>5. ASSUME NEW u \in open'
          PROVE  /\ StagedChange(u)
                 /\ u.loaded.status # "new" => cases[u.case].status # "new"
                 /\ u.loaded.closed => cases[u.case].closed
                 /\ u.op = "close" => Staffed(u.case)
                 /\ u.op = "confirm" => u.count \in 0 .. Cardinality(Confirmed(u.vol))
      <3>1. u \in open \/ u = t
        BY <1>1 DEF Opens
      <3>2. QED
        BY <2>2, <2>3, <2>4, <3>1 DEF IInv, SnapshotsHold
    <2>6. QED
      BY <1>3, <2>5 DEF SnapshotsHold
  <1>7. QED
    BY <1>2, <1>4, <1>5, <1>6 DEF IInv

LEMMA NextInvariant == IInv /\ [Next]_vars => IInv'
  <1> SUFFICES ASSUME IInv, [Next]_vars
               PROVE  IInv'
    OBVIOUS
  <1>1. ASSUME NEW r \in Requests, NEW c \in Cases, Receive(r, c)
        PROVE  IInv'
    BY <1>1, ReceiveInvariant
  <1>2. ASSUME NEW t \in open, Commit(t)
        PROVE  IInv'
    <2>1. TypeOK /\ Bookkeeping /\ SnapshotsHold
      BY DEF IInv
    <2>2. TypeOK' /\ Bookkeeping'
      BY <1>2, <2>1, CommitType, CommitBookkeeping
    <2>3. QED
      BY <1>2, <2>2, CommitSnapshots, CommitNew, CommitExplained, CommitCounter DEF IInv
  <1>3. ASSUME NEW t \in open, Rollback(t)
        PROVE  IInv'
    <2>1. /\ UNCHANGED <<cases, counter, assignments, audit, served, stale>>
          /\ open' \subseteq open
          /\ \A d, op : Audited(d, op)' = Audited(d, op)
          /\ \A d : Staffed(d)' = Staffed(d)
          /\ \A v : Confirmed(v)' = Confirmed(v)
      BY <1>3 DEF Rollback, Audited, Staffed, Confirmed
    <2>2. TypeOK' /\ Bookkeeping' /\ SnapshotsHold'
      BY <2>1 DEF IInv, TypeOK, Bookkeeping, SnapshotsHold
    <2>3. QED
      BY <2>1, <2>2 DEF IInv, NewIsUntouched, StatusExplained, ClosedWasAssigned,
                        CounterWithinConfirmed
  <1>4. CASE UNCHANGED vars
    <2>1. /\ UNCHANGED <<cases, counter, assignments, audit, open, served, stale>>
          /\ \A d, op : Audited(d, op)' = Audited(d, op)
          /\ \A d : Staffed(d)' = Staffed(d)
          /\ \A v : Confirmed(v)' = Confirmed(v)
      BY <1>4 DEF vars, Audited, Staffed, Confirmed
    <2>2. TypeOK' /\ Bookkeeping' /\ SnapshotsHold'
      BY <2>1 DEF IInv, TypeOK, Bookkeeping, SnapshotsHold
    <2>3. QED
      BY <2>1, <2>2 DEF IInv, NewIsUntouched, StatusExplained, ClosedWasAssigned,
                        CounterWithinConfirmed
  <1>5. QED
    BY <1>1, <1>2, <1>3, <1>4 DEF Next

\* Every reachable state, with the types of CaseWorkflow, satisfies the
\* inductive invariant.
THEOREM Invariance == Spec => []IInv
  BY InitInvariant, NextInvariant, PTL DEF Spec

\* The rows, sessions and counters keep their types.
THEOREM TypeCorrect == Spec => []TypeOK
  BY Invariance, PTL DEF IInv

\* What a session read is still true when it commits, whatever committed
\* meanwhile.
THEOREM SnapshotsStayValid == Spec => []SnapshotsHold
  BY Invariance, PTL DEF IInv

\* No interleaving of requests takes a case back to new or acts on a case
\* and leaves it new.
THEOREM NewStaysUntouched == Spec => []NewIsUntouched
  BY Invariance, PTL DEF IInv

\* Every decision a row shows is explained by a committed audit record or
\* assignment.
THEOREM DecisionsExplained == Spec => []StatusExplained
  BY Invariance, PTL DEF IInv

\* A case with a closing time has an assignment.
THEOREM ClosedNeedsAssignment == Spec => []ClosedWasAssigned
  BY Invariance, PTL DEF IInv

\* The counter of a volunteer is between one and the number of confirmed
\* assignments as soon as there is one.
THEOREM CounterBounded == Spec => []CounterWithinConfirmed
  BY Invariance, PTL DEF IInv

-----------------------------------------------------------------------------
(* What holds of a row until a commit from an outdated row writes it. *)

\* A row whose score was computed from its own inputs, or by hand.
CurrentRisk(row) ==
    row.risk # ByHand => row.risk.urgency = row.urgency /\ row.risk.people = row.people

\* What a request staged is as good as what it loaded.
StagedWell(t) ==
    /\ CurrentRisk(t.loaded) => CurrentRisk(t.mine)
    /\ t.op = "reject" => t.req \in t.mine.notes
    /\ t.op # "update" => t.loaded.notes \subseteq t.mine.notes

StagesHold == \A t \in open : StagedWell(t)

FreshInv == IInv /\ StagesHold /\ RiskIsCurrent /\ ReasonsKept

\* A row that nobody changed becomes what the request made of it.
LEMMA FreshMerge ==
    ASSUME NEW t \in Transaction
    PROVE  MergeRow(t.loaded, t) = t.mine
  <1>1. t.mine \in Row
    BY DEF Transaction
  <1>2. QED
    BY <1>1 DEF Row, MergeRow, Flushed

LEMMA ReceiveStagesWell ==
    ASSUME TypeOK, NEW r \in Requests, NEW c \in Cases, Receive(r, c)
    PROVE  \E t : open' = open \cup {t} /\ StagedWell(t)
  <1>0. cases[c] \in Row
    BY DEF TypeOK
  <1> DEFINE T(op, mine, v, n) == [req |-> r, op |-> op, case |-> c, loaded |-> cases[c],
                                   mine |-> mine, vol |-> v, count |-> n]
  <1>1. CASE Update(r, c)
    <2>1. PICK u \in Levels, p \in Levels, n \in Levels, text \in {{}, cases[c].notes},
               rescore \in BOOLEAN :
            LET edited == [cases[c] EXCEPT !.urgency = u, !.people = p, !.needs = n,
                                           !.notes = text]
            IN  /\ ~rescore => u = cases[c].urgency /\ p = cases[c].people
                /\ StageCase(r, "update", c,
                       IF rescore THEN [edited EXCEPT !.risk = ComputeRisk(edited)] ELSE edited)
      BY <1>1 DEF Update
    <2> DEFINE edited == [cases[c] EXCEPT !.urgency = u, !.people = p, !.needs = n,
                                          !.notes = text]
               mine == IF rescore THEN [edited EXCEPT !.risk = ComputeRisk(edited)] ELSE edited
    <2>2. /\ edited.risk = cases[c].risk /\ edited.urgency = u /\ edited.people = p
          /\ edited \in Row
      BY <1>0 DEF Row
    <2>3. CurrentRisk(cases[c]) => CurrentRisk(mine)
      <3> HIDE DEF edited
      <3>1. CASE rescore
        BY <2>2, <3>1 DEF Row, ComputeRisk, CurrentRisk
      <3>2. CASE ~rescore
        BY <2>1, <2>2, <3>2 DEF CurrentRisk
      <3>3. QED
        BY <3>1, <3>2
    <2> HIDE DEF mine
    <2>4. StagedWell(T("update", mine, NoVolunteer, 0))
      BY <2>3 DEF StagedWell
    <2>5. open' = open \cup {T("update", mine, NoVolunteer, 0)}
      BY <2>1 DEF StageCase, Stage, mine
    <2>6. QED
      BY <2>4, <2>5
  <1>2. CASE Recalculate(r, c)
    <2> DEFINE mine == [cases[c] EXCEPT !.risk = ComputeRisk(cases[c])]
    <2>1. CurrentRisk(mine) /\ mine.notes = cases[c].notes
      BY <1>0 DEF Row, ComputeRisk, CurrentRisk
    <2>2. open' = open \cup {T("recalculate", mine, NoVolunteer, 0)}
      BY <1>2 DEF Recalculate, StageCase, Stage
    <2> HIDE DEF mine
    <2>3. StagedWell(T("recalculate", mine, NoVolunteer, 0))
      BY <2>1 DEF StagedWell
    <2>4. QED
      BY <2>2, <2>3
  <1>3. CASE Reject(r, c)
    <2> DEFINE mine == [cases[c] EXCEPT !.status = "rejected", !.verification = "disputed",
                                        !.notes = @ \cup {r}]
    <2>1. /\ mine.risk = cases[c].risk /\ mine.urgency = cases[c].urgency
          /\ mine.people = cases[c].people /\ mine.notes = cases[c].notes \cup {r}
      BY <1>0 DEF Row
    <2>2. open' = open \cup {T("reject", mine, NoVolunteer, 0)}
      BY <1>3 DEF Reject, StageCase, Stage
    <2> HIDE DEF mine
    <2>3. StagedWell(T("reject", mine, NoVolunteer, 0))
      BY <2>1 DEF StagedWell, CurrentRisk
    <2>4. QED
      BY <2>2, <2>3
  <1>4. ASSUME NEW mine, NEW op \in {"approve", "close", "delete", "assign", "confirm"},
               NEW v, NEW n, op = "confirm" => v \in Volunteers,
               Stage(r, op, c, mine, v, n),
               mine.risk = cases[c].risk, mine.urgency = cases[c].urgency,
               mine.people = cases[c].people, mine.notes = cases[c].notes
        PROVE  \E t : open' = open \cup {t} /\ StagedWell(t)
    <2>1. StagedWell(T(op, mine, v, n))
      BY <1>4 DEF StagedWell, CurrentRisk
    <2>2. open' = open \cup {T(op, mine, v, n)}
      BY <1>4 DEF Stage
    <2>3. QED
      BY <2>1, <2>2
  <1>5. CASE Approve(r, c)
    <2> DEFINE mine == [cases[c] EXCEPT !.status = "verified", !.verification = "verified"]
    <2>1. /\ mine.risk = cases[c].risk /\ mine.urgency = cases[c].urgency
          /\ mine.people = cases[c].people /\ mine.notes = cases[c].notes
      BY <1>0 DEF Row
    <2>2. Stage(r, "approve", c, mine, NoVolunteer, 0)
      BY <1>5 DEF Approve, StageCase
    <2> HIDE DEF mine
    <2>3. QED
      BY <1>4, <2>1, <2>2
  <1>6. CASE Close(r, c)
    <2> DEFINE mine == [cases[c] EXCEPT !.status = "closed", !.closed = TRUE]
    <2>1. /\ mine.risk = cases[c].risk /\ mine.urgency = cases[c].urgency
          /\ mine.people = cases[c].people /\ mine.notes = cases[c].notes
      BY <1>0 DEF Row
    <2>2. Stage(r, "close", c, mine, NoVolunteer, 0)
      BY <1>6 DEF Close, StageCase
    <2> HIDE DEF mine
    <2>3. QED
      BY <1>4, <2>1, <2>2
  <1>7. CASE Delete(r, c)
    <2> DEFINE mine == [cases[c] EXCEPT !.status = "rejected"]
    <2>1. /\ mine.risk = cases[c].risk /\ mine.urgency = cases[c].urgency
          /\ mine.people = cases[c].people /\ mine.notes = cases[c].notes
      BY <1>0 DEF Row
    <2>2. Stage(r, "delete", c, mine, NoVolunteer, 0)
      BY <1>7 DEF Delete, StageCase
    <2> HIDE DEF mine
    <2>3. QED
      BY <1>4, <2>1, <2>2
  <1>8. ASSUME NEW v \in Volunteers, AssignVolunteer(r, c, v) \/ ConfirmAllocation(r, c, v)
        PROVE  \E t : open' = open \cup {t} /\ StagedWell(t)
    <2> DEFINE mine == [cases[c] EXCEPT !.status = "assigned"]
    <2>1. /\ mine.risk = cases[c].risk /\ mine.urgency = cases[c].urgency
          /\ mine.people = cases[c].people /\ mine.notes = cases[c].notes
      BY <1>0 DEF Row
    <2>2. \/ Stage(r, "assign", c, mine, v, 0)
          \/ Stage(r, "confirm", c, mine, v, counter[v])
      BY <1>8 DEF AssignVolunteer, ConfirmAllocation
    <2> HIDE DEF mine
    <2>3. QED
      BY <1>4, <2>1, <2>2
  <1>9. QED
    BY <1>1, <1>2, <1>3, <1>5, <1>6, <1>7, <1>8 DEF Receive

\* A case that a commit writes and does not make stale is what the request
\* made of the row it loaded.
LEMMA FreshCommit ==
    ASSUME TypeOK, NEW t \in open, Commit(t), NEW c \in Cases \ stale'
    PROVE  /\ c \notin stale
           /\ c # t.case => cases'[c] = cases[c]
           /\ c = t.case => t.loaded = cases[c] /\ cases'[c] = t.mine
  <1>1. t \in Transaction /\ t.case \in Cases
    BY DEF TypeOK, Transaction
  <1>2. stale' = stale \cup Outdated(t)
        /\ cases' = [cases EXCEPT ![t.case] = MergeRow(cases[t.case], t)]
    BY DEF Commit
  <1>3. c \notin stale /\ c \notin Outdated(t)
    BY <1>2
  <1>4. c = t.case => t.loaded = cases[c]
    BY <1>3 DEF Outdated
  <1>5. c # t.case => cases'[c] = cases[c]
    BY <1>1, <1>2 DEF TypeOK
  <1>6. c = t.case => cases'[c] = t.mine
    BY <1>1, <1>2, <1>4, FreshMerge DEF TypeOK
  <1>7. QED
    BY <1>3, <1>4, <1>5, <1>6

LEMMA CommitFresh ==
    ASSUME FreshInv, NEW t \in open, Commit(t)
    PROVE  StagesHold' /\ RiskIsCurrent' /\ ReasonsKept'
  <1>1. TypeOK /\ Bookkeeping /\ StagedWell(t) /\ t \in Transaction
    BY DEF FreshInv, IInv, StagesHold, TypeOK
  <1>2. /\ stale' = stale \cup Outdated(t) /\ open' = open \ {t}
        /\ audit' = audit \cup NewAudit(t)
    BY DEF Commit
  <1>3. StagesHold'
    BY <1>2 DEF FreshInv, StagesHold
  <1>4. RiskIsCurrent'
    <2> SUFFICES ASSUME NEW c \in Cases \ stale'
                 PROVE  CurrentRisk(cases'[c])
      BY DEF RiskIsCurrent, CurrentRisk
    <2>1. c \in Cases \ stale /\ CurrentRisk(cases[c])
      BY <1>2 DEF FreshInv, RiskIsCurrent, CurrentRisk
    <2>2. CASE c # t.case
      BY <1>1, <2>1, <2>2, FreshCommit
    <2>3. CASE c = t.case
      BY <1>1, <2>1, <2>3, FreshCommit DEF StagedWell
    <2>4. QED
      BY <2>2, <2>3
  <1>5. ReasonsKept'
    <2> SUFFICES ASSUME NEW a \in audit', a.op = "reject", a.case \notin stale',
                        ~Audited(a.case, "update")'
                 PROVE  a.req \in cases'[a.case].notes
      BY DEF ReasonsKept
    <2>1. a.case \in Cases /\ a.req \in Requests
      <3>1. TypeOK'
        BY <1>1, CommitType DEF FreshInv, IInv
      <3>2. QED
        BY <3>1 DEF TypeOK, AuditRecord
    <2>2. ~Audited(a.case, "update") /\ ~(a.case = t.case /\ t.op = "update")
      BY <1>1, <2>1, CommitEvidence DEF AuditedOp
    <2>3. CASE a \in audit
      <3>1. a.req \in cases[a.case].notes
        BY <1>2, <2>2, <2>3 DEF FreshInv, ReasonsKept
      <3>2. QED
        BY <1>1, <2>1, <2>2, <3>1, FreshCommit DEF StagedWell
    <2>4. CASE a \in NewAudit(t)
      <3>1. a.req = t.req /\ a.case = t.case /\ t.op = "reject"
        BY <2>4 DEF NewAudit
      <3>2. QED
        BY <1>1, <2>1, <3>1, FreshCommit DEF StagedWell
    <2>5. QED
      BY <1>2, <2>3, <2>4
  <1>6. QED
    BY <1>3, <1>4, <1>5

LEMMA InitFresh == Init => FreshInv
  <1> SUFFICES ASSUME Init
               PROVE  FreshInv
    OBVIOUS
  <1>1. ASSUME NEW c \in Cases
        PROVE  CurrentRisk(cases[c])
    <2>1. cases[c] \in InitialRows
      BY DEF Init
    <2>2. cases[c].risk = ByHand \/ cases[c].risk = ComputeRisk(cases[c])
      BY <2>1 DEF InitialRows, CreatedRow
    <2>3. QED
      BY <2>2 DEF ComputeRisk, CurrentRisk
  <1>2. RiskIsCurrent
    BY <1>1 DEF RiskIsCurrent, CurrentRisk
  <1>3. StagesHold /\ ReasonsKept
    BY DEF Init, StagesHold, ReasonsKept
  <1>4. QED
    BY <1>2, <1>3, InitInvariant DEF FreshInv

LEMMA NextFresh == FreshInv /\ [Next]_vars => FreshInv'
  <1> SUFFICES ASSUME FreshInv, [Next]_vars
               PROVE  FreshInv'
    OBVIOUS
  <1>1. IInv'
    BY NextInvariant DEF FreshInv
  <1>2. ASSUME UNCHANGED <<cases, counter, assignments, audit, stale>>
        PROVE  RiskIsCurrent' /\ ReasonsKept'
    <2>1. \A d, op : Audited(d, op)' = Audited(d, op)
      BY <1>2 DEF Audited
    <2>2. QED
      BY <1>2, <2>1 DEF FreshInv, RiskIsCurrent, ReasonsKept
  <1>3. ASSUME NEW r \in Requests, NEW c \in Cases, Receive(r, c)
        PROVE  FreshInv'
    <2>1. UNCHANGED <<cases, counter, assignments, audit, stale>>
      BY <1>3, ReceiveOpens DEF FreshInv, IInv, Opens
    <2>2. PICK t : open' = open \cup {t} /\ StagedWell(t)
      BY <1>3, ReceiveStagesWell DEF FreshInv, IInv
    <2>3. StagesHold'
      BY <2>2 DEF FreshInv, StagesHold
    <2>4. QED
      BY <1>1, <1>2, <2>1, <2>3 DEF FreshInv
  <1>4. ASSUME NEW t \in open, Commit(t)
        PROVE  FreshInv'
    BY <1>1, <1>4, CommitFresh DEF FreshInv
  <1>5. ASSUME NEW t \in open, Rollback(t)
        PROVE  FreshInv'
    BY <1>1, <1>2, <1>5 DEF FreshInv, Rollback, StagesHold
  <1>6. CASE UNCHANGED vars
    BY <1>1, <1>2, <1>6 DEF FreshInv, vars, StagesHold
  <1>7. QED
    BY <1>3, <1>4, <1>5, <1>6 DEF Next

\* Both invariants together hold of the interleaved system.
THEOREM FreshInvariance == Spec => []FreshInv
  BY InitFresh, NextFresh, PTL DEF Spec

\* The stored score of a case belongs to the stored urgency and number of
\* people until a commit from an outdated row writes the case.
THEOREM RiskStaysCurrent == Spec => []RiskIsCurrent
  BY FreshInvariance, PTL DEF FreshInv

\* The reason of a rejection is in the text of the case until staff edit the
\* case or a request that read it before writes it.
THEOREM ReasonsStay == Spec => []ReasonsKept
  BY FreshInvariance, PTL DEF FreshInv

LEMMA StepVerifies ==
    ASSUME IInv, [Next]_vars
    PROVE  [\A c \in Cases :
              cases'[c].status = "verified" /\ cases[c].status # "verified"
                  => cases[c].status = "new" \/ c \in stale']_vars
  <1> SUFFICES ASSUME Next, NEW c \in Cases, c \notin stale',
                      cases'[c].status = "verified", cases[c].status # "verified"
               PROVE  cases[c].status = "new"
    OBVIOUS
  <1>1. ASSUME NEW r \in Requests, NEW d \in Cases, Receive(r, d)
        PROVE  FALSE
    BY <1>1, ReceiveOpens DEF IInv, Opens
  <1>2. ASSUME NEW t \in open, Commit(t)
        PROVE  cases[c].status = "new"
    <2>1. TypeOK /\ StagedChange(t) /\ t.op \in Op
      BY DEF IInv, SnapshotsHold, TypeOK, Transaction
    <2>2. c = t.case /\ t.loaded = cases[c] /\ cases'[c] = t.mine
      BY <1>2, <2>1, FreshCommit
    <2>3. QED
      BY <2>1, <2>2 DEF StagedChange, Op, AssigningOp
  <1>3. ASSUME NEW t \in open, Rollback(t)
        PROVE  FALSE
    BY <1>3 DEF Rollback
  <1>4. QED
    BY <1>1, <1>2, <1>3 DEF Next

\* Only a case that is new becomes verified, but for an approval that read
\* the case before its last change.
THEOREM OnlyNewBecomesVerified == Spec => VerifiedOnlyFromNew
  BY Invariance, StepVerifies, PTL DEF Spec, VerifiedOnlyFromNew

-----------------------------------------------------------------------------
(* The concurrent workflow implements CaseEvidence. *)

LEMMA InitEvidence == Init => Evidence!Init
  <1> SUFFICES ASSUME Init
               PROVE  Evidence!Init
    OBVIOUS
  <1>1. IInv
    BY InitInvariant
  <1>2. ASSUME NEW c \in Cases
        PROVE  cases[c].status \in {"new", "verified"} /\ ~cases[c].closed
    <2>1. cases[c] \in InitialRows
      BY DEF Init
    <2>2. QED
      BY <2>1 DEF InitialRows, CreatedRow
  <1>3. QED
    BY <1>2 DEF Init, Evidence!Init, Audited, Staffed

\* Each commit is the move of CaseEvidence with the name of its operation;
\* a commit that changes neither status nor evidence is a stuttering step.
LEMMA CommitImplements ==
    ASSUME IInv, NEW t \in open, Commit(t)
    PROVE  [Evidence!Next]_(Evidence!vars)
  <1> DEFINE c == t.case
             status == [d \in Cases |-> cases[d].status]
             has(op) == {d \in Cases : Audited(d, op)}
             ended == {d \in Cases : cases[d].closed}
             staffed == {d \in Cases : Staffed(d)}
  <1>1. /\ TypeOK /\ SnapshotsHold /\ ClosedWasAssigned
        /\ t \in Transaction /\ t.op \in Op /\ c \in Cases
        /\ StagedChange(t)
    BY DEF IInv, TypeOK, Transaction, SnapshotsHold
  <1>2. /\ \A d \in Cases : d # c => cases'[d] = cases[d]
        /\ cases'[c].status = Flushed(cases[c].status, t.loaded.status, t.mine.status)
        /\ cases'[c].closed = Flushed(cases[c].closed, t.loaded.closed, t.mine.closed)
    BY <1>1, CommitRow
  <1>3. status' = [status EXCEPT ![c] = cases'[c].status]
    BY <1>1, <1>2
  <1>4. /\ has("approve")' = IF t.op = "approve" THEN has("approve") \cup {c} ELSE has("approve")
        /\ has("reject")' = IF t.op = "reject" THEN has("reject") \cup {c} ELSE has("reject")
        /\ staffed' = IF t.op \in AssigningOp THEN staffed \cup {c} ELSE staffed
    BY <1>1, CommitEvidence DEF AuditedOp
  <1>5. ended' = IF t.op = "close" THEN ended \cup {c} ELSE ended
    <2>1. CASE t.op = "close"
      <3>1. cases'[c].closed
        BY <1>1, <1>2, <2>1 DEF StagedChange, SnapshotsHold, Flushed
      <3>2. QED
        BY <1>1, <1>2, <2>1, <3>1
    <2>2. CASE t.op # "close"
      BY <1>1, <1>2, <2>2 DEF StagedChange, Flushed
    <2>3. QED
      BY <2>1, <2>2
  <1>6. cases[c].status = "new" => t.loaded.status = "new"
    BY <1>1 DEF SnapshotsHold
  <1>7. status[c] = cases[c].status /\ (cases'[c].status = cases[c].status => status' = status)
    BY <1>1, <1>3
  <1>8. CASE t.op \in {"update", "recalculate"}
    <2>1. status' = status
      BY <1>1, <1>2, <1>7, <1>8 DEF StagedChange, Flushed
    <2>2. QED
      BY <1>4, <1>5, <1>8, <2>1 DEF Evidence!vars, AssigningOp
  <1>9. CASE t.op = "approve"
    <2>1. cases'[c].status = "verified"
      BY <1>1, <1>2, <1>9 DEF StagedChange, Flushed
    <2>2. Evidence!Approve(c)
      BY <1>3, <1>4, <1>5, <1>9, <2>1 DEF Evidence!Approve, Evidence!Becomes, AssigningOp
    <2>3. QED
      BY <1>1, <2>2 DEF Evidence!Next
  <1>10. CASE t.op = "reject"
    <2>1. cases'[c].status = "rejected" \/ (status[c] # "new" /\ status' = status)
      BY <1>1, <1>2, <1>6, <1>7, <1>10 DEF StagedChange, Flushed
    <2>2. Evidence!Reject(c)
      BY <1>3, <1>4, <1>5, <1>10, <2>1
         DEF Evidence!Reject, Evidence!Becomes, Evidence!BecomesOrStays, AssigningOp
    <2>3. QED
      BY <1>1, <2>2 DEF Evidence!Next
  <1>11. CASE t.op = "delete"
    <2>1. cases'[c].status = "rejected" \/ status' = status
      BY <1>1, <1>2, <1>7, <1>11 DEF StagedChange, Flushed
    <2>2. Evidence!Delete(c) \/ UNCHANGED Evidence!vars
      BY <1>3, <1>4, <1>5, <1>11, <2>1
         DEF Evidence!Delete, Evidence!Becomes, Evidence!vars, AssigningOp
    <2>3. QED
      BY <1>1, <2>2 DEF Evidence!Next
  <1>12. CASE t.op = "close"
    <2>1. cases'[c].status = "closed" /\ c \in staffed
      BY <1>1, <1>2, <1>12 DEF StagedChange, Flushed, SnapshotsHold
    <2>2. Evidence!Close(c)
      BY <1>3, <1>4, <1>5, <1>12, <2>1 DEF Evidence!Close, Evidence!Becomes, AssigningOp
    <2>3. QED
      BY <1>1, <2>2 DEF Evidence!Next
  <1>13. CASE t.op \in AssigningOp
    <2>1. cases'[c].status = "assigned" \/ (status[c] # "new" /\ status' = status)
      BY <1>1, <1>2, <1>6, <1>7, <1>13 DEF StagedChange, Flushed, AssigningOp
    <2>2. Evidence!Assign(c)
      BY <1>3, <1>4, <1>5, <1>13, <2>1
         DEF Evidence!Assign, Evidence!Becomes, Evidence!BecomesOrStays, AssigningOp
    <2>3. QED
      BY <1>1, <2>2 DEF Evidence!Next
  <1>14. QED
    BY <1>1, <1>8, <1>9, <1>10, <1>11, <1>12, <1>13 DEF Op, AssigningOp

LEMMA NextImplements == IInv /\ [Next]_vars => [Evidence!Next]_(Evidence!vars)
  <1> SUFFICES ASSUME IInv, [Next]_vars
               PROVE  [Evidence!Next]_(Evidence!vars)
    OBVIOUS
  <1>1. ASSUME UNCHANGED <<cases, audit, assignments>>
        PROVE  UNCHANGED Evidence!vars
    BY <1>1 DEF Evidence!vars, Audited, Staffed
  <1>2. ASSUME NEW r \in Requests, NEW c \in Cases, Receive(r, c)
        PROVE  UNCHANGED Evidence!vars
    BY <1>1, <1>2, ReceiveOpens DEF Opens, IInv
  <1>3. ASSUME NEW t \in open, Rollback(t)
        PROVE  UNCHANGED Evidence!vars
    BY <1>1, <1>3 DEF Rollback
  <1>4. CASE UNCHANGED vars
    BY <1>1, <1>4 DEF vars
  <1>5. QED
    BY <1>2, <1>3, <1>4, CommitImplements DEF Next

\* However its requests interleave, the workflow implements CaseEvidence.
THEOREM WorkflowImplementsEvidence == Spec => ImplementsEvidence
  BY Invariance, InitEvidence, NextImplements, PTL DEF Spec, ImplementsEvidence, Evidence!Spec

=============================================================================
