-------------------------------- MODULE Triage --------------------------------
(***************************************************************************)
(* The alerts about critical cases that nobody takes care of: the runs of  *)
(* the Celery task check_unassigned_critical_cases, the staff who work on  *)
(* the alerts, and the cases, which change all the while as CaseEvidence   *)
(* allows, the specification that CaseWorkflow implements.                 *)
(*                                                                         *)
(* A run selects the critical cases that are new or verified, then asks    *)
(* for each of them in two queries whether it has an assignment and        *)
(* whether an active alert exists, and in the end commits the alerts it    *)
(* has added.  Beat starts a run every 30 minutes and POST /reminders/run  *)
(* at any time: the worker processes execute as many at once as they are.  *)
(***************************************************************************)
EXTENDS Integers, FiniteSets

CONSTANTS
    Cases,      \* rows of the table cases, all of one organization
    Workers,    \* the worker processes
    MaxActs,    \* bound: how often staff create or reopen or resolve an alert
    MaxFaults   \* bound: how often a run ends without its commit

ASSUME WorkersAssumption == IsFiniteSet(Workers)
ASSUME BoundsAssumption == MaxActs \in Nat /\ MaxFaults \in Nat

VARIABLES
    status,    \* cases.status
    critical,  \* the cases whose urgency_level is critical
    staffed,   \* the cases with a row in assignments
    active,    \* how many active unassigned_critical alerts each case has
    resolved,  \* how many resolved ones
    runs,      \* what each worker process is doing
    acts,      \* how often staff have acted on alerts
    faults,    \* how often a run has failed
    opened     \* history: the alerts of a case that staff created or reopened

vars == <<status, critical, staffed, active, resolved, runs, acts, faults, opened>>

-----------------------------------------------------------------------------
CaseStatus ==
    {"new", "verified", "assigned", "in_progress", "resolved", "closed", "rejected"}

\* A run: the cases it still has to ask about, those it found without an
\* assignment, and those it will raise an alert for.  due and missed are
\* history: the cases that were neglected when the run began, and those of
\* them that have been so ever since, without an active alert.
Run == [busy : BOOLEAN, todo : SUBSET Cases, bare : SUBSET Cases, found : SUBSET Cases,
        due : SUBSET Cases, missed : SUBSET Cases]

Idle == [busy |-> FALSE, todo |-> {}, bare |-> {}, found |-> {}, due |-> {}, missed |-> {}]

TypeOK ==
    /\ status \in [Cases -> CaseStatus]
    /\ critical \subseteq Cases
    /\ staffed \subseteq Cases
    /\ active \in [Cases -> Nat]
    /\ resolved \in [Cases -> Nat]
    /\ runs \in [Workers -> Run]
    /\ acts \in 0 .. MaxActs
    /\ faults \in 0 .. MaxFaults
    /\ opened \in [Cases -> Nat]

Init ==
    /\ status \in [Cases -> {"new", "verified"}]
    /\ critical \in SUBSET Cases
    /\ staffed = {}
    /\ active = [c \in Cases |-> 0]
    /\ resolved = [c \in Cases |-> 0]
    /\ runs = [w \in Workers |-> Idle]
    /\ acts = 0
    /\ faults = 0
    /\ opened = [c \in Cases |-> 0]

\* The cases the task is about: critical, open and without an assignment.
Selected == {c \in critical : status[c] \in {"new", "verified"}}
Neglected == Selected \ staffed

-----------------------------------------------------------------------------
(***************************************************************************)
(* The cases.  These are the moves of CaseEvidence, without the evidence   *)
(* the task does not read, and the change of an urgency.                   *)
(***************************************************************************)

\* A run that waits has missed only what has been neglected all the time.
Remembered == runs' = [w \in Workers |-> [runs[w] EXCEPT !.missed = @ \cap Neglected']]

Approve(c) == status' = [status EXCEPT ![c] = "verified"] /\ UNCHANGED staffed

\* reject_case, or DELETE /cases/{id}.
Reject(c) == status' = [status EXCEPT ![c] = "rejected"] /\ UNCHANGED staffed

Assign(c) ==
    /\ \/ status' = [status EXCEPT ![c] = "assigned"]
       \/ status[c] # "new" /\ UNCHANGED status
    /\ staffed' = staffed \cup {c}

Close(c) ==
    /\ c \in staffed
    /\ status' = [status EXCEPT ![c] = "closed"]
    /\ UNCHANGED staffed

CaseMove(c) == Approve(c) \/ Reject(c) \/ Assign(c) \/ Close(c)

\* A commit of the case workflow.
ChangeCase(c) ==
    /\ CaseMove(c)
    /\ UNCHANGED <<critical, active, resolved, acts, faults, opened>>
    /\ Remembered

\* PUT /cases/{id} with an urgency_level.
ChangeUrgency(c) ==
    /\ critical' = IF c \in critical THEN critical \ {c} ELSE critical \cup {c}
    /\ UNCHANGED <<status, staffed, active, resolved, acts, faults, opened>>
    /\ Remembered

-----------------------------------------------------------------------------
(***************************************************************************)
(* The alerts in the hands of staff.  Each request writes the status of    *)
(* one row, so that a commit is the same whatever row was loaded.          *)
(***************************************************************************)

Act == acts < MaxActs /\ acts' = acts + 1

\* A case with an active alert is not missed.
Alerted(c) == runs' = [w \in Workers |-> [runs[w] EXCEPT !.missed = @ \ {c}]]

\* POST /alerts, with any type, or POST /alerts/{id}/activate.
CreateAlert(c) ==
    /\ Act
    /\ active' = [active EXCEPT ![c] = @ + 1]
    /\ opened' = [opened EXCEPT ![c] = @ + 1]
    /\ Alerted(c)
    /\ UNCHANGED <<status, critical, staffed, resolved, faults>>

ActivateAlert(c) ==
    /\ Act
    /\ resolved[c] > 0
    /\ resolved' = [resolved EXCEPT ![c] = @ - 1]
    /\ active' = [active EXCEPT ![c] = @ + 1]
    /\ opened' = [opened EXCEPT ![c] = @ + 1]
    /\ Alerted(c)
    /\ UNCHANGED <<status, critical, staffed, faults>>

\* POST /alerts/{id}/resolve
ResolveAlert(c) ==
    /\ Act
    /\ active[c] > 0
    /\ active' = [active EXCEPT ![c] = @ - 1]
    /\ resolved' = [resolved EXCEPT ![c] = @ + 1]
    /\ UNCHANGED <<status, critical, staffed, runs, faults, opened>>

-----------------------------------------------------------------------------
(***************************************************************************)
(* check_unassigned_critical_cases                                         *)
(***************************************************************************)

\* Mutant of Start: only the cases that are new are selected.
StartNewOnly(w) ==
    /\ ~runs[w].busy
    /\ runs' = [runs EXCEPT ![w] =
           [busy |-> TRUE, todo |-> {c \in critical : status[c] = "new"}, bare |-> {},
            found |-> {}, due |-> Neglected, missed |-> {c \in Neglected : active[c] = 0}]]
    /\ UNCHANGED <<status, critical, staffed, active, resolved, acts, faults, opened>>

\* The SELECT of the critical cases that are new or verified.
Start(w) ==
    /\ ~runs[w].busy
    /\ runs' = [runs EXCEPT ![w] =
           [busy |-> TRUE, todo |-> Selected, bare |-> {}, found |-> {},
            due |-> Neglected, missed |-> {c \in Neglected : active[c] = 0}]]
    /\ UNCHANGED <<status, critical, staffed, active, resolved, acts, faults, opened>>

\* Mutant of LookForAssignment: assignments are not looked for.
SkipAssignment(w, c) ==
    /\ c \in runs[w].todo
    /\ runs[w].bare = {}
    /\ runs' = [runs EXCEPT ![w].todo = @ \ {c}, ![w].bare = {c}]
    /\ UNCHANGED <<status, critical, staffed, active, resolved, acts, faults, opened>>

\* The first query about the next case.
LookForAssignment(w, c) ==
    /\ c \in runs[w].todo
    /\ runs[w].bare = {}
    /\ runs' = [runs EXCEPT ![w].todo = @ \ {c}, ![w].bare = {c} \ staffed]
    /\ UNCHANGED <<status, critical, staffed, active, resolved, acts, faults, opened>>

\* Mutants of LookForAlert: no alert, or a resolved one, counts as existing.
SkipAlert(w, c) ==
    /\ c \in runs[w].bare
    /\ runs' = [runs EXCEPT ![w].bare = {}, ![w].found = @ \cup {c}]
    /\ UNCHANGED <<status, critical, staffed, active, resolved, acts, faults, opened>>

LookForAnyAlert(w, c) ==
    /\ c \in runs[w].bare
    /\ runs' = [runs EXCEPT ![w].bare = {},
                            ![w].found = IF active[c] + resolved[c] = 0 THEN @ \cup {c} ELSE @]
    /\ UNCHANGED <<status, critical, staffed, active, resolved, acts, faults, opened>>

\* The second query about it.
LookForAlert(w, c) ==
    /\ c \in runs[w].bare
    /\ runs' = [runs EXCEPT ![w].bare = {},
                            ![w].found = IF active[c] = 0 THEN @ \cup {c} ELSE @]
    /\ UNCHANGED <<status, critical, staffed, active, resolved, acts, faults, opened>>

\* db.commit()
Commit(w) ==
    /\ runs[w].busy /\ runs[w].todo = {} /\ runs[w].bare = {}
    /\ active' = [c \in Cases |-> active[c] + IF c \in runs[w].found THEN 1 ELSE 0]
    /\ runs' = [v \in Workers |->
           IF v = w THEN Idle ELSE [runs[v] EXCEPT !.missed = @ \ runs[w].found]]
    /\ UNCHANGED <<status, critical, staffed, resolved, acts, faults, opened>>

\* A query or the commit fails, which the task answers and does not retry, or
\* the worker is lost.
Fail(w) ==
    /\ runs[w].busy
    /\ faults < MaxFaults
    /\ faults' = faults + 1
    /\ runs' = [runs EXCEPT ![w] = Idle]
    /\ UNCHANGED <<status, critical, staffed, active, resolved, acts, opened>>

-----------------------------------------------------------------------------
Work(w) ==
    \/ Start(w)
    \/ \E c \in Cases : LookForAssignment(w, c) \/ LookForAlert(w, c)
    \/ Commit(w)

Staff(c) ==
    \/ ChangeCase(c)
    \/ ChangeUrgency(c)
    \/ CreateAlert(c)
    \/ ActivateAlert(c)
    \/ ResolveAlert(c)

Next ==
    \/ \E c \in Cases : Staff(c)
    \/ \E w \in Workers : Work(w) \/ Fail(w)

Spec == Init /\ [][Next]_vars

\* Beat starts a run every 30 minutes, and a run that does not fail ends.
FairSpec == Spec /\ \A w \in Workers : WF_vars(Work(w))

-----------------------------------------------------------------------------
(***************************************************************************)
(* What holds although the queries of a run see different states.          *)
(***************************************************************************)

\* A run raises alerts only for cases that were neglected all together when
\* it began: urgency and status are read then, the assignments later, but an
\* assignment is never removed, so that a case without one had none.
RunsReportNeglect == \A w \in Workers : runs[w].bare \cup runs[w].found \subseteq runs[w].due

\* A run that is about to commit raises an alert for every case that was
\* neglected, and without an active alert, from its beginning to now.
RunsMissNothing ==
    \A w \in Workers :
        runs[w].busy /\ runs[w].todo = {} /\ runs[w].bare = {}
            => runs[w].missed \subseteq runs[w].found

\* Overlapping runs raise an alert of the same case several times, but a case
\* never has more active alerts than there are workers and alerts that staff
\* created or reopened: runs do not pile them up.
DuplicatesBounded ==
    \A c \in Cases : active[c] <= Cardinality(Workers) + opened[c]

\* A case that stays neglected has an active alert again and again, however
\* often staff resolve it and runs fail, as long as both come to an end.
NeglectIsReported ==
    \A c \in Cases : <>[](c \in Neglected) => []<>(active[c] > 0)

=============================================================================
