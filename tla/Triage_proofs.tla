----------------------------- MODULE Triage_proofs -----------------------------
(***************************************************************************)
(* Proofs about Triage, for every set of cases and workers and all bounds: *)
(* what a run reports, misses and duplicates, and that the cases of Triage *)
(* move as those of CaseEvidence, which CaseWorkflow implements.           *)
(***************************************************************************)
EXTENDS Triage, FiniteSetTheorems, TLAPS

\* The evidence of CaseEvidence that no run reads.
VARIABLES approved, disputed, ended

Evidence == INSTANCE CaseEvidence

\* The workers whose run is about to raise an alert of a case.
Holders(c) == {w \in Workers : c \in runs[w].found}

\* A run asks about one case at a time; a case it has selected and that is not
\* staffed was neglected when it began.
Orderly(r) ==
    /\ \A c, d \in r.bare : c = d
    /\ r.todo \ staffed \subseteq r.due
    /\ r.bare \cup r.found \subseteq r.due

\* What a run may have missed is neglected and not alerted, and is still on
\* its way to the alerts of the run.
OnItsWay(r) ==
    /\ r.missed \subseteq Neglected
    /\ \A c \in r.missed : active[c] = 0
    /\ r.missed \subseteq r.todo \cup r.bare \cup r.found

\* The alerts that runs are about to raise count as well.
Bounded(c) == Cardinality(Holders(c)) + active[c] <= Cardinality(Workers) + opened[c]

IInv ==
    /\ TypeOK
    /\ \A w \in Workers : Orderly(runs[w]) /\ OnItsWay(runs[w])
    /\ \A c \in Cases : Bounded(c)

-----------------------------------------------------------------------------
LEMMA HoldersFinite ==
  ASSUME NEW c
  PROVE  /\ IsFiniteSet(Holders(c))
         /\ Cardinality(Holders(c)) \in Nat
         /\ Cardinality(Workers) \in Nat
         /\ Cardinality(Holders(c)) <= Cardinality(Workers)
<1>1. Holders(c) \subseteq Workers
  BY DEF Holders
<1> QED
  BY <1>1, WorkersAssumption, FS_Subset, FS_CardinalityType

\* Runs that hold no case they did not hold before raise no bound.
LEMMA FewerHolders ==
  ASSUME NEW c, NEW S, S \subseteq Holders(c)
  PROVE  IsFiniteSet(S) /\ Cardinality(S) \in Nat /\ Cardinality(S) <= Cardinality(Holders(c))
  BY HoldersFinite, FS_Subset, FS_CardinalityType

LEMMA InitInv == Init => IInv
<1> SUFFICES ASSUME Init PROVE IInv
  OBVIOUS
<1>1. TypeOK
  BY BoundsAssumption DEF Init, TypeOK, CaseStatus, Run, Idle
<1>2. \A w \in Workers : Orderly(runs[w]) /\ OnItsWay(runs[w])
  BY DEF Init, Orderly, OnItsWay, Idle
<1>3. \A c \in Cases : Bounded(c)
  <2> SUFFICES ASSUME NEW c \in Cases PROVE Bounded(c)
    OBVIOUS
  <2>1. Cardinality(Holders(c)) <= Cardinality(Workers)
        /\ Cardinality(Holders(c)) \in Nat /\ Cardinality(Workers) \in Nat
    BY HoldersFinite
  <2> QED
    BY <2>1 DEF Init, Bounded
<1> QED
  BY <1>1, <1>2, <1>3 DEF IInv

-----------------------------------------------------------------------------
(* Steps of the cases and of the staff: a run forgets at most what it may have missed. *)

OnlyForgets ==
    /\ runs' \in [Workers -> Run]
    /\ \A w \in Workers :
        /\ runs'[w].busy = runs[w].busy /\ runs'[w].todo = runs[w].todo
        /\ runs'[w].bare = runs[w].bare /\ runs'[w].found = runs[w].found
        /\ runs'[w].due = runs[w].due
        /\ runs'[w].missed \subseteq runs[w].missed

LEMMA ForgettingKeeps ==
  ASSUME IInv, OnlyForgets, TypeOK', staffed \subseteq staffed',
         \A w \in Workers : /\ runs'[w].missed \subseteq Neglected'
                            /\ \A c \in runs'[w].missed : active'[c] = 0,
         \A c \in Cases : active'[c] - active[c] <= opened'[c] - opened[c]
  PROVE  IInv'
<1>1. \A w \in Workers : Orderly(runs[w])' /\ OnItsWay(runs[w])'
  BY DEF OnlyForgets, IInv, Orderly, OnItsWay
<1>2. ASSUME NEW c \in Cases PROVE Bounded(c)'
  <2>1. Holders(c)' = Holders(c)
    BY DEF OnlyForgets, Holders
  <2>2. Cardinality(Holders(c)) \in Nat /\ Cardinality(Workers) \in Nat
    BY HoldersFinite
  <2>3. /\ active[c] \in Nat /\ active'[c] \in Nat /\ opened[c] \in Nat /\ opened'[c] \in Nat
        /\ active'[c] - active[c] <= opened'[c] - opened[c]
    BY DEF IInv, TypeOK
  <2>4. Cardinality(Holders(c)) + active[c] <= Cardinality(Workers) + opened[c]
    BY DEF IInv, Bounded
  <2>5. Cardinality(Holders(c)) + active'[c] <= Cardinality(Workers) + opened'[c]
    BY <2>2, <2>3, <2>4
  <2> QED
    BY <2>1, <2>5 DEF Bounded
<1> QED
  BY <1>1, <1>2 DEF IInv

LEMMA CasesKeep ==
  ASSUME IInv, NEW c \in Cases, ChangeCase(c) \/ ChangeUrgency(c)
  PROVE  IInv'
<1>1. /\ Remembered
      /\ UNCHANGED <<active, resolved, acts, faults, opened>>
      /\ staffed \subseteq staffed' /\ staffed' \subseteq Cases
      /\ critical' \subseteq Cases
      /\ status' \in [Cases -> CaseStatus]
  BY DEF ChangeCase, CaseMove, Approve, Reject, Assign, Close, ChangeUrgency, CaseStatus,
         IInv, TypeOK
<1>2. \A w \in Workers : runs'[w] = [runs[w] EXCEPT !.missed = @ \cap Neglected']
  BY <1>1 DEF Remembered
<1>3. \A w \in Workers : runs[w] \in Run
  BY DEF IInv, TypeOK
<1>4. runs' = [w \in Workers |-> runs'[w]]
  BY <1>1 DEF Remembered
<1>5. OnlyForgets
  BY <1>2, <1>3, <1>4 DEF OnlyForgets, Run
<1>6. ASSUME NEW w \in Workers PROVE runs'[w].missed \subseteq Neglected'
  <2> DEFINE N == Neglected'
  <2>1. runs'[w] = [runs[w] EXCEPT !.missed = @ \cap N]
    BY <1>2
  <2>2. runs[w] \in Run
    BY <1>3
  <2> HIDE DEF N
  <2>3. runs'[w].missed = runs[w].missed \cap N
    BY <2>1, <2>2 DEF Run
  <2>4. runs'[w].missed \subseteq N
    BY <2>3
  <2> QED
    BY <2>4 DEF N
<1>7. TypeOK'
  BY <1>1, <1>5 DEF IInv, TypeOK, OnlyForgets
<1>8. \A w \in Workers : \A d \in runs'[w].missed : active'[d] = 0
  BY <1>1, <1>5 DEF OnlyForgets, IInv, OnItsWay
<1>9. \A d \in Cases : active'[d] - active[d] <= opened'[d] - opened[d]
  <2> SUFFICES ASSUME NEW d \in Cases PROVE active'[d] - active[d] <= opened'[d] - opened[d]
    OBVIOUS
  <2>1. active[d] \in Nat /\ opened[d] \in Nat
    BY DEF IInv, TypeOK
  <2> QED
    BY <1>1, <2>1
<1> QED
  BY <1>1, <1>5, <1>6, <1>7, <1>8, <1>9, ForgettingKeeps

LEMMA OpeningKeeps ==
  ASSUME IInv, NEW c \in Cases, CreateAlert(c) \/ ActivateAlert(c)
  PROVE  IInv'
<1>1. /\ Alerted(c)
      /\ UNCHANGED <<status, critical, staffed, faults>>
      /\ active' = [active EXCEPT ![c] = @ + 1]
      /\ opened' = [opened EXCEPT ![c] = @ + 1]
  BY DEF CreateAlert, ActivateAlert
<1>2. resolved' \in [Cases -> Nat] /\ acts' \in 0 .. MaxActs
  BY BoundsAssumption DEF CreateAlert, ActivateAlert, Act, IInv, TypeOK
<1>3. \A w \in Workers : runs'[w] = [runs[w] EXCEPT !.missed = @ \ {c}] /\ runs[w] \in Run
  BY <1>1 DEF Alerted, IInv, TypeOK
<1>4. runs' = [w \in Workers |-> runs'[w]]
  BY <1>1 DEF Alerted
<1>5. OnlyForgets /\ \A w \in Workers : c \notin runs'[w].missed
  BY <1>3, <1>4 DEF OnlyForgets, Run
<1>6. active' \in [Cases -> Nat] /\ opened' \in [Cases -> Nat]
  BY <1>1 DEF IInv, TypeOK
<1>7. TypeOK'
  BY <1>1, <1>2, <1>5, <1>6 DEF IInv, TypeOK, OnlyForgets
<1>8. Neglected' = Neglected
  BY <1>1 DEF Neglected, Selected
<1>9. \A w \in Workers : /\ runs'[w].missed \subseteq Neglected'
                         /\ \A d \in runs'[w].missed : active'[d] = 0
  <2> SUFFICES ASSUME NEW w \in Workers, NEW d \in runs'[w].missed
               PROVE  d \in Neglected' /\ active'[d] = 0
    OBVIOUS
  <2>1. d \in runs[w].missed /\ d # c
    BY <1>5 DEF OnlyForgets
  <2>2. d \in Neglected /\ active[d] = 0 /\ d \in Cases
    BY <1>3, <2>1 DEF IInv, OnItsWay, Run
  <2> QED
    BY <1>1, <1>8, <2>1, <2>2 DEF IInv, TypeOK
<1>10. \A d \in Cases : active'[d] - active[d] <= opened'[d] - opened[d]
  <2> SUFFICES ASSUME NEW d \in Cases PROVE active'[d] - active[d] <= opened'[d] - opened[d]
    OBVIOUS
  <2>1. active[d] \in Nat /\ opened[d] \in Nat
    BY DEF IInv, TypeOK
  <2>2. \/ d = c /\ active'[d] = active[d] + 1 /\ opened'[d] = opened[d] + 1
        \/ d # c /\ active'[d] = active[d] /\ opened'[d] = opened[d]
    BY <1>1 DEF IInv, TypeOK
  <2> QED
    BY <2>1, <2>2
<1> QED
  BY <1>1, <1>5, <1>7, <1>9, <1>10, ForgettingKeeps

LEMMA ResolvingKeeps ==
  ASSUME IInv, NEW c \in Cases, ResolveAlert(c)
  PROVE  IInv'
<1>1. /\ UNCHANGED <<status, critical, staffed, runs, faults, opened>>
      /\ active[c] > 0
      /\ active' = [active EXCEPT ![c] = @ - 1]
      /\ resolved' = [resolved EXCEPT ![c] = @ + 1]
      /\ acts' \in 0 .. MaxActs
  BY BoundsAssumption DEF ResolveAlert, Act, IInv, TypeOK
<1>2. TypeOK'
  BY <1>1 DEF IInv, TypeOK
<1>3. OnlyForgets
  BY <1>1 DEF OnlyForgets, IInv, TypeOK
<1>4. Neglected' = Neglected
  BY <1>1 DEF Neglected, Selected
<1>5. \A w \in Workers : /\ runs'[w].missed \subseteq Neglected'
                         /\ \A d \in runs'[w].missed : active'[d] = 0
  <2> SUFFICES ASSUME NEW w \in Workers, NEW d \in runs[w].missed
               PROVE  d \in Neglected /\ active'[d] = 0
    BY <1>1, <1>4
  <2>1. d \in Neglected /\ active[d] = 0 /\ d \in Cases
    BY DEF IInv, OnItsWay, TypeOK, Run
  <2> QED
    BY <1>1, <2>1 DEF IInv, TypeOK
<1>6. \A d \in Cases : active'[d] - active[d] <= opened'[d] - opened[d]
  <2> SUFFICES ASSUME NEW d \in Cases PROVE active'[d] - active[d] <= opened'[d] - opened[d]
    OBVIOUS
  <2>1. active[d] \in Nat /\ opened[d] \in Nat
    BY DEF IInv, TypeOK
  <2>2. \/ d = c /\ active'[d] = active[d] - 1
        \/ d # c /\ active'[d] = active[d]
    BY <1>1 DEF IInv, TypeOK
  <2> QED
    BY <1>1, <2>1, <2>2
<1> QED
  BY <1>1, <1>2, <1>3, <1>5, <1>6, ForgettingKeeps

-----------------------------------------------------------------------------
(* Steps of the runs. *)

\* A step that changes what one worker does, and no alert.
LEMMA RunKeeps ==
  ASSUME IInv, NEW w \in Workers, NEW r \in Run,
         runs' = [runs EXCEPT ![w] = r],
         UNCHANGED <<status, critical, staffed, active, resolved, acts, opened>>,
         faults' \in 0 .. MaxFaults,
         Orderly(r), OnItsWay(r),
         \A c \in Cases : c \in r.found => c \in runs[w].found \/ active[c] = 0
  PROVE  IInv'
<1>1. \A v \in Workers : runs'[v] = IF v = w THEN r ELSE runs[v]
  BY DEF IInv, TypeOK
<1>2. TypeOK'
  BY DEF IInv, TypeOK
<1>3. Neglected' = Neglected
  BY DEF Neglected, Selected
<1>4. \A v \in Workers : Orderly(runs[v])' /\ OnItsWay(runs[v])'
  BY <1>1, <1>3 DEF IInv, Orderly, OnItsWay
<1>5. ASSUME NEW c \in Cases PROVE Bounded(c)'
  <2>1. active[c] \in Nat /\ opened[c] \in Nat
    BY DEF IInv, TypeOK
  <2>2. CASE c \in r.found /\ c \notin runs[w].found
    <3>1. active[c] = 0
      BY <2>2
    <3>2. Holders(c)' \subseteq Workers
      BY DEF Holders
    <3>3. Cardinality(Holders(c)') \in Nat /\ Cardinality(Workers) \in Nat
          /\ Cardinality(Holders(c)') <= Cardinality(Workers)
      BY <3>2, WorkersAssumption, FS_Subset, FS_CardinalityType
    <3>4. Cardinality(Holders(c)') + active[c] <= Cardinality(Workers) + opened[c]
      BY <2>1, <3>1, <3>3
    <3> QED
      BY <3>4 DEF Bounded
  <2>3. CASE ~(c \in r.found /\ c \notin runs[w].found)
    <3>1. Holders(c)' \subseteq Holders(c)
      BY <1>1, <2>3 DEF Holders
    <3>2. Cardinality(Holders(c)') \in Nat
          /\ Cardinality(Holders(c)') <= Cardinality(Holders(c))
      BY <3>1, FewerHolders
    <3>3. Cardinality(Holders(c)) \in Nat /\ Cardinality(Workers) \in Nat
      BY HoldersFinite
    <3>4. Cardinality(Holders(c)) + active[c] <= Cardinality(Workers) + opened[c]
      BY DEF IInv, Bounded
    <3>5. Cardinality(Holders(c)') + active[c] <= Cardinality(Workers) + opened[c]
      BY <2>1, <3>2, <3>3, <3>4
    <3> QED
      BY <3>5 DEF Bounded
  <2> QED
    BY <2>2, <2>3
<1> QED
  BY <1>2, <1>4, <1>5 DEF IInv

LEMMA StartKeeps ==
  ASSUME IInv, NEW w \in Workers, Start(w)
  PROVE  IInv'
<1> DEFINE r == [busy |-> TRUE, todo |-> Selected, bare |-> {}, found |-> {},
                 due |-> Neglected, missed |-> {c \in Neglected : active[c] = 0}]
<1>1. r \in Run
  BY DEF Run, Selected, Neglected, IInv, TypeOK
<1>2. Orderly(r) /\ OnItsWay(r)
  BY DEF Orderly, OnItsWay, Neglected
<1>3. runs' = [runs EXCEPT ![w] = r]
      /\ UNCHANGED <<status, critical, staffed, active, resolved, acts, faults, opened>>
  BY DEF Start
<1>4. r.found = {}
  OBVIOUS
<1> HIDE DEF r
<1>5. faults' \in 0 .. MaxFaults
  BY <1>3 DEF IInv, TypeOK
<1> QED
  BY <1>1, <1>2, <1>3, <1>4, <1>5, RunKeeps

LEMMA LookForAssignmentKeeps ==
  ASSUME IInv, NEW w \in Workers, NEW c \in Cases, LookForAssignment(w, c)
  PROVE  IInv'
<1> DEFINE r == [runs[w] EXCEPT !.todo = @ \ {c}, !.bare = {c} \ staffed]
<1>0. runs[w] \in Run /\ Orderly(runs[w]) /\ OnItsWay(runs[w])
  BY DEF IInv, TypeOK
<1>1. /\ c \in runs[w].todo /\ runs[w].bare = {}
      /\ runs' = [runs EXCEPT ![w] = r]
      /\ UNCHANGED <<status, critical, staffed, active, resolved, acts, faults, opened>>
  BY DEF LookForAssignment, IInv, TypeOK
<1>2. r \in Run
  BY <1>0 DEF Run
<1>3. /\ r.todo = runs[w].todo \ {c} /\ r.bare = {c} \ staffed /\ r.found = runs[w].found
      /\ r.due = runs[w].due /\ r.missed = runs[w].missed
  BY <1>0 DEF Run
<1> HIDE DEF r
<1>4. Orderly(r)
  BY <1>0, <1>1, <1>3 DEF Orderly
<1>5. OnItsWay(r)
  BY <1>0, <1>1, <1>3 DEF OnItsWay, Neglected
<1>6. faults' \in 0 .. MaxFaults
  BY <1>1 DEF IInv, TypeOK
<1> QED
  BY <1>1, <1>2, <1>3, <1>4, <1>5, <1>6, RunKeeps

LEMMA LookForAlertKeeps ==
  ASSUME IInv, NEW w \in Workers, NEW c \in Cases, LookForAlert(w, c)
  PROVE  IInv'
<1> DEFINE r == [runs[w] EXCEPT !.bare = {},
                                !.found = IF active[c] = 0 THEN @ \cup {c} ELSE @]
<1>0. runs[w] \in Run /\ Orderly(runs[w]) /\ OnItsWay(runs[w])
  BY DEF IInv, TypeOK
<1>1. /\ c \in runs[w].bare
      /\ runs' = [runs EXCEPT ![w] = r]
      /\ UNCHANGED <<status, critical, staffed, active, resolved, acts, faults, opened>>
  BY DEF LookForAlert, IInv, TypeOK
<1>2. r \in Run
  BY <1>0 DEF Run
<1>3. /\ r.todo = runs[w].todo /\ r.bare = {}
      /\ r.found = IF active[c] = 0 THEN runs[w].found \cup {c} ELSE runs[w].found
      /\ r.due = runs[w].due /\ r.missed = runs[w].missed
  BY <1>0 DEF Run
<1> HIDE DEF r
<1>4. Orderly(r)
  BY <1>0, <1>1, <1>3 DEF Orderly
<1>5. OnItsWay(r)
  BY <1>0, <1>1, <1>3 DEF OnItsWay, Orderly
<1>6. \A d \in Cases : d \in r.found => d \in runs[w].found \/ active[d] = 0
  BY <1>3
<1>7. faults' \in 0 .. MaxFaults
  BY <1>1 DEF IInv, TypeOK
<1> QED
  BY <1>1, <1>2, <1>4, <1>5, <1>6, <1>7, RunKeeps

LEMMA FailKeeps ==
  ASSUME IInv, NEW w \in Workers, Fail(w)
  PROVE  IInv'
<1>1. Idle \in Run /\ Orderly(Idle) /\ OnItsWay(Idle) /\ Idle.found = {}
  BY DEF Idle, Run, Orderly, OnItsWay
<1>2. /\ runs' = [runs EXCEPT ![w] = Idle]
      /\ UNCHANGED <<status, critical, staffed, active, resolved, acts, opened>>
  BY DEF Fail
<1>3. faults' \in 0 .. MaxFaults
  BY BoundsAssumption DEF Fail, IInv, TypeOK
<1> QED
  BY <1>1, <1>2, <1>3, RunKeeps

LEMMA CommitKeeps ==
  ASSUME IInv, NEW w \in Workers, Commit(w)
  PROVE  IInv'
<1>0. \A v \in Workers : runs[v] \in Run /\ Orderly(runs[v]) /\ OnItsWay(runs[v])
  BY DEF IInv, TypeOK
<1>1. /\ active' = [c \in Cases |-> active[c] + IF c \in runs[w].found THEN 1 ELSE 0]
      /\ \A v \in Workers : runs'[v] = IF v = w THEN Idle
                                       ELSE [runs[v] EXCEPT !.missed = @ \ runs[w].found]
      /\ UNCHANGED <<status, critical, staffed, resolved, acts, faults, opened>>
  BY DEF Commit
<1>2. Idle \in Run /\ Orderly(Idle)' /\ OnItsWay(Idle)' /\ Idle.found = {}
  BY DEF Idle, Run, Orderly, OnItsWay
<1>3. \A v \in Workers \ {w} :
        /\ runs'[v].missed = runs[v].missed \ runs[w].found
        /\ runs'[v].todo = runs[v].todo /\ runs'[v].bare = runs[v].bare
        /\ runs'[v].found = runs[v].found /\ runs'[v].due = runs[v].due
        /\ runs'[v] \in Run
  <2> SUFFICES ASSUME NEW v \in Workers, v # w
               PROVE  /\ runs'[v].missed = runs[v].missed \ runs[w].found
                      /\ runs'[v].todo = runs[v].todo /\ runs'[v].bare = runs[v].bare
                      /\ runs'[v].found = runs[v].found /\ runs'[v].due = runs[v].due
                      /\ runs'[v] \in Run
    OBVIOUS
  <2>1. runs'[v] = [runs[v] EXCEPT !.missed = @ \ runs[w].found] /\ runs[v] \in Run
    BY <1>0, <1>1
  <2> QED
    BY <2>1 DEF Run
<1>4. TypeOK'
  <2>1. active' \in [Cases -> Nat]
    BY <1>1 DEF IInv, TypeOK
  <2>2. runs' \in [Workers -> Run]
    BY <1>1, <1>2, <1>3 DEF Commit
  <2> QED
    BY <1>1, <2>1, <2>2 DEF IInv, TypeOK
<1>5. Neglected' = Neglected
  BY <1>1 DEF Neglected, Selected
<1>6. ASSUME NEW v \in Workers PROVE Orderly(runs[v])' /\ OnItsWay(runs[v])'
  <2>1. CASE v = w
    BY <1>1, <1>2, <2>1 DEF Orderly, OnItsWay
  <2>2. CASE v # w
    <3>1. Orderly(runs[v])'
      BY <1>0, <1>1, <1>3, <2>2 DEF Orderly
    <3>2. ASSUME NEW c \in runs'[v].missed PROVE active'[c] = 0
      <4>1. c \in runs[v].missed /\ c \notin runs[w].found
        BY <1>3, <2>2, <3>2
      <4>2. active[c] = 0 /\ c \in Cases
        BY <1>0, <4>1 DEF OnItsWay, Run
      <4> QED
        BY <1>1, <4>1, <4>2
    <3>3. OnItsWay(runs[v])'
      BY <1>0, <1>3, <1>5, <2>2, <3>2 DEF OnItsWay
    <3> QED
      BY <3>1, <3>3
  <2> QED
    BY <2>1, <2>2
<1>7. ASSUME NEW c \in Cases PROVE Bounded(c)'
  <2>1. active[c] \in Nat /\ opened[c] \in Nat /\ opened'[c] = opened[c]
        /\ Cardinality(Holders(c)) \in Nat /\ Cardinality(Workers) \in Nat
        /\ Cardinality(Holders(c)) + active[c] <= Cardinality(Workers) + opened[c]
    BY <1>1, HoldersFinite DEF IInv, TypeOK, Bounded
  <2>2. Holders(c)' = Holders(c) \ {w}
    BY <1>1, <1>2, <1>3 DEF Holders
  <2>3. CASE c \in runs[w].found
    <3>1. w \in Holders(c)
      BY <2>3 DEF Holders
    <3>2. Cardinality(Holders(c)') = Cardinality(Holders(c)) - 1
      BY <2>2, <3>1, HoldersFinite, FS_RemoveElement
    <3>3. active'[c] = active[c] + 1
      BY <1>1, <2>3
    <3>4. Cardinality(Holders(c)') + active'[c] <= Cardinality(Workers) + opened'[c]
      BY <2>1, <3>2, <3>3
    <3> QED
      BY <3>4 DEF Bounded
  <2>4. CASE c \notin runs[w].found
    <3>1. Holders(c)' \subseteq Holders(c)
      BY <2>2
    <3>2. Cardinality(Holders(c)') \in Nat
          /\ Cardinality(Holders(c)') <= Cardinality(Holders(c))
      BY <3>1, FewerHolders
    <3>3. active'[c] = active[c]
      BY <1>1, <2>1, <2>4
    <3>4. Cardinality(Holders(c)') + active'[c] <= Cardinality(Workers) + opened'[c]
      BY <2>1, <3>2, <3>3
    <3> QED
      BY <3>4 DEF Bounded
  <2> QED
    BY <2>3, <2>4
<1> QED
  BY <1>4, <1>6, <1>7 DEF IInv

LEMMA StutterKeeps ==
  ASSUME IInv, UNCHANGED vars
  PROVE  IInv'
<1>1. TypeOK'
  BY DEF IInv, TypeOK, vars
<1>2. \A w \in Workers : Orderly(runs[w])' /\ OnItsWay(runs[w])'
  BY DEF IInv, Orderly, OnItsWay, Neglected, Selected, vars
<1>3. \A c \in Cases : Bounded(c)'
  BY DEF IInv, Bounded, Holders, vars
<1> QED
  BY <1>1, <1>2, <1>3 DEF IInv

LEMMA NextInv == IInv /\ [Next]_vars => IInv'
<1> SUFFICES ASSUME IInv, [Next]_vars PROVE IInv'
  OBVIOUS
<1>1. ASSUME NEW c \in Cases, Staff(c) PROVE IInv'
  BY <1>1, CasesKeep, OpeningKeeps, ResolvingKeeps DEF Staff
<1>2. ASSUME NEW w \in Workers, Work(w) PROVE IInv'
  BY <1>2, StartKeeps, LookForAssignmentKeeps, LookForAlertKeeps, CommitKeeps DEF Work
<1>3. ASSUME NEW w \in Workers, Fail(w) PROVE IInv'
  BY <1>3, FailKeeps
<1>4. CASE UNCHANGED vars
  BY <1>4, StutterKeeps
<1> QED
  BY <1>1, <1>2, <1>3, <1>4 DEF Next

\* The invariant holds in every state.
THEOREM Invariance == Spec => []IInv
  BY InitInv, NextInv, PTL DEF Spec

\* The variables of the triage keep their types.
THEOREM TypeCorrect == Spec => []TypeOK
<1>1. IInv => TypeOK
  BY DEF IInv
<1> QED
  BY <1>1, Invariance, PTL

\* check_unassigned_critical_cases reports only cases that were critical, open
\* and without an assignment when the run began, whatever its queries saw.
THEOREM ReportsAreTrue == Spec => []RunsReportNeglect
<1>1. IInv => RunsReportNeglect
  BY DEF IInv, Orderly, RunsReportNeglect
<1> QED
  BY <1>1, Invariance, PTL

\* A run misses no case that was neglected and not alerted all the while.
THEOREM NothingIsMissed == Spec => []RunsMissNothing
<1>1. IInv => RunsMissNothing
  BY DEF IInv, OnItsWay, RunsMissNothing
<1> QED
  BY <1>1, Invariance, PTL

\* However many runs overlap, the active alerts of a case are bounded by the
\* workers and what staff opened: a run does not add to an alert it can see.
THEOREM NoPileOfAlerts == Spec => []DuplicatesBounded
<1>1. IInv => DuplicatesBounded
  <2> SUFFICES ASSUME IInv, NEW c \in Cases
               PROVE  active[c] <= Cardinality(Workers) + opened[c]
    BY DEF DuplicatesBounded
  <2>1. /\ active[c] \in Nat /\ opened[c] \in Nat
        /\ Cardinality(Holders(c)) + active[c] <= Cardinality(Workers) + opened[c]
    BY DEF IInv, TypeOK, Bounded
  <2> QED
    BY <2>1, HoldersFinite
<1> QED
  BY <1>1, Invariance, PTL

-----------------------------------------------------------------------------
\* Whatever step CaseEvidence takes, Triage lets its cases take: with
\* WorkflowImplementsEvidence, the runs of check_unassigned_critical_cases are
\* verified against all that the case workflow does to status and assignments.
THEOREM WorkflowMovesCovered == [Evidence!Next]_Evidence!vars =>
    (\E c \in Cases : CaseMove(c)) \/ UNCHANGED <<status, staffed>>
<1> SUFFICES ASSUME [Evidence!Next]_Evidence!vars, ~ UNCHANGED <<status, staffed>>
             PROVE  \E c \in Cases : CaseMove(c)
  OBVIOUS
<1>1. PICK c \in Cases : \/ Evidence!Approve(c)
                         \/ Evidence!Reject(c)
                         \/ Evidence!Delete(c)
                         \/ Evidence!Assign(c)
                         \/ Evidence!Close(c)
  BY DEF Evidence!Next, Evidence!vars
<1>2. ASSUME Evidence!Approve(c) PROVE Approve(c)
  BY <1>2 DEF Evidence!Approve, Evidence!Becomes, Approve
<1>3. ASSUME Evidence!Reject(c) \/ Evidence!Delete(c) PROVE Reject(c)
  BY <1>3 DEF Evidence!Reject, Evidence!Delete, Evidence!Becomes, Evidence!BecomesOrStays, Reject
<1>4. ASSUME Evidence!Assign(c) PROVE Assign(c)
  BY <1>4 DEF Evidence!Assign, Evidence!Becomes, Evidence!BecomesOrStays, Assign
<1>5. ASSUME Evidence!Close(c) PROVE Close(c)
  BY <1>5 DEF Evidence!Close, Evidence!Becomes, Close
<1> QED
  BY <1>1, <1>2, <1>3, <1>4, <1>5 DEF CaseMove

=============================================================================
