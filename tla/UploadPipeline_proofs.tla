------------------------ MODULE UploadPipeline_proofs -------------------------
(***************************************************************************)
(* Proofs about UploadPipeline, for every set of requests, every number of *)
(* retries and every combination of faults.                                *)
(***************************************************************************)
EXTENDS UploadPipeline, TLAPS

\* A task is at a step of its own kind, and has committed the text of its
\* upload when it is about to chain.
StepsMatch ==
    \A k \in running :
        /\ k.kind = "ai" <=> k.pc = "extract"
        /\ k.pc = "chain" => rows[k.upload].text = "text"

IInv ==
    /\ TypeOK
    /\ StatusSupported
    /\ ExtractionsHaveText
    /\ ProcessingExplained
    /\ StepsMatch

LEMMA InitInv == Init => IInv
  BY DEF Init, IInv, TypeOK, Row, ProcessingStatus, StatusSupported, ExtractionsHaveText,
         ProcessingExplained, StepsMatch

-----------------------------------------------------------------------------
LEMMA StageKeeps ==
  ASSUME IInv, NEW r \in Requests, NEW u \in Requests,
         NEW published \in SUBSET {NewMessage("ocr", r, u)},
         Stage(r, u, "pending", published)
  PROVE  IInv'
<1> DEFINE t == [req |-> r, upload |-> u, loaded |-> rows[u].status, mine |-> "pending"]
<1>1. /\ served' = served \cup {r}
      /\ open' = open \cup {t}
      /\ queue' = queue \cup published
      /\ UNCHANGED <<rows, running, dropped, results>>
  BY DEF Stage
<1>2. rows[u] \in Row
  BY DEF IInv, TypeOK
<1>3. t \in Change
  BY <1>2 DEF Change, Row, ProcessingStatus
<1>4. 0 \in Tries
  BY RetriesAssumption DEF Tries
<1>5. NewMessage("ocr", r, u) \in Message /\ NewMessage("ocr", r, u).kind = "ocr"
  BY <1>4 DEF NewMessage, Message
<1> HIDE DEF t
<1>6. TypeOK'
  BY <1>1, <1>3, <1>5 DEF IInv, TypeOK
<1>7. StatusSupported' /\ StepsMatch'
  BY <1>1 DEF IInv, StatusSupported, StepsMatch
<1>8. ExtractionsHaveText'
  BY <1>1, <1>5 DEF IInv, ExtractionsHaveText
<1>9. ProcessingExplained'
  BY <1>1 DEF IInv, ProcessingExplained
<1> QED
  BY <1>6, <1>7, <1>8, <1>9 DEF IInv

\* A new row of upload u is typed and supported, keeps the text, and does not
\* become processing: the parts of the invariant that read the rows.
Sound(u, new) ==
    /\ new \in Row
    /\ new.status = "completed" => new.text = "text"
    /\ new.status = "failed" => new.error = "message"
    /\ rows[u].text = "text" => new.text = "text"

LEMMA RowKeeps ==
  ASSUME IInv, NEW u \in Requests, NEW new, Sound(u, new), rows' = [rows EXCEPT ![u] = new]
  PROVE  /\ rows' \in [Requests -> Row]
         /\ StatusSupported'
         /\ \A v \in Requests : rows[v].text = "text" => rows'[v].text = "text"
         /\ \A v \in Requests : v # u => rows'[v] = rows[v]
         /\ rows'[u] = new
  BY DEF IInv, TypeOK, StatusSupported, Sound

LEMMA CommitKeeps ==
  ASSUME IInv, NEW t \in open, Commit(t)
  PROVE  IInv'
<1> DEFINE new == [rows[t.upload] EXCEPT !.status = Flushed(@, t.loaded, t.mine)]
<1>1. t \in Change /\ t.upload \in Requests /\ rows[t.upload] \in Row
  BY DEF IInv, TypeOK, Change
<1>2. /\ rows' = [rows EXCEPT ![t.upload] = new]
      /\ open' = open \ {t}
      /\ UNCHANGED <<queue, running, dropped, results, served>>
  BY <1>1 DEF Commit, IInv, TypeOK
<1>3. Sound(t.upload, new) /\ new.status \in {rows[t.upload].status, "pending"}
  BY <1>1 DEF Flushed, Change, Sound, Row, ProcessingStatus, IInv, StatusSupported
<1> HIDE DEF new
<1>4. /\ rows' \in [Requests -> Row]
      /\ StatusSupported'
      /\ \A v \in Requests : rows[v].text = "text" => rows'[v].text = "text"
      /\ \A v \in Requests : rows'[v].status = "processing" => rows[v].status = "processing"
  BY <1>1, <1>2, <1>3, RowKeeps
<1>5. TypeOK'
  BY <1>2, <1>4 DEF IInv, TypeOK
<1>6. ExtractionsHaveText' /\ StepsMatch'
  BY <1>2, <1>4 DEF IInv, TypeOK, Message, Task, Result, ExtractionsHaveText, StepsMatch
<1>7. ProcessingExplained'
  BY <1>2, <1>4 DEF IInv, ProcessingExplained
<1> QED
  BY <1>4, <1>5, <1>6, <1>7 DEF IInv

\* The requests that change neither the rows nor the tasks.
LEMMA RequestKeeps ==
  ASSUME IInv,
         \/ \E t \in open : Rollback(t)
         \/ \E r, u \in Requests : ReviewExtraction(r, u)
  PROVE  IInv'
<1>1. ASSUME NEW t \in open, Rollback(t) PROVE IInv'
  BY <1>1 DEF Rollback, IInv, TypeOK, StatusSupported, ExtractionsHaveText,
              ProcessingExplained, StepsMatch
<1>2. ASSUME NEW r \in Requests, NEW u \in Requests, ReviewExtraction(r, u) PROVE IInv'
  <2>1. PICK x \in results : results' = (results \ {x}) \cup {[x EXCEPT !.reviewer = r]}
    BY <1>2 DEF ReviewExtraction
  <2> DEFINE y == [x EXCEPT !.reviewer = r]
  <2>2. x \in Result
    BY DEF IInv, TypeOK
  <2>3. y \in Result /\ y.upload = x.upload
    BY <2>2 DEF Result
  <2>4. results' = (results \ {x}) \cup {y}
    BY <2>1
  <2>5. served' = served \cup {r} /\ UNCHANGED <<rows, open, queue, running, dropped>>
    BY <1>2 DEF ReviewExtraction
  <2> HIDE DEF y
  <2> QED
    BY <2>3, <2>4, <2>5 DEF IInv, TypeOK, StatusSupported, ExtractionsHaveText,
                             ProcessingExplained, StepsMatch
<1> QED
  BY <1>1, <1>2

-----------------------------------------------------------------------------
\* The worker takes a message: the retry that explained a status is replaced
\* by the task that runs.
LEMMA StartKeeps ==
  ASSUME IInv, NEW m \in queue, OcrStart(m) \/ AiStart(m)
  PROVE  IInv'
<1>1. m \in Message /\ m.upload \in Requests /\ rows[m.upload] \in Row
  BY DEF IInv, TypeOK, Message
<1>2. ASSUME OcrStart(m), rows[m.upload].status = "absent" PROVE IInv'
  <2>1. /\ queue' = queue \ {m}
        /\ UNCHANGED <<rows, running, open, dropped, results, served>>
    BY <1>2 DEF OcrStart
  <2> QED
    BY <1>1, <1>2, <2>1 DEF IInv, TypeOK, StatusSupported, ExtractionsHaveText,
                             ProcessingExplained, StepsMatch
<1>3. ASSUME OcrStart(m), rows[m.upload].status # "absent" PROVE IInv'
  <2> DEFINE k == [kind |-> "ocr", req |-> m.req, upload |-> m.upload, tries |-> m.tries,
                   pc |-> "mark", seen |-> rows[m.upload].status]
  <2>1. /\ queue' = queue \ {m}
        /\ running' = running \cup {k}
        /\ m.kind = "ocr"
        /\ UNCHANGED <<rows, open, dropped, results, served>>
    BY <1>3 DEF OcrStart
  <2>2. k \in Task /\ k.kind = "ocr" /\ k.pc = "mark" /\ k.upload = m.upload
    BY <1>1, <1>3 DEF Task, Message, Row
  <2> HIDE DEF k
  <2>3. TypeOK' /\ StatusSupported' /\ ExtractionsHaveText' /\ StepsMatch'
    BY <2>1, <2>2 DEF IInv, TypeOK, StatusSupported, ExtractionsHaveText, StepsMatch
  <2>4. ProcessingExplained'
    BY <2>1, <2>2 DEF IInv, ProcessingExplained
  <2> QED
    BY <2>3, <2>4 DEF IInv
<1>4. ASSUME AiStart(m) PROVE IInv'
  <2> DEFINE k == [kind |-> "ai", req |-> m.req, upload |-> m.upload, tries |-> m.tries,
                   pc |-> "extract", seen |-> "completed"]
  <2>1. /\ queue' = queue \ {m}
        /\ running' = running \cup {k}
        /\ m.kind = "ai"
        /\ UNCHANGED <<rows, open, dropped, results, served>>
    BY <1>4 DEF AiStart
  <2>2. k \in Task /\ k.kind = "ai" /\ k.pc = "extract" /\ k.upload = m.upload
    BY <1>1 DEF Task, Message, ProcessingStatus
  <2> HIDE DEF k
  <2>3. TypeOK' /\ StatusSupported' /\ ExtractionsHaveText' /\ StepsMatch'
    BY <2>1, <2>2 DEF IInv, TypeOK, StatusSupported, ExtractionsHaveText, StepsMatch
  <2>4. ProcessingExplained'
    BY <2>1, <2>2 DEF IInv, ProcessingExplained
  <2> QED
    BY <2>3, <2>4 DEF IInv
<1> QED
  BY <1>2, <1>3, <1>4

\* A task moves on from k: the parts of the invariant about the tasks.
LEMMA MoveKeeps ==
  ASSUME IInv, NEW k \in running, k.kind = "ocr", NEW pc \in {"read", "chain"}, MoveTo(k, pc)
  PROVE  /\ running' \subseteq Task
         /\ \A j \in running' : j \in running \/ (j.kind = "ocr" /\ j.upload = k.upload /\ j.pc = pc)
         /\ \A j \in running : j # k => j \in running'
         /\ \E j \in running' : j.upload = k.upload /\ j.pc = pc
<1> DEFINE new == [k EXCEPT !.pc = pc]
<1>1. k \in Task
  BY DEF IInv, TypeOK
<1>2. new \in Task /\ new.kind = "ocr" /\ new.upload = k.upload /\ new.pc = pc
  BY <1>1 DEF Task
<1>3. running' = (running \ {k}) \cup {new}
  BY DEF MoveTo
<1> HIDE DEF new
<1> QED
  BY <1>2, <1>3 DEF IInv, TypeOK

LEMMA MarkKeeps ==
  ASSUME IInv, NEW k \in running, OcrMark(k)
  PROVE  IInv'
<1> DEFINE new == [rows[k.upload] EXCEPT !.status = Flushed(@, k.seen, "processing")]
<1>1. k \in Task /\ k.upload \in Requests /\ rows[k.upload] \in Row /\ k.kind = "ocr"
  BY DEF OcrMark, OcrAt, IInv, TypeOK, Task
<1>2. /\ rows' = [rows EXCEPT ![k.upload] = new]
      /\ MoveTo(k, "read")
      /\ UNCHANGED <<open, queue, dropped, results, served>>
  BY <1>1 DEF OcrMark, IInv, TypeOK
<1>3. Sound(k.upload, new)
  BY <1>1 DEF Flushed, Sound, Row, ProcessingStatus, IInv, StatusSupported
<1> HIDE DEF new
<1>4. /\ rows' \in [Requests -> Row]
      /\ StatusSupported'
      /\ \A v \in Requests : rows[v].text = "text" => rows'[v].text = "text"
      /\ \A v \in Requests : v # k.upload => rows'[v] = rows[v]
  BY <1>1, <1>2, <1>3, RowKeeps
<1>5. /\ running' \subseteq Task
      /\ \A j \in running' : j \in running \/ (j.kind = "ocr" /\ j.upload = k.upload /\ j.pc = "read")
      /\ \A j \in running : j # k => j \in running'
      /\ \E j \in running' : j.upload = k.upload /\ j.pc = "read"
  BY <1>1, <1>2, MoveKeeps
<1>6. TypeOK'
  BY <1>2, <1>4, <1>5 DEF IInv, TypeOK
<1>7. ExtractionsHaveText' /\ StepsMatch'
  BY <1>2, <1>4, <1>5 DEF IInv, TypeOK, Message, Task, Result, ExtractionsHaveText, StepsMatch
<1>8. ProcessingExplained'
  BY <1>2, <1>4, <1>5 DEF IInv, ProcessingExplained
<1> QED
  BY <1>4, <1>6, <1>7, <1>8 DEF IInv

LEMMA FailKeeps ==
  ASSUME IInv, NEW k \in running, OcrFail(k)
  PROVE  IInv'
<1> DEFINE new == [rows[k.upload] EXCEPT !.status = "failed", !.error = "message"]
<1>1. k \in Task /\ k.upload \in Requests /\ rows[k.upload] \in Row /\ k.kind = "ocr"
  BY DEF OcrFail, OcrAt, IInv, TypeOK, Task
<1>2. /\ rows' = [rows EXCEPT ![k.upload] = new]
      /\ running' = running \ {k}
      /\ UNCHANGED <<open, queue, dropped, results, served>>
  BY <1>1 DEF OcrFail, IInv, TypeOK
<1>3. Sound(k.upload, new) /\ new.status = "failed"
  BY <1>1 DEF Sound, Row, ProcessingStatus
<1> HIDE DEF new
<1>4. /\ rows' \in [Requests -> Row]
      /\ StatusSupported'
      /\ \A v \in Requests : rows[v].text = "text" => rows'[v].text = "text"
      /\ \A v \in Requests : v # k.upload => rows'[v] = rows[v]
      /\ rows'[k.upload].status # "processing"
  BY <1>1, <1>2, <1>3, RowKeeps
<1>5. TypeOK'
  BY <1>2, <1>4 DEF IInv, TypeOK
<1>6. ExtractionsHaveText' /\ StepsMatch'
  BY <1>2, <1>4 DEF IInv, TypeOK, Message, Task, Result, ExtractionsHaveText, StepsMatch
<1>7. ProcessingExplained'
  BY <1>2, <1>4 DEF IInv, ProcessingExplained
<1> QED
  BY <1>4, <1>5, <1>6, <1>7 DEF IInv

LEMMA CompleteKeeps ==
  ASSUME IInv, NEW k \in running, OcrComplete(k)
  PROVE  IInv'
<1> DEFINE new == [rows[k.upload] EXCEPT !.status = "completed", !.text = "text"]
<1>1. k \in Task /\ k.upload \in Requests /\ rows[k.upload] \in Row /\ k.kind = "ocr"
  BY DEF OcrComplete, OcrAt, IInv, TypeOK, Task
<1>2. /\ rows' = [rows EXCEPT ![k.upload] = new]
      /\ MoveTo(k, "chain")
      /\ UNCHANGED <<open, queue, dropped, results, served>>
  BY <1>1 DEF OcrComplete, IInv, TypeOK
<1>3. Sound(k.upload, new) /\ new.status = "completed" /\ new.text = "text"
  BY <1>1 DEF Sound, Row, ProcessingStatus
<1> HIDE DEF new
<1>4. /\ rows' \in [Requests -> Row]
      /\ StatusSupported'
      /\ \A v \in Requests : rows[v].text = "text" => rows'[v].text = "text"
      /\ \A v \in Requests : v # k.upload => rows'[v] = rows[v]
      /\ rows'[k.upload].status # "processing" /\ rows'[k.upload].text = "text"
  BY <1>1, <1>2, <1>3, RowKeeps
<1>5. /\ running' \subseteq Task
      /\ \A j \in running' : j \in running \/ (j.kind = "ocr" /\ j.upload = k.upload /\ j.pc = "chain")
      /\ \A j \in running : j # k => j \in running'
  BY <1>1, <1>2, MoveKeeps
<1>6. TypeOK'
  BY <1>2, <1>4, <1>5 DEF IInv, TypeOK
<1>7. ExtractionsHaveText' /\ StepsMatch'
  BY <1>2, <1>4, <1>5 DEF IInv, TypeOK, Message, Task, Result, ExtractionsHaveText, StepsMatch
<1>8. ProcessingExplained'
  BY <1>2, <1>4, <1>5 DEF IInv, ProcessingExplained
<1> QED
  BY <1>4, <1>6, <1>7, <1>8 DEF IInv

\* The end of a task that no upload waits for.
LEMMA EndKeeps ==
  ASSUME IInv, NEW k \in running, OcrChain(k) \/ AiEnd(k)
  PROVE  IInv'
<1>1. k \in Task /\ k.upload \in Requests /\ k.req \in Requests
  BY DEF IInv, TypeOK, Task
<1>2. k.pc \notin {"mark", "read"} /\ running' = running \ {k} /\ rows[k.upload].text = "text"
  BY DEF OcrChain, OcrAt, AiEnd, IInv, StepsMatch, ExtractionsHaveText
<1>3. ASSUME OcrChain(k) PROVE IInv'
  <2> DEFINE m == NewMessage("ai", k.req, k.upload)
  <2>1. m \in Message /\ m.upload = k.upload
    BY <1>1, RetriesAssumption DEF NewMessage, Message, Tries
  <2>2. queue' = queue \cup {m} /\ UNCHANGED <<rows, open, dropped, results, served>>
    BY <1>3 DEF OcrChain
  <2> HIDE DEF m
  <2> QED
    BY <1>2, <2>1, <2>2 DEF IInv, TypeOK, StatusSupported, ExtractionsHaveText,
                             ProcessingExplained, StepsMatch
<1>4. ASSUME AiEnd(k) PROVE IInv'
  <2> DEFINE x == [req |-> k.req, upload |-> k.upload, tries |-> k.tries,
                   reviewer |-> Nobody]
  <2>1. x \in Result /\ x.upload = k.upload
    BY <1>1 DEF Result, Task
  <2>2. /\ results' = results \/ results' = results \cup {x}
        /\ UNCHANGED <<rows, open, queue, dropped, served>>
    <3>1. PICK new \in {{}, {x}} : results' = results \cup new
      BY <1>4 DEF AiEnd, Extracted
    <3> QED
      BY <1>4, <3>1 DEF AiEnd
  <2> HIDE DEF x
  <2> QED
    BY <1>2, <2>1, <2>2 DEF IInv, TypeOK, StatusSupported, ExtractionsHaveText,
                             ProcessingExplained, StepsMatch
<1> QED
  BY <1>3, <1>4

\* A task that fails or dies leaves its retry or its name behind.
LEMMA FaultKeeps ==
  ASSUME IInv, NEW k \in running, Error(k) \/ Crash(k)
  PROVE  IInv'
<1>1. k \in Task /\ k.upload \in Requests /\ running' = running \ {k}
  BY DEF IInv, TypeOK, Task, Error, Crash
<1>2. /\ MessageOf(k) \in Message /\ MessageOf(k).kind = k.kind
      /\ MessageOf(k).upload = k.upload /\ MessageOf(k).tries = k.tries
  BY <1>1 DEF MessageOf, Message, Task
<1>3. k.pc \in {"mark", "read"} => k.kind = "ocr"
  BY <1>1 DEF IInv, StepsMatch, Task
<1>4. UNCHANGED <<rows, open, results, served>>
  BY DEF Error, Crash
<1>5. CASE queue' = queue /\ dropped' = dropped \cup {MessageOf(k)}
  <2>1. ProcessingExplained'
    BY <1>1, <1>2, <1>3, <1>4, <1>5 DEF IInv, ProcessingExplained
  <2> QED
    BY <1>1, <1>2, <1>4, <1>5, <2>1 DEF IInv, TypeOK, StatusSupported, ExtractionsHaveText,
                                         StepsMatch
<1>6. CASE /\ k.tries < MaxRetries(k.kind)
           /\ queue' = queue \cup {[MessageOf(k) EXCEPT !.tries = @ + 1]}
           /\ dropped' = dropped
  <2> DEFINE m == [MessageOf(k) EXCEPT !.tries = @ + 1]
  <2>1. k.tries + 1 \in Tries /\ k.tries + 1 > 0
    BY <1>1, <1>6, RetriesAssumption DEF Tries, MaxRetries, Task
  <2>2. m \in Message /\ m.upload = k.upload /\ m.kind = k.kind /\ m.tries > 0
    BY <1>2, <2>1 DEF Message
  <2>3. queue' = queue \cup {m}
    BY <1>6
  <2> HIDE DEF m
  <2>4. ProcessingExplained'
    BY <1>1, <1>3, <1>4, <1>6, <2>2, <2>3 DEF IInv, ProcessingExplained
  <2> QED
    BY <1>1, <1>4, <1>6, <2>2, <2>3, <2>4 DEF IInv, TypeOK, StatusSupported,
                                               ExtractionsHaveText, StepsMatch
<1> QED
  BY <1>5, <1>6 DEF Error, Crash

-----------------------------------------------------------------------------
LEMMA NextInv == IInv /\ [Next]_vars => IInv'
<1> SUFFICES ASSUME IInv, [Next]_vars PROVE IInv'
  OBVIOUS
<1>1. CASE UNCHANGED vars
  BY <1>1 DEF vars, IInv, TypeOK, StatusSupported, ExtractionsHaveText, ProcessingExplained,
              StepsMatch
<1>2. ASSUME NEW r \in Requests, HandleUpload(r) PROVE IInv'
  <2> DEFINE published == IF r \in Automatic THEN {NewMessage("ocr", r, r)} ELSE {}
  <2>1. published \in SUBSET {NewMessage("ocr", r, r)}
    OBVIOUS
  <2>2. Stage(r, r, "pending", published)
    BY <1>2 DEF HandleUpload
  <2> HIDE DEF published
  <2> QED
    BY <2>1, <2>2, StageKeeps
<1>3. ASSUME NEW r \in Requests, NEW u \in Requests, TriggerProcessing(r, u) PROVE IInv'
  BY <1>3, StageKeeps DEF TriggerProcessing
<1>4. ASSUME NEW r \in Requests, Work(r) PROVE IInv'
  BY <1>4, StartKeeps, MarkKeeps, FailKeeps, CompleteKeeps, EndKeeps DEF Work
<1>5. ASSUME NEW t \in open, Commit(t) PROVE IInv'
  BY <1>5, CommitKeeps
<1>6. ASSUME NEW k \in running, Error(k) \/ Crash(k) PROVE IInv'
  BY <1>6, FaultKeeps
<1> QED
  BY <1>1, <1>2, <1>3, <1>4, <1>5, <1>6, RequestKeeps DEF Next, Receive

\* The conjunction is an invariant, whatever faults happen.
THEOREM Invariance == Spec => []IInv
  BY InitInv, NextInv, PTL DEF Spec

\* Every reachable state of the pipeline is well typed.
THEOREM TypeCorrect == Spec => []TypeOK
<1>1. IInv => TypeOK
  BY DEF IInv
<1> QED
  BY <1>1, Invariance, PTL

\* A completed upload has its text and a failed one its reason, for any
\* number of overlapping tasks and requests.
THEOREM StatusesSupported == Spec => []StatusSupported
<1>1. IInv => StatusSupported
  BY DEF IInv
<1> QED
  BY <1>1, Invariance, PTL

\* The language model sees, and results exist for, uploads with a stored text.
THEOREM ExtractionsFollowText == Spec => []ExtractionsHaveText
<1>1. IInv => ExtractionsHaveText
  BY DEF IInv
<1> QED
  BY <1>1, Invariance, PTL

\* An upload that is processing and that no task reads or will read again
\* was left by a task that died or ran out of retries, and by nothing else.
THEOREM ProcessingHasCause == Spec => []ProcessingExplained
<1>1. IInv => ProcessingExplained
  BY DEF IInv
<1> QED
  BY <1>1, Invariance, PTL

=============================================================================
