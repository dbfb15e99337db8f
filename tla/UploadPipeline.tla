---------------------------- MODULE UploadPipeline ----------------------------
(***************************************************************************)
(* Uploaded files and the Celery tasks that read them: UploadService, the  *)
(* task ocr_process_upload and the task ai_extract_from_upload it chains.  *)
(*                                                                         *)
(* A request that uploads a file publishes its OCR task before the route   *)
(* commits the row, so the worker may run first.  A task commits several   *)
(* times and talks to the storage and to the OCR service between two       *)
(* commits.  An exception makes Celery publish the task again, with its    *)
(* number of retries, until max_retries; a message is acknowledged when    *)
(* the worker takes it, so that a task dies with its worker.               *)
(***************************************************************************)
EXTENDS Naturals, FiniteSets, OrmSession

CONSTANTS
    Requests,       \* the HTTP requests; an upload is named after the one that made it
    Automatic,      \* the uploads of an image or a PDF with auto_process
    Nobody,         \* the reviewer of a result that was not reviewed
    MaxOcrRetries,  \* max_retries of ocr_process_upload
    MaxAiRetries,   \* max_retries of ai_extract_from_upload
    Faults          \* the faults that may happen: "error", "crash"

ASSUME RetriesAssumption == MaxOcrRetries \in Nat /\ MaxAiRetries \in Nat
ASSUME NobodyAssumption == Nobody \notin Requests

VARIABLES
    rows,      \* the committed row of each upload, absent before its commit
    open,      \* the requests that have staged a status and not yet committed
    queue,     \* the messages in the broker
    running,   \* the tasks that workers have taken
    dropped,   \* history: the tasks that a crash or the last retry ended
    results,   \* rows of ai_extraction_results
    served     \* the requests that were received

vars == <<rows, open, queue, running, dropped, results, served>>

-----------------------------------------------------------------------------
ProcessingStatus == {"pending", "processing", "completed", "failed"}
Row == [status : ProcessingStatus \cup {"absent"},
        text : {"null", "text"}, error : {"null", "message"}]

Change == [req : Requests, upload : Requests,
           loaded : ProcessingStatus \cup {"absent"}, mine : {"pending"}]

Tries == 0 .. MaxOcrRetries + MaxAiRetries
Message == [kind : {"ocr", "ai"}, req : Requests, upload : Requests, tries : Tries]

\* A message in the hands of a worker: its next step, and the status that its
\* session has loaded.
Task == [kind : {"ocr", "ai"}, req : Requests, upload : Requests, tries : Tries,
         pc : {"mark", "read", "chain", "extract"},
         seen : ProcessingStatus]

Result == [req : Requests, upload : Requests, tries : Tries,
           reviewer : Requests \cup {Nobody}]

TypeOK ==
    /\ rows \in [Requests -> Row]
    /\ open \subseteq Change
    /\ queue \subseteq Message
    /\ running \subseteq Task
    /\ dropped \subseteq Message
    /\ results \subseteq Result
    /\ served \subseteq Requests

Init ==
    /\ rows = [u \in Requests |-> [status |-> "absent", text |-> "null", error |-> "null"]]
    /\ open = {} /\ queue = {} /\ running = {} /\ dropped = {} /\ results = {} /\ served = {}

-----------------------------------------------------------------------------
MessageOf(k) == [kind |-> k.kind, req |-> k.req, upload |-> k.upload, tries |-> k.tries]
NewMessage(kind, r, u) == [kind |-> kind, req |-> r, upload |-> u, tries |-> 0]

\* A request stages a status for an upload and may publish its OCR task.
Stage(r, u, mine, published) ==
    /\ r \notin served
    /\ served' = served \cup {r}
    /\ open' = open \cup {[req |-> r, upload |-> u, loaded |-> rows[u].status, mine |-> mine]}
    /\ queue' = queue \cup published
    /\ UNCHANGED <<rows, running, dropped, results>>

\* POST /uploads: the task is queued for an image or a PDF, if auto_process.
HandleUpload(r) ==
    Stage(r, r, "pending", IF r \in Automatic THEN {NewMessage("ocr", r, r)} ELSE {})

\* POST /uploads/{id}/process
TriggerProcessing(r, u) ==
    /\ rows[u].status \notin {"absent", "processing"}
    /\ Stage(r, u, "pending", {NewMessage("ocr", r, u)})

\* db.commit() of the route.
Commit(t) ==
    /\ rows' = [rows EXCEPT ![t.upload].status = Flushed(@, t.loaded, t.mine)]
    /\ open' = open \ {t}
    /\ UNCHANGED <<queue, running, dropped, results, served>>

\* The request fails after its guard; what it published stays published.
Rollback(t) ==
    /\ "error" \in Faults
    /\ open' = open \ {t}
    /\ UNCHANGED <<rows, queue, running, dropped, results, served>>

\* POST /uploads/{id}/review: one of the results of the upload, in the order
\* the database returns them.  The overrides are written into the dictionary
\* that was loaded, which the session does not see as a change.
ReviewExtraction(r, u) ==
    /\ r \notin served
    /\ served' = served \cup {r}
    /\ \E x \in results :
        /\ x.upload = u
        /\ results' = (results \ {x}) \cup {[x EXCEPT !.reviewer = r]}
    /\ UNCHANGED <<rows, open, queue, running, dropped>>

-----------------------------------------------------------------------------
\* ocr_process_upload: the worker takes the message and loads the row.  When
\* there is no row yet it gives up, without a retry.
OcrStart(m) ==
    /\ m \in queue /\ m.kind = "ocr"
    /\ queue' = queue \ {m}
    /\ running' = IF rows[m.upload].status = "absent" THEN running
                  ELSE running \cup
                    {[kind |-> "ocr", req |-> m.req, upload |-> m.upload, tries |-> m.tries,
                      pc |-> "mark", seen |-> rows[m.upload].status]}
    /\ UNCHANGED <<rows, open, dropped, results, served>>

OcrAt(k, pc) == k \in running /\ k.kind = "ocr" /\ k.pc = pc
MoveTo(k, pc) == running' = (running \ {k}) \cup {[k EXCEPT !.pc = pc]}

\* The first commit: processing.
OcrMark(k) ==
    /\ OcrAt(k, "mark")
    /\ rows' = [rows EXCEPT ![k.upload].status = Flushed(@, k.seen, "processing")]
    /\ MoveTo(k, "read")
    /\ UNCHANGED <<open, queue, dropped, results, served>>

\* Mutant of OcrFail: the status is forgotten.
OcrFailSilently(k) ==
    /\ OcrAt(k, "read")
    /\ rows' = [rows EXCEPT ![k.upload].error = "message"]
    /\ running' = running \ {k}
    /\ UNCHANGED <<open, queue, dropped, results, served>>

\* Mutant of OcrFail: the extraction is published without a text.
OcrFailChaining(k) ==
    /\ OcrAt(k, "read")
    /\ rows' = [rows EXCEPT ![k.upload].status = "failed", ![k.upload].error = "message"]
    /\ running' = running \ {k}
    /\ queue' = queue \cup {NewMessage("ai", k.req, k.upload)}
    /\ UNCHANGED <<open, dropped, results, served>>

\* The file cannot be fetched, or the OCR service returns no text.
OcrFail(k) ==
    /\ OcrAt(k, "read")
    /\ rows' = [rows EXCEPT ![k.upload].status = "failed", ![k.upload].error = "message"]
    /\ running' = running \ {k}
    /\ UNCHANGED <<open, queue, dropped, results, served>>

\* Mutant of OcrComplete: the text is not stored.
OcrCompleteStatusOnly(k) ==
    /\ OcrAt(k, "read")
    /\ rows' = [rows EXCEPT ![k.upload].status = "completed"]
    /\ MoveTo(k, "chain")
    /\ UNCHANGED <<open, queue, dropped, results, served>>

\* The text is stored with the status; an older error message stays.
OcrComplete(k) ==
    /\ OcrAt(k, "read")
    /\ rows' = [rows EXCEPT ![k.upload].status = "completed", ![k.upload].text = "text"]
    /\ MoveTo(k, "chain")
    /\ UNCHANGED <<open, queue, dropped, results, served>>

\* ai_extract_from_upload.delay
OcrChain(k) ==
    /\ OcrAt(k, "chain")
    /\ running' = running \ {k}
    /\ queue' = queue \cup {NewMessage("ai", k.req, k.upload)}
    /\ UNCHANGED <<rows, open, dropped, results, served>>

-----------------------------------------------------------------------------
\* ai_extract_from_upload: the worker takes the message, which carries the text.
AiStart(m) ==
    /\ m \in queue /\ m.kind = "ai"
    /\ queue' = queue \ {m}
    /\ running' = running \cup
           {[kind |-> "ai", req |-> m.req, upload |-> m.upload, tries |-> m.tries,
             pc |-> "extract", seen |-> "completed"]}
    /\ UNCHANGED <<rows, open, dropped, results, served>>

\* extract_case_from_text: nothing when the model is not configured, fails or
\* answers something else than JSON; or the row of a result.
Extracted(k) ==
    {{}, {[req |-> k.req, upload |-> k.upload, tries |-> k.tries, reviewer |-> Nobody]}}

AiEnd(k) ==
    /\ k \in running /\ k.kind = "ai"
    /\ running' = running \ {k}
    /\ \E new \in Extracted(k) : results' = results \cup new
    /\ UNCHANGED <<rows, open, queue, dropped, served>>

-----------------------------------------------------------------------------
MaxRetries(kind) == IF kind = "ocr" THEN MaxOcrRetries ELSE MaxAiRetries

\* Mutant of Error: there is no last retry.
ErrorForever(k) ==
    /\ "error" \in Faults
    /\ running' = running \ {k}
    /\ queue' = queue \cup {[MessageOf(k) EXCEPT !.tries = @ + 1]}
    /\ UNCHANGED <<rows, open, dropped, results, served>>

\* An exception before the next commit: self.retry publishes the task again,
\* or gives up after max_retries.
Error(k) ==
    /\ "error" \in Faults
    /\ running' = running \ {k}
    /\ IF k.tries < MaxRetries(k.kind)
       THEN queue' = queue \cup {[MessageOf(k) EXCEPT !.tries = @ + 1]} /\ dropped' = dropped
       ELSE queue' = queue /\ dropped' = dropped \cup {MessageOf(k)}
    /\ UNCHANGED <<rows, open, results, served>>

\* The worker process is lost; its message was acknowledged when it was taken.
Crash(k) ==
    /\ "crash" \in Faults
    /\ running' = running \ {k}
    /\ dropped' = dropped \cup {MessageOf(k)}
    /\ UNCHANGED <<rows, open, queue, results, served>>

-----------------------------------------------------------------------------
Receive(r) ==
    \/ HandleUpload(r)
    \/ \E u \in Requests : TriggerProcessing(r, u) \/ ReviewExtraction(r, u)

\* The steps of the workers on the task of request r.
Work(r) ==
    \/ \E m \in queue : m.req = r /\ (OcrStart(m) \/ AiStart(m))
    \/ \E k \in running : k.req = r /\ (OcrMark(k) \/ OcrFail(k) \/ OcrComplete(k)
                                          \/ OcrChain(k) \/ AiEnd(k))

Next ==
    \/ \E r \in Requests : Receive(r) \/ Work(r)
    \/ \E t \in open : Commit(t) \/ Rollback(t)
    \/ \E k \in running : Error(k) \/ Crash(k)

Spec == Init /\ [][Next]_vars

\* Workers run, and a request ends with its commit.
FairSpec ==
    /\ Spec
    /\ \A r \in Requests : WF_vars(Work(r)) /\ WF_vars(\E t \in open : t.req = r /\ Commit(t))

-----------------------------------------------------------------------------
\* An upload that is completed has its text and one that failed has its
\* reason, whichever of the tasks and requests that write its status came last.
StatusSupported ==
    \A u \in Requests :
        /\ rows[u].status = "completed" => rows[u].text = "text"
        /\ rows[u].status = "failed" => rows[u].error = "message"

\* Only uploads whose text is stored reach the language model: the text is
\* committed before the task is published, unlike the upload itself.
ExtractionsHaveText ==
    /\ \A m \in queue \cup running : m.kind = "ai" => rows[m.upload].text = "text"
    /\ \A x \in results : rows[x.upload].text = "text"

\* An upload is processing only while a task is reading it, or waits for its
\* retry, or was dropped: then nothing will change the status, and
\* trigger_processing refuses to.
ProcessingExplained ==
    \A u \in Requests : rows[u].status = "processing" =>
        \/ \E k \in running : k.upload = u /\ k.pc \in {"mark", "read"}
        \/ \E m \in queue : m.kind = "ocr" /\ m.upload = u /\ m.tries > 0
        \/ \E m \in dropped : m.kind = "ocr" /\ m.upload = u

\* An upload stops being processed, unless a task of it was dropped: no retry
\* and no overlap of tasks and requests leaves it in between.
ProcessingSettles ==
    \A u \in Requests :
        rows[u].status = "processing" ~>
            (rows[u].status # "processing" \/ \E m \in dropped : m.upload = u)

-----------------------------------------------------------------------------
(***************************************************************************)
(* What the documentation says and the code does not keep.                 *)
(***************************************************************************)

\* "Re-queue if worker crashes" (celery_app): the task dies with its worker
\* and nothing resets the status.
ProcessingEnds ==
    \A u \in Requests : rows[u].status = "processing" ~> rows[u].status # "processing"

\* "OCR processing is queued automatically via Celery" (upload_file): when the
\* task runs before the commit of the route, the upload stays pending.
AutomaticLeavesPending ==
    \A u \in Automatic : rows[u].status = "pending" ~> rows[u].status # "pending"

=============================================================================
