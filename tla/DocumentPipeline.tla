---------------------------- MODULE DocumentPipeline ----------------------------
(***************************************************************************)
(* Documents on their way through upload, OCR and redaction.  An upload     *)
(* puts the file into the object store, inserts the row, looks for the same *)
(* file of another applicant and commits; only then is the job enqueued. A  *)
(* worker extracts the text, stores a redacted image and commits both the   *)
(* document and its verification step.  API processes and workers may fail  *)
(* between any two of these; objects and jobs do not roll back.             *)
(***************************************************************************)
EXTENDS Naturals, FiniteSets

CONSTANTS
  Document,   \* uploads, in the order of their arrival or not
  File,       \* document to checksum
  Owner,      \* document to applicant; an applicant has one case here
  Image,      \* documents that are images; the others are PDF files
  Handlers,   \* API requests in progress
  Workers,    \* workers of the verification queue
  MaxFaults   \* bound: failing requests and workers

BoundsAssumption == Image \subseteq Document /\ MaxFaults \in Nat

VARIABLES
  ocr_configured,  \* settings
  document,        \* documents: status, and has it a redacted_storage_key?
  step,            \* verification_steps: how the OCR of a document ended
  flagged,         \* risk_signals: applicants with duplicate_artifact
  original,        \* object store: originals
  redacted,        \* object store: redacted images
  jobs,            \* verification queue
  handler,         \* what each request has done
  worker,          \* what each worker has done
  abandoned,       \* documents whose request or worker failed
  faults,          \* failures so far
  earlier          \* history, read by no action: of each document, the rows
                   \* that were committed when its upload began

vars == <<ocr_configured, document, step, flagged, original, redacted, jobs,
          handler, worker, abandoned, faults, earlier>>

-----------------------------------------------------------------------------
Row == [status : {"uploaded", "processing", "processed", "failed"}, key : BOOLEAN]

NoRow == [status |-> "absent", key |-> FALSE]

StepStatus == {"none", "dependency_not_configured", "failed", "succeeded"}

Idle == [pc |-> "idle"]

Request == [pc : {"stored", "flushed", "committed"}, d : Document, duplicate : BOOLEAN]

Work == [pc : {"loaded", "extracted", "redacted"}, d : Document]

\* Rows that other transactions see.
Visible == {d \in Document : document[d] # NoRow}

InHand == {handler[h].d : h \in {h \in Handlers : handler[h] # Idle}}

Init ==
  /\ ocr_configured \in BOOLEAN
  /\ document = [d \in Document |-> NoRow]
  /\ step = [d \in Document |-> "none"]
  /\ flagged = {}
  /\ original = {}
  /\ redacted = {}
  /\ jobs = {}
  /\ handler = [h \in Handlers |-> Idle]
  /\ worker = [w \in Workers |-> Idle]
  /\ abandoned = {}
  /\ faults = 0
  /\ earlier = [d \in Document |-> {}]

-----------------------------------------------------------------------------
(* upload_document.                                                        *)

\* create_document: the object is stored first.
Store(h, d) ==
  /\ handler[h] = Idle
  /\ d \notin original
  /\ original' = original \cup {d}
  /\ handler' = [handler EXCEPT ![h] = [pc |-> "stored", d |-> d, duplicate |-> FALSE]]
  /\ earlier' = [earlier EXCEPT ![d] = Visible]
  /\ UNCHANGED <<ocr_configured, document, step, flagged, redacted, jobs, worker,
                 abandoned, faults>>

\* Mutant: only files of the same applicant are compared.
DuplicateOfSame(d) ==
  \E e \in Visible \ {d} : File[e] = File[d] /\ Owner[e] = Owner[d]

\* _maybe_flag_duplicate_checksum: has another applicant this file?
DuplicateOf(d) ==
  \E e \in Visible \ {d} : File[e] = File[d] /\ Owner[e] # Owner[d]

\* The row is flushed and its duplicates are looked for.
Flush(h) ==
  /\ handler[h].pc = "stored"
  /\ handler' = [handler EXCEPT ![h].pc = "flushed",
                                ![h].duplicate = DuplicateOf(handler[h].d)]
  /\ UNCHANGED <<ocr_configured, document, step, flagged, original, redacted, jobs,
                 worker, abandoned, faults, earlier>>

\* The transaction ends: the row and the signal become visible.
Insert(h, status) ==
  /\ handler[h].pc = "flushed"
  /\ document' = [document EXCEPT ![handler[h].d] = [status |-> status, key |-> FALSE]]
  /\ flagged' = IF handler[h].duplicate
                THEN flagged \cup {Owner[handler[h].d]} ELSE flagged
  /\ UNCHANGED <<ocr_configured, original, redacted, worker, abandoned, faults, earlier>>

\* process=false.
CommitUploaded(h) ==
  /\ Insert(h, "uploaded")
  /\ handler' = [handler EXCEPT ![h] = Idle]
  /\ UNCHANGED <<step, jobs>>

\* OCR is not configured: the failure is recorded and the request answers 424.
CommitUnconfigured(h) ==
  /\ ~ocr_configured
  /\ Insert(h, "failed")
  /\ step' = [step EXCEPT ![handler[h].d] = "dependency_not_configured"]
  /\ handler' = [handler EXCEPT ![h] = Idle]
  /\ UNCHANGED jobs

\* The commit comes first, so that the worker finds the row ...
CommitProcessing(h) ==
  /\ ocr_configured
  /\ Insert(h, "processing")
  /\ handler' = [handler EXCEPT ![h].pc = "committed"]
  /\ UNCHANGED <<step, jobs>>

\* ... and then the job.
Enqueue(h) ==
  /\ handler[h].pc = "committed"
  /\ jobs' = jobs \cup {handler[h].d}
  /\ handler' = [handler EXCEPT ![h] = Idle]
  /\ UNCHANGED <<ocr_configured, document, step, flagged, original, redacted, worker,
                 abandoned, faults, earlier>>

\* An exception, an unreachable Redis or a crash: what was committed stays.
HandlerFails(h) ==
  /\ faults < MaxFaults
  /\ handler[h] # Idle
  /\ faults' = faults + 1
  /\ abandoned' = abandoned \cup {handler[h].d}
  /\ handler' = [handler EXCEPT ![h] = Idle]
  /\ UNCHANGED <<ocr_configured, document, step, flagged, original, redacted, jobs, worker,
                 earlier>>

-----------------------------------------------------------------------------
(* run_ocr_pipeline.                                                       *)

\* The job is taken; without a row it has nothing to do.
Take(w, d) ==
  /\ worker[w] = Idle
  /\ d \in jobs
  /\ jobs' = jobs \ {d}
  /\ worker' = [worker EXCEPT ![w] =
       IF d \in Visible THEN [pc |-> "loaded", d |-> d] ELSE Idle]
  /\ UNCHANGED <<ocr_configured, document, step, flagged, original, redacted, handler,
                 abandoned, faults, earlier>>

Finish(w, status, key, outcome) ==
  /\ document' = [document EXCEPT ![worker[w].d] = [status |-> status, key |-> key]]
  /\ step' = [step EXCEPT ![worker[w].d] = outcome]
  /\ worker' = [worker EXCEPT ![w] = Idle]
  /\ UNCHANGED <<ocr_configured, flagged, original, redacted, jobs, handler, abandoned,
                 faults, earlier>>

\* Mutant: a document that cannot be read is set aside, with a status that the
\* enumeration has and nothing uses.
ExtractFailsQuarantined(w) ==
  /\ worker[w].pc = "loaded"
  /\ Finish(w, "quarantined", FALSE, "failed")

\* Mutant: the failure is recorded for the step only.
ExtractFailsQuietly(w) ==
  /\ worker[w].pc = "loaded"
  /\ Finish(w, document[worker[w].d].status, FALSE, "failed")

\* The object or the provider fails: the step and the document say so.
ExtractFails(w) ==
  /\ worker[w].pc = "loaded"
  /\ Finish(w, "failed", FALSE, "failed")

Extract(w) ==
  /\ worker[w].pc = "loaded"
  /\ worker' = [worker EXCEPT ![w].pc = "extracted"]
  /\ UNCHANGED <<ocr_configured, document, step, flagged, original, redacted, jobs,
                 handler, abandoned, faults, earlier>>

\* Mutant: the key is taken over and the image is stored by a later upload.
RedactUnstored(w) ==
  /\ worker[w].pc = "extracted"
  /\ worker[w].d \in Image
  /\ worker' = [worker EXCEPT ![w].pc = "redacted"]
  /\ UNCHANGED <<ocr_configured, document, step, flagged, original, redacted, jobs,
                 handler, abandoned, faults, earlier>>

\* _redact_document: of images only.
Redact(w) ==
  /\ worker[w].pc = "extracted"
  /\ worker[w].d \in Image
  /\ redacted' = redacted \cup {worker[w].d}
  /\ worker' = [worker EXCEPT ![w].pc = "redacted"]
  /\ UNCHANGED <<ocr_configured, document, step, flagged, original, jobs, handler,
                 abandoned, faults, earlier>>

CommitProcessed(w) ==
  /\ \/ worker[w].pc = "redacted"
     \/ worker[w].pc = "extracted" /\ worker[w].d \notin Image
  /\ Finish(w, "processed", worker[w].d \in Image, "succeeded")

\* A dying worker, and an exception outside the one place that catches them
\* (redaction, the second object): RQ does not run the job again.
WorkerFails(w) ==
  /\ faults < MaxFaults
  /\ worker[w] # Idle
  /\ faults' = faults + 1
  /\ abandoned' = abandoned \cup {worker[w].d}
  /\ worker' = [worker EXCEPT ![w] = Idle]
  /\ UNCHANGED <<ocr_configured, document, step, flagged, original, redacted, jobs, handler,
                 earlier>>

-----------------------------------------------------------------------------
HandlerStep(h) ==
  Flush(h) \/ CommitUploaded(h) \/ CommitUnconfigured(h) \/ CommitProcessing(h)
  \/ Enqueue(h)

WorkerStep(w) ==
  (\E d \in Document : Take(w, d)) \/ ExtractFails(w) \/ Extract(w) \/ Redact(w)
  \/ CommitProcessed(w)

Next ==
  \/ \E h \in Handlers :
       (\E d \in Document : Store(h, d)) \/ HandlerStep(h) \/ HandlerFails(h)
  \/ \E w \in Workers : WorkerStep(w) \/ WorkerFails(w)

Spec == Init /\ [][Next]_vars

\* Requests and workers that have begun something go on.
Fairness ==
  /\ \A h \in Handlers : WF_vars(HandlerStep(h))
  /\ \A w \in Workers : WF_vars(WorkerStep(w))

FairSpec == Spec /\ Fairness

-----------------------------------------------------------------------------
(* Properties.                                                             *)

\* Every variable has the shape the tables, the queue and the code give it.
TypeOK ==
  /\ ocr_configured \in BOOLEAN
  /\ document \in [Document -> Row \cup {NoRow}]
  /\ step \in [Document -> StepStatus]
  /\ flagged \subseteq {Owner[d] : d \in Document}
  /\ original \subseteq Document
  /\ redacted \subseteq Document
  /\ jobs \subseteq Document
  /\ handler \in [Handlers -> {Idle} \cup Request]
  /\ worker \in [Workers -> {Idle} \cup Work]
  /\ abandoned \subseteq Document
  /\ faults \in 0 .. MaxFaults
  /\ earlier \in [Document -> SUBSET Document]

\* What a row names is in the object store, whatever failed in between: the
\* original of every document, and the preview of every processed image.
ObjectsStored ==
  /\ Visible \subseteq original
  /\ \A d \in Visible :
       /\ document[d].key => d \in redacted
       /\ document[d].status = "processed" /\ d \in Image => document[d].key

\* Did another applicant have this file on record when its upload began?
CopyOfEarlier(d) == \E e \in earlier[d] : File[e] = File[d] /\ Owner[e] # Owner[d]

\* The copy of a file that another applicant had on record is flagged, whatever
\* other uploads, workers and failures there are.
DuplicateFlagged == \A d \in Visible : CopyOfEarlier(d) => Owner[d] \in flagged

\* What the module says of itself: "A duplicate-checksum across different
\* applicants raises a risk signal".
CopiesDetected ==
  \A d, e \in Visible :
    File[d] = File[e] /\ Owner[d] # Owner[e] =>
      Owner[d] \in flagged \/ Owner[e] \in flagged

\* A document does not stay in processing, unless its own request or worker
\* failed.
EventuallyProcessed ==
  \A d \in Document :
    document[d].status = "processing" ~>
      document[d].status \in {"processed", "failed"} \/ d \in abandoned

===============================================================================
