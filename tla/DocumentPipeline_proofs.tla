------------------------ MODULE DocumentPipeline_proofs ------------------------
(***************************************************************************)
(* For any documents, requests, workers and failures: what a row names is   *)
(* in the object store, and a file that another applicant had on record is  *)
(* flagged.                                                                 *)
(***************************************************************************)
EXTENDS DocumentPipeline, TLAPS

-----------------------------------------------------------------------------
(* What the steps do.                                                      *)

RowStatus == {"uploaded", "processing", "processed", "failed"}

LEMMA NoRowIsNone == NoRow \notin Row /\ Idle \notin Request /\ Idle \notin Work
  BY DEF NoRow, Row, Idle, Request, Work

\* A request that is under way.
LEMMA HandlerInHand ==
  ASSUME TypeOK, NEW h \in Handlers, handler[h] # Idle
  PROVE  handler[h] \in Request /\ handler[h].d \in Document
  BY DEF TypeOK, Request

LEMMA WorkerInHand ==
  ASSUME TypeOK, NEW w \in Workers, worker[w] # Idle
  PROVE  worker[w] \in Work /\ worker[w].d \in Document
  BY DEF TypeOK, Work

\* The row of one document is written.
LEMMA InsertForm ==
  ASSUME TypeOK, NEW h \in Handlers, NEW status \in RowStatus, Insert(h, status)
  PROVE  /\ handler[h] # Idle /\ handler[h] \in Request /\ handler[h].d \in Document
         /\ document' \in [Document -> Row \cup {NoRow}]
         /\ document'[handler[h].d] = [status |-> status, key |-> FALSE]
         /\ \A e \in Document : e # handler[h].d => document'[e] = document[e]
         /\ Visible' = Visible \cup {handler[h].d}
         /\ handler[h].pc = "flushed"
         /\ handler[h].duplicate => Owner[handler[h].d] \in flagged'
         /\ flagged \subseteq flagged'
         /\ flagged' \subseteq flagged \cup {Owner[handler[h].d]}
         /\ UNCHANGED <<ocr_configured, original, redacted, worker, abandoned, faults,
                        earlier>>
<1>1. handler[h] # Idle
  BY DEF Insert, Idle
<1>2. handler[h] \in Request /\ handler[h].d \in Document
  BY <1>1, HandlerInHand
<1>3. PICK row : row = [status |-> status, key |-> FALSE]
  OBVIOUS
<1>4. row \in Row /\ row # NoRow
  <2>1. \A key \in BOOLEAN : [status |-> status, key |-> key] \in Row
    BY DEF Row, RowStatus
  <2> QED BY <1>3, <2>1, NoRowIsNone
<1>5. document' = [document EXCEPT ![handler[h].d] = row]
  BY <1>3 DEF Insert
<1>6. /\ document' \in [Document -> Row \cup {NoRow}]
      /\ document'[handler[h].d] = row
      /\ \A e \in Document : e # handler[h].d => document'[e] = document[e]
  BY <1>2, <1>4, <1>5 DEF TypeOK
<1>7. Visible' = Visible \cup {handler[h].d}
  BY <1>2, <1>4, <1>6 DEF Visible
<1> QED BY <1>1, <1>2, <1>3, <1>6, <1>7 DEF Insert

\* A worker ends: it writes the row and the step of its document.
LEMMA FinishForm ==
  ASSUME TypeOK, NEW w \in Workers, worker[w] # Idle,
         NEW status \in RowStatus, NEW key \in BOOLEAN, NEW outcome \in StepStatus,
         Finish(w, status, key, outcome)
  PROVE  /\ worker[w].d \in Document
         /\ document' \in [Document -> Row \cup {NoRow}]
         /\ document'[worker[w].d] = [status |-> status, key |-> key]
         /\ \A e \in Document : e # worker[w].d => document'[e] = document[e]
         /\ Visible' = Visible \cup {worker[w].d}
         /\ step' \in [Document -> StepStatus]
         /\ step'[worker[w].d] = outcome
         /\ \A e \in Document : e # worker[w].d => step'[e] = step[e]
         /\ worker' \in [Workers -> {Idle} \cup Work]
         /\ worker'[w] = Idle
         /\ \A v \in Workers : v # w => worker'[v] = worker[v]
         /\ UNCHANGED <<ocr_configured, flagged, original, redacted, jobs, handler,
                        abandoned, faults, earlier>>
<1>1. worker[w].d \in Document
  BY WorkerInHand
<1>2. PICK row : row = [status |-> status, key |-> key]
  OBVIOUS
<1>3. row \in Row /\ row # NoRow
  BY <1>2, NoRowIsNone DEF Row, RowStatus
<1>4. document' = [document EXCEPT ![worker[w].d] = row]
  BY <1>2 DEF Finish
<1>5. /\ document' \in [Document -> Row \cup {NoRow}]
      /\ document'[worker[w].d] = row
      /\ \A e \in Document : e # worker[w].d => document'[e] = document[e]
  BY <1>1, <1>3, <1>4 DEF TypeOK
<1>6. Visible' = Visible \cup {worker[w].d}
  BY <1>1, <1>3, <1>5 DEF Visible
<1> QED BY <1>1, <1>2, <1>5, <1>6 DEF Finish, TypeOK

\* The commits of a request, and what each does besides the insertion.
LEMMA CommitForm ==
  ASSUME TypeOK, NEW h \in Handlers,
         CommitUploaded(h) \/ CommitUnconfigured(h) \/ CommitProcessing(h)
  PROVE  \E status \in {"uploaded", "processing", "failed"} :
           /\ Insert(h, status)
           /\ UNCHANGED jobs
           /\ \/ status # "failed" /\ step' = step
              \/ /\ status = "failed" /\ ~ocr_configured
                 /\ step' = [step EXCEPT ![handler[h].d] = "dependency_not_configured"]
           /\ status = "processing" => ocr_configured
           /\ handler' \in [Handlers -> {Idle} \cup Request]
           /\ \A g \in Handlers : g # h => handler'[g] = handler[g]
           /\ \/ handler'[h] = Idle
              \/ /\ handler'[h].pc = "committed" /\ handler'[h].d = handler[h].d
                 /\ ocr_configured
<1>1. CASE CommitUploaded(h)
  BY <1>1 DEF CommitUploaded, TypeOK
<1>2. CASE CommitUnconfigured(h)
  BY <1>2 DEF CommitUnconfigured, TypeOK
<1>3. CASE CommitProcessing(h)
  <2>1. handler[h] \in Request
    BY <1>3, HandlerInHand DEF CommitProcessing, Insert, Idle
  <2>2. PICK y : y = [handler[h] EXCEPT !.pc = "committed"]
    OBVIOUS
  <2>3. y \in Request /\ y.pc = "committed" /\ y.d = handler[h].d
    BY <2>1, <2>2 DEF Request
  <2>4. handler' = [handler EXCEPT ![h] = y]
    BY <1>3, <2>2 DEF CommitProcessing, TypeOK
  <2> QED BY <1>3, <2>3, <2>4 DEF CommitProcessing, TypeOK
<1> QED BY <1>1, <1>2, <1>3

\* The flush of a request, which only looks.
LEMMA FlushForm ==
  ASSUME TypeOK, NEW h \in Handlers, Flush(h)
  PROVE  /\ handler[h] # Idle /\ handler[h] \in Request
         /\ handler'[h] \in Request /\ handler'[h].d = handler[h].d
         /\ handler'[h].duplicate = DuplicateOf(handler[h].d)
         /\ handler' \in [Handlers -> {Idle} \cup Request]
         /\ \A g \in Handlers : g # h => handler'[g] = handler[g]
         /\ UNCHANGED <<ocr_configured, document, step, flagged, original, redacted,
                        jobs, worker, abandoned, faults, earlier>>
<1>1. handler[h] # Idle
  BY DEF Flush, Idle
<1>2. handler[h] \in Request
  BY <1>1, HandlerInHand
<1>3. PICK b \in BOOLEAN : b = DuplicateOf(handler[h].d)
  BY DEF DuplicateOf
<1>4. PICK y : y = [handler[h] EXCEPT !.pc = "flushed", !.duplicate = b]
  OBVIOUS
<1>5. y \in Request /\ y.d = handler[h].d /\ y.duplicate = b
  BY <1>2, <1>4 DEF Request
<1>6. handler' = [handler EXCEPT ![h] = y]
  BY <1>3, <1>4 DEF Flush, TypeOK
<1> QED BY <1>1, <1>2, <1>3, <1>5, <1>6 DEF Flush, TypeOK

\* A worker goes on, and stores an image or not.
LEMMA WorkForm ==
  ASSUME TypeOK, NEW w \in Workers, Extract(w) \/ Redact(w)
  PROVE  /\ worker[w] # Idle /\ worker[w].d \in Document
         /\ worker'[w] \in Work /\ worker'[w].d = worker[w].d
         /\ worker'[w].pc = "redacted" => worker[w].d \in redacted'
         /\ worker' \in [Workers -> {Idle} \cup Work]
         /\ \A v \in Workers : v # w => worker'[v] = worker[v]
         /\ redacted \subseteq redacted' /\ redacted' \subseteq Document
         /\ UNCHANGED <<ocr_configured, document, step, flagged, original, jobs,
                        handler, abandoned, faults, earlier>>
<1>1. worker[w] # Idle
  BY DEF Extract, Redact, Idle
<1>2. worker[w] \in Work /\ worker[w].d \in Document
  BY <1>1, WorkerInHand
<1>3. CASE Extract(w)
  <2>1. PICK y : y = [worker[w] EXCEPT !.pc = "extracted"]
    OBVIOUS
  <2>2. y \in Work /\ y.d = worker[w].d /\ y.pc = "extracted"
    BY <1>2, <2>1 DEF Work
  <2>3. worker' = [worker EXCEPT ![w] = y]
    BY <1>3, <2>1 DEF Extract, TypeOK
  <2> QED BY <1>1, <1>2, <1>3, <2>2, <2>3 DEF Extract, TypeOK
<1>4. CASE Redact(w)
  <2>1. PICK y : y = [worker[w] EXCEPT !.pc = "redacted"]
    OBVIOUS
  <2>2. y \in Work /\ y.d = worker[w].d
    BY <1>2, <2>1 DEF Work
  <2>3. worker' = [worker EXCEPT ![w] = y]
    BY <1>4, <2>1 DEF Redact, TypeOK
  <2> QED BY <1>1, <1>2, <1>4, <2>2, <2>3 DEF Redact, TypeOK
<1> QED BY <1>3, <1>4

\* The end of the work on a document: it failed, or it is processed.
LEMMA OutcomeForm ==
  ASSUME TypeOK, NEW w \in Workers, ExtractFails(w) \/ CommitProcessed(w)
  PROVE  /\ worker[w] # Idle
         /\ \/ Finish(w, "failed", FALSE, "failed")
            \/ \E key \in BOOLEAN :
                 /\ Finish(w, "processed", key, "succeeded")
                 /\ key <=> worker[w].d \in Image
                 /\ worker[w].d \in Image => worker[w].pc = "redacted"
<1>1. worker[w] # Idle
  <2>1. worker[w].pc \in {"loaded", "extracted", "redacted"}
    BY DEF ExtractFails, CommitProcessed
  <2> QED BY <2>1 DEF Idle
<1>2. ExtractFails(w) => Finish(w, "failed", FALSE, "failed")
  BY DEF ExtractFails
<1>3. CommitProcessed(w) =>
        \E key \in BOOLEAN :
          /\ Finish(w, "processed", key, "succeeded")
          /\ key <=> worker[w].d \in Image
          /\ worker[w].d \in Image => worker[w].pc = "redacted"
  <2> HAVE CommitProcessed(w)
  <2> WITNESS (worker[w].d \in Image) \in BOOLEAN
  <2>1. Finish(w, "processed", worker[w].d \in Image, "succeeded")
    BY DEF CommitProcessed
  <2>2. worker[w].d \in Image => worker[w].pc = "redacted"
    BY DEF CommitProcessed
  <2> QED BY <2>1, <2>2
<1> QED BY <1>1, <1>2, <1>3

\* The other steps: a request or a worker begins, hands its job over or is
\* dropped.  No row, no step and no signal changes.
LEMMA QuietForm ==
  ASSUME TypeOK, [Next]_vars
  PROVE  \/ \E h \in Handlers :
              Flush(h) \/ CommitUploaded(h) \/ CommitUnconfigured(h) \/ CommitProcessing(h)
         \/ \E w \in Workers :
              Extract(w) \/ Redact(w) \/ ExtractFails(w) \/ CommitProcessed(w)
         \/ /\ UNCHANGED <<ocr_configured, document, step, flagged, redacted>>
            /\ \/ UNCHANGED <<original, jobs, handler, worker, earlier>>
               \/ \E h \in Handlers, d \in Document :
                    Store(h, d) /\ UNCHANGED <<jobs, worker>>
               \/ \E h \in Handlers :
                    /\ handler' = [handler EXCEPT ![h] = Idle]
                    /\ UNCHANGED <<original, worker, earlier>>
                    /\ \/ UNCHANGED jobs
                       \/ Enqueue(h)
               \/ \E w \in Workers :
                    /\ UNCHANGED <<original, handler, earlier>>
                    /\ jobs' \subseteq jobs
                    /\ \/ worker' = [worker EXCEPT ![w] = Idle]
                       \/ \E d \in Visible :
                            /\ d \in jobs
                            /\ worker' = [worker EXCEPT ![w] = [pc |-> "loaded", d |-> d]]
<1>1. CASE UNCHANGED vars
  BY <1>1 DEF vars
<1>2. ASSUME NEW h \in Handlers, NEW d \in Document, Store(h, d)
      PROVE  /\ UNCHANGED <<ocr_configured, document, step, flagged, redacted>>
             /\ UNCHANGED <<jobs, worker>>
  BY <1>2 DEF Store
<1>3. ASSUME NEW h \in Handlers, Enqueue(h) \/ HandlerFails(h)
      PROVE  /\ UNCHANGED <<ocr_configured, document, step, flagged, redacted>>
             /\ handler' = [handler EXCEPT ![h] = Idle]
             /\ UNCHANGED <<original, worker, earlier>>
             /\ UNCHANGED jobs \/ Enqueue(h)
  BY <1>3 DEF Enqueue, HandlerFails
<1>4. ASSUME NEW w \in Workers, NEW d \in Document, Take(w, d)
      PROVE  /\ UNCHANGED <<ocr_configured, document, step, flagged, redacted>>
             /\ UNCHANGED <<original, handler, earlier>>
             /\ jobs' \subseteq jobs
             /\ \/ worker' = [worker EXCEPT ![w] = Idle]
                \/ \E e \in Visible :
                     /\ e \in jobs
                     /\ worker' = [worker EXCEPT ![w] = [pc |-> "loaded", d |-> e]]
  BY <1>4 DEF Take
<1>5. ASSUME NEW w \in Workers, WorkerFails(w)
      PROVE  /\ UNCHANGED <<ocr_configured, document, step, flagged, redacted>>
             /\ UNCHANGED <<original, handler, earlier>>
             /\ jobs' \subseteq jobs
             /\ worker' = [worker EXCEPT ![w] = Idle]
  BY <1>5 DEF WorkerFails
<1> QED BY <1>1, <1>2, <1>3, <1>4, <1>5 DEF Next, HandlerStep, WorkerStep

-----------------------------------------------------------------------------
(* Types.                                                                  *)

\* The bound counts the failures and nothing else.
LEMMA FaultsCount ==
  ASSUME BoundsAssumption, TypeOK, [Next]_vars
  PROVE  abandoned' \subseteq Document /\ faults' \in 0 .. MaxFaults
<1>1. ASSUME NEW h \in Handlers, HandlerFails(h)
      PROVE  abandoned' \subseteq Document /\ faults' \in 0 .. MaxFaults
  <2>1. handler[h].d \in Document
    BY <1>1, HandlerInHand DEF HandlerFails
  <2> QED BY <1>1, <2>1 DEF HandlerFails, TypeOK, BoundsAssumption
<1>2. ASSUME NEW w \in Workers, WorkerFails(w)
      PROVE  abandoned' \subseteq Document /\ faults' \in 0 .. MaxFaults
  <2>1. worker[w].d \in Document
    BY <1>2, WorkerInHand DEF WorkerFails
  <2> QED BY <1>2, <2>1 DEF WorkerFails, TypeOK, BoundsAssumption
<1>3. CASE UNCHANGED <<abandoned, faults>>
  BY <1>3 DEF TypeOK
<1>4. \/ \E h \in Handlers : HandlerFails(h)
      \/ \E w \in Workers : WorkerFails(w)
      \/ UNCHANGED <<abandoned, faults>>
  BY DEF Next, vars, HandlerStep, WorkerStep, Store, Flush, CommitUploaded,
         CommitUnconfigured, CommitProcessing, Insert, Enqueue, Take, ExtractFails,
         Extract, Redact, CommitProcessed, Finish
<1> QED BY <1>1, <1>2, <1>3, <1>4

\* All of TypeOK but the bound.
Shapes ==
  /\ ocr_configured \in BOOLEAN
  /\ document \in [Document -> Row \cup {NoRow}]
  /\ step \in [Document -> StepStatus]
  /\ flagged \subseteq {Owner[d] : d \in Document}
  /\ original \subseteq Document
  /\ redacted \subseteq Document
  /\ jobs \subseteq Document
  /\ handler \in [Handlers -> {Idle} \cup Request]
  /\ worker \in [Workers -> {Idle} \cup Work]

LEMMA ShapesStep ==
  ASSUME TypeOK, [Next]_vars
  PROVE  Shapes'
<1>0. Shapes
  BY DEF TypeOK, Shapes
<1>1. ASSUME NEW h \in Handlers, Flush(h) PROVE Shapes'
  BY <1>0, <1>1, FlushForm DEF Shapes
<1>2. ASSUME NEW h \in Handlers,
             CommitUploaded(h) \/ CommitUnconfigured(h) \/ CommitProcessing(h)
      PROVE  Shapes'
  <2>1. PICK status \in {"uploaded", "processing", "failed"} :
           /\ Insert(h, status)
           /\ UNCHANGED jobs
           /\ \/ step' = step
              \/ step' = [step EXCEPT ![handler[h].d] = "dependency_not_configured"]
           /\ handler' \in [Handlers -> {Idle} \cup Request]
    BY <1>2, CommitForm
  <2>2. status \in RowStatus
    BY DEF RowStatus
  <2>3. /\ handler[h].d \in Document
        /\ document' \in [Document -> Row \cup {NoRow}]
        /\ flagged' \subseteq flagged \cup {Owner[handler[h].d]}
        /\ UNCHANGED <<ocr_configured, original, redacted, worker>>
    BY <2>1, <2>2, InsertForm
  <2>4. step' \in [Document -> StepStatus]
    BY <1>0, <2>1 DEF Shapes, StepStatus
  <2> QED BY <1>0, <2>1, <2>3, <2>4 DEF Shapes
<1>3. ASSUME NEW w \in Workers, Extract(w) \/ Redact(w) PROVE Shapes'
  BY <1>0, <1>3, WorkForm DEF Shapes
<1>4. ASSUME NEW w \in Workers, ExtractFails(w) \/ CommitProcessed(w) PROVE Shapes'
  <2>1. "failed" \in RowStatus /\ "processed" \in RowStatus
        /\ "failed" \in StepStatus /\ "succeeded" \in StepStatus
    BY DEF RowStatus, StepStatus
  <2>2. FALSE \in BOOLEAN
    OBVIOUS
  <2>3. PICK status \in RowStatus, key \in BOOLEAN, outcome \in StepStatus :
          Finish(w, status, key, outcome)
    BY <1>4, <2>1, <2>2, OutcomeForm
  <2>4. worker[w] # Idle
    BY <1>4, OutcomeForm
  <2> QED BY <1>0, <2>3, <2>4, FinishForm DEF Shapes
<1>5. ASSUME NEW h \in Handlers, NEW d \in Document, Store(h, d),
             UNCHANGED <<ocr_configured, document, step, flagged, redacted, jobs, worker>>
      PROVE  Shapes'
  <2>1. [pc |-> "stored", d |-> d, duplicate |-> FALSE] \in Request
    BY DEF Request
  <2> QED BY <1>0, <1>5, <2>1 DEF Shapes, Store
<1>6. ASSUME NEW h \in Handlers,
             UNCHANGED <<ocr_configured, document, step, flagged, redacted>>,
             handler' = [handler EXCEPT ![h] = Idle],
             UNCHANGED <<original, worker>>, UNCHANGED jobs \/ Enqueue(h)
      PROVE  Shapes'
  <2>1. jobs' \subseteq Document
    <3>1. CASE Enqueue(h)
      <4>1. handler[h].d \in Document
        BY <3>1, HandlerInHand DEF Enqueue, Idle
      <4> QED BY <1>0, <3>1, <4>1 DEF Enqueue, Shapes
    <3> QED BY <1>0, <1>6, <3>1 DEF Shapes
  <2> QED BY <1>0, <1>6, <2>1 DEF Shapes
<1>7. ASSUME NEW w \in Workers,
             UNCHANGED <<ocr_configured, document, step, flagged, redacted>>,
             UNCHANGED <<original, handler>>, jobs' \subseteq jobs,
             \/ worker' = [worker EXCEPT ![w] = Idle]
             \/ \E d \in Visible :
                  worker' = [worker EXCEPT ![w] = [pc |-> "loaded", d |-> d]]
      PROVE  Shapes'
  <2>1. \A d \in Visible : [pc |-> "loaded", d |-> d] \in Work
    BY DEF Visible, Work
  <2>2. worker' \in [Workers -> {Idle} \cup Work]
    BY <1>0, <1>7, <2>1 DEF Shapes
  <2> QED BY <1>0, <1>7, <2>2 DEF Shapes
<1>8. CASE UNCHANGED <<ocr_configured, document, step, flagged, redacted, original, jobs,
                       handler, worker>>
  BY <1>0, <1>8 DEF Shapes
<1> QED BY <1>1, <1>2, <1>3, <1>4, <1>5, <1>6, <1>7, <1>8, QuietForm

\* The history is written by uploads that begin.
LEMMA EarlierStep ==
  ASSUME TypeOK, [Next]_vars
  PROVE  \/ earlier' = earlier
         \/ \E h \in Handlers, d \in Document :
              Store(h, d) /\ earlier' = [earlier EXCEPT ![d] = Visible]
<1>1. ASSUME NEW h \in Handlers,
             \/ Flush(h) \/ CommitUploaded(h) \/ CommitUnconfigured(h)
             \/ CommitProcessing(h) \/ Enqueue(h) \/ HandlerFails(h)
      PROVE  earlier' = earlier
  BY <1>1 DEF Flush, CommitUploaded, CommitUnconfigured, CommitProcessing, Insert,
              Enqueue, HandlerFails
<1>2. ASSUME NEW w \in Workers, WorkerStep(w) \/ WorkerFails(w)
      PROVE  earlier' = earlier
  BY <1>2 DEF WorkerStep, Take, ExtractFails, Extract, Redact, CommitProcessed, Finish,
              WorkerFails
<1> QED BY <1>1, <1>2 DEF Next, HandlerStep, Store, vars

LEMMA TypeStep ==
  ASSUME BoundsAssumption, TypeOK, [Next]_vars
  PROVE  TypeOK'
<1>1. earlier' \in [Document -> SUBSET Document]
  BY EarlierStep DEF TypeOK, Visible
<1> QED BY <1>1, ShapesStep, FaultsCount DEF TypeOK, Shapes

LEMMA TypeInit == BoundsAssumption /\ Init => TypeOK
BY DEF Init, TypeOK, BoundsAssumption, StepStatus

\* The type invariant, for every instance.
THEOREM TypeCorrect == ASSUME BoundsAssumption PROVE Spec => []TypeOK
<1>1. Init => TypeOK
  BY TypeInit
<1>2. TypeOK /\ [Next]_vars => TypeOK'
  BY TypeStep
<1> QED BY <1>1, <1>2, PTL DEF Spec

-----------------------------------------------------------------------------
(* Objects.                                                                *)

\* A request works on a document that is stored, and a worker on one whose row
\* is visible; after its redaction the image is stored too.
HandInv ==
  /\ \A h \in Handlers : handler[h] # Idle => handler[h].d \in original
  /\ \A w \in Workers : worker[w] # Idle =>
       /\ worker[w].d \in Visible
       /\ worker[w].pc = "redacted" => worker[w].d \in redacted

StoredInv == HandInv /\ ObjectsStored

\* The row of one document satisfies ObjectsStored.
RowStored(d) ==
  /\ d \in original
  /\ document[d].key => d \in redacted
  /\ document[d].status = "processed" /\ d \in Image => document[d].key

LEMMA StoredByRow ==
  ASSUME TypeOK
  PROVE  ObjectsStored <=> \A d \in Visible : RowStored(d)
BY DEF ObjectsStored, RowStored, TypeOK

LEMMA StoredStep ==
  ASSUME TypeOK, TypeOK', StoredInv, [Next]_vars
  PROVE  StoredInv'
<1>0. \A d \in Visible : RowStored(d)
  BY StoredByRow DEF StoredInv
<1>1. ASSUME NEW h \in Handlers, Flush(h) PROVE StoredInv'
  <2>1. HandInv'
    BY <1>1, FlushForm DEF StoredInv, HandInv, Visible
  <2> QED BY <1>1, <2>1, FlushForm DEF StoredInv, ObjectsStored, Visible
<1>2. ASSUME NEW h \in Handlers,
             CommitUploaded(h) \/ CommitUnconfigured(h) \/ CommitProcessing(h)
      PROVE  StoredInv'
  <2>1. PICK status \in {"uploaded", "processing", "failed"} :
           /\ Insert(h, status)
           /\ \A g \in Handlers : g # h => handler'[g] = handler[g]
           /\ handler'[h] = Idle \/ handler'[h].d = handler[h].d
    BY <1>2, CommitForm
  <2>2. status \in RowStatus
    BY DEF RowStatus
  <2>3. /\ handler[h] # Idle /\ handler[h].d \in Document
        /\ document'[handler[h].d] = [status |-> status, key |-> FALSE]
        /\ \A e \in Document : e # handler[h].d => document'[e] = document[e]
        /\ Visible' = Visible \cup {handler[h].d}
        /\ UNCHANGED <<original, redacted, worker>>
    BY <2>1, <2>2, InsertForm
  <2>4. handler[h].d \in original
    BY <2>3 DEF StoredInv, HandInv
  <2>5. HandInv'
    BY <2>1, <2>3, <2>4 DEF StoredInv, HandInv
  <2>6. ASSUME NEW d \in Visible' PROVE RowStored(d)'
    <3>1. CASE d = handler[h].d
      <4>1. document'[d].status # "processed" /\ ~document'[d].key
        BY <2>3, <3>1
      <4> QED BY <2>3, <2>4, <3>1, <4>1 DEF RowStored
    <3>2. CASE d # handler[h].d
      <4>1. RowStored(d) /\ document'[d] = document[d]
        BY <1>0, <2>3, <3>2 DEF Visible
      <4> QED BY <2>3, <4>1 DEF RowStored
    <3> QED BY <3>1, <3>2
  <2>7. ObjectsStored'
    BY <2>6 DEF ObjectsStored, RowStored
  <2> QED BY <2>5, <2>7 DEF StoredInv
<1>3. ASSUME NEW w \in Workers, Extract(w) \/ Redact(w) PROVE StoredInv'
  <2>1. /\ worker[w] # Idle /\ worker'[w].d = worker[w].d
        /\ worker'[w].pc = "redacted" => worker[w].d \in redacted'
        /\ \A v \in Workers : v # w => worker'[v] = worker[v]
        /\ redacted \subseteq redacted'
        /\ UNCHANGED <<document, original, handler>>
    BY <1>3, WorkForm
  <2>2. Visible' = Visible
    BY <2>1 DEF Visible
  <2>3. HandInv'
    BY <2>1, <2>2 DEF StoredInv, HandInv
  <2> QED BY <2>1, <2>2, <2>3 DEF StoredInv, ObjectsStored
<1>4. ASSUME NEW w \in Workers, ExtractFails(w) \/ CommitProcessed(w) PROVE StoredInv'
  <2>1. worker[w] # Idle
    BY <1>4, OutcomeForm
  <2>2. worker[w].d \in Visible
    BY <2>1 DEF StoredInv, HandInv
  <2>3. PICK status \in {"failed", "processed"}, key \in BOOLEAN,
              outcome \in {"failed", "succeeded"} :
          /\ Finish(w, status, key, outcome)
          /\ key => worker[w].d \in redacted
          /\ status = "processed" /\ worker[w].d \in Image => key
    <3>1. FALSE \in BOOLEAN
      OBVIOUS
    <3>2. worker[w].pc = "redacted" => worker[w].d \in redacted
      BY <2>1 DEF StoredInv, HandInv
    <3> QED BY <1>4, <3>1, <3>2, OutcomeForm
  <2>4. status \in RowStatus /\ outcome \in StepStatus
    BY DEF RowStatus, StepStatus
  <2>5. /\ worker[w].d \in Document
        /\ document'[worker[w].d] = [status |-> status, key |-> key]
        /\ \A e \in Document : e # worker[w].d => document'[e] = document[e]
        /\ Visible' = Visible \cup {worker[w].d}
        /\ worker'[w] = Idle
        /\ \A v \in Workers : v # w => worker'[v] = worker[v]
        /\ UNCHANGED <<original, redacted, handler>>
    BY <2>1, <2>3, <2>4, FinishForm
  <2>6. HandInv'
    BY <2>5 DEF StoredInv, HandInv
  <2>7. ASSUME NEW d \in Visible' PROVE RowStored(d)'
    <3>1. CASE d = worker[w].d
      <4>1. document'[d].status = status /\ document'[d].key = key
        BY <2>5, <3>1
      <4>2. d \in original
        BY <1>0, <2>2, <3>1 DEF RowStored
      <4> QED BY <2>3, <2>5, <3>1, <4>1, <4>2 DEF RowStored
    <3>2. CASE d # worker[w].d
      <4>1. RowStored(d) /\ document'[d] = document[d]
        BY <1>0, <2>5, <3>2 DEF Visible
      <4> QED BY <2>5, <4>1 DEF RowStored
    <3> QED BY <3>1, <3>2
  <2>8. ObjectsStored'
    BY <2>7 DEF ObjectsStored, RowStored
  <2> QED BY <2>6, <2>8 DEF StoredInv
<1>5. ASSUME UNCHANGED <<document, redacted>>, HandInv', original \subseteq original'
      PROVE  StoredInv'
  <2>1. Visible' = Visible
    BY <1>5 DEF Visible
  <2> QED BY <1>5, <2>1 DEF StoredInv, ObjectsStored
<1>6. ASSUME UNCHANGED <<document, redacted>>, NEW h \in Handlers, NEW d \in Document,
             Store(h, d), UNCHANGED worker
      PROVE  StoredInv'
  <2>1. HandInv' /\ original \subseteq original'
    BY <1>6 DEF StoredInv, HandInv, Store, TypeOK, Visible
  <2> QED BY <1>5, <1>6, <2>1
<1>7. ASSUME UNCHANGED <<document, redacted>>, NEW h \in Handlers,
             handler' = [handler EXCEPT ![h] = Idle], UNCHANGED <<original, worker>>
      PROVE  StoredInv'
  <2>1. HandInv'
    BY <1>7 DEF StoredInv, HandInv, TypeOK, Visible
  <2> QED BY <1>5, <1>7, <2>1
<1>8. ASSUME UNCHANGED <<document, redacted>>, NEW w \in Workers,
             UNCHANGED <<original, handler>>,
             \/ worker' = [worker EXCEPT ![w] = Idle]
             \/ \E d \in Visible :
                  worker' = [worker EXCEPT ![w] = [pc |-> "loaded", d |-> d]]
      PROVE  StoredInv'
  <2>1. HandInv'
    BY <1>8 DEF StoredInv, HandInv, TypeOK, Visible
  <2> QED BY <1>5, <1>8, <2>1
<1>9. ASSUME UNCHANGED <<document, redacted>>, UNCHANGED <<original, handler, worker>>
      PROVE  StoredInv'
  <2>1. HandInv'
    BY <1>9 DEF StoredInv, HandInv, Visible
  <2> QED BY <1>5, <1>9, <2>1
<1> QED BY <1>1, <1>2, <1>3, <1>4, <1>6, <1>7, <1>8, <1>9, QuietForm

\* What the rows name is stored, whatever overlaps and fails.
THEOREM NamedObjectsStored == ASSUME BoundsAssumption PROVE Spec => []ObjectsStored
<1>1. Init => TypeOK /\ StoredInv
  BY TypeInit DEF Init, StoredInv, HandInv, ObjectsStored, Visible
<1>2. TypeOK /\ StoredInv /\ [Next]_vars => TypeOK' /\ StoredInv'
  BY TypeStep, StoredStep
<1>3. StoredInv => ObjectsStored
  BY DEF StoredInv
<1> QED BY <1>1, <1>2, <1>3, PTL DEF Spec

-----------------------------------------------------------------------------
(* Duplicates.                                                             *)

\* Rows stay: what an upload could see when it began is there until it ends.
EarlierVisible == \A d \in Document : earlier[d] \subseteq Visible

\* The look for duplicates finds at least what was there at the beginning.
LookedInv ==
  \A h \in Handlers :
    handler[h].pc = "flushed" /\ CopyOfEarlier(handler[h].d) => handler[h].duplicate

DuplicateInv == EarlierVisible /\ LookedInv /\ DuplicateFlagged

\* No row goes, no signal goes, and no upload begins or looks.
LEMMA DuplicateKept ==
  ASSUME DuplicateInv, earlier' = earlier, Visible' = Visible, flagged \subseteq flagged',
         \A h \in Handlers : handler'[h] = handler[h] \/ handler'[h].pc # "flushed"
  PROVE  DuplicateInv'
BY DEF DuplicateInv, EarlierVisible, LookedInv, DuplicateFlagged, CopyOfEarlier

LEMMA DuplicateStep ==
  ASSUME TypeOK, StoredInv, DuplicateInv, [Next]_vars
  PROVE  DuplicateInv'
<1>1. ASSUME NEW h \in Handlers, Flush(h) PROVE DuplicateInv'
  <2>1. /\ handler[h] \in Request /\ handler'[h].d = handler[h].d
        /\ handler'[h].duplicate = DuplicateOf(handler[h].d)
        /\ \A g \in Handlers : g # h => handler'[g] = handler[g]
        /\ UNCHANGED <<document, flagged, earlier>>
    BY <1>1, FlushForm
  <2>2. Visible' = Visible
    BY <2>1 DEF Visible
  <2>3. CopyOfEarlier(handler[h].d) => DuplicateOf(handler[h].d)
    <3>1. handler[h].d \in Document
      BY <2>1 DEF Request
    <3> QED BY <3>1 DEF DuplicateInv, EarlierVisible, CopyOfEarlier, DuplicateOf
  <2>4. LookedInv'
    <3> SUFFICES ASSUME NEW g \in Handlers, handler'[g].pc = "flushed",
                        CopyOfEarlier(handler[g].d)'
                 PROVE  handler'[g].duplicate
      BY DEF LookedInv
    <3>1. handler'[g].d = handler[g].d
      BY <2>1
    <3>2. CopyOfEarlier(handler[g].d)
      BY <2>1, <3>1 DEF CopyOfEarlier
    <3>3. CASE g = h
      BY <2>1, <2>3, <3>2, <3>3
    <3>4. CASE g # h
      BY <2>1, <3>2, <3>4 DEF DuplicateInv, LookedInv
    <3> QED BY <3>3, <3>4
  <2> QED BY <2>1, <2>2, <2>4
          DEF DuplicateInv, EarlierVisible, DuplicateFlagged, CopyOfEarlier
<1>2. ASSUME NEW h \in Handlers,
             CommitUploaded(h) \/ CommitUnconfigured(h) \/ CommitProcessing(h)
      PROVE  DuplicateInv'
  <2>1. PICK status \in {"uploaded", "processing", "failed"} :
          /\ Insert(h, status)
          /\ \A g \in Handlers : g # h => handler'[g] = handler[g]
          /\ handler'[h] = Idle \/ handler'[h].pc = "committed"
    BY <1>2, CommitForm
  <2>2. status \in RowStatus
    BY DEF RowStatus
  <2>3. /\ handler[h].d \in Document
        /\ Visible' = Visible \cup {handler[h].d}
        /\ handler[h].pc = "flushed"
        /\ handler[h].duplicate => Owner[handler[h].d] \in flagged'
        /\ flagged \subseteq flagged'
        /\ earlier' = earlier
    BY <2>1, <2>2, InsertForm
  <2>4. handler'[h].pc # "flushed"
    BY <2>1 DEF Idle
  <2>5. EarlierVisible' /\ LookedInv'
    BY <2>1, <2>3, <2>4 DEF DuplicateInv, EarlierVisible, LookedInv, CopyOfEarlier
  <2>6. CopyOfEarlier(handler[h].d) => Owner[handler[h].d] \in flagged'
    BY <2>3 DEF DuplicateInv, LookedInv
  <2>7. DuplicateFlagged'
    BY <2>3, <2>6 DEF DuplicateInv, DuplicateFlagged, CopyOfEarlier
  <2> QED BY <2>5, <2>7 DEF DuplicateInv
<1>3. ASSUME NEW w \in Workers, Extract(w) \/ Redact(w) PROVE DuplicateInv'
  <2>1. UNCHANGED <<document, flagged, handler, earlier>>
    BY <1>3, WorkForm
  <2>2. Visible' = Visible
    BY <2>1 DEF Visible
  <2> QED BY <2>1, <2>2, DuplicateKept
<1>4. ASSUME NEW w \in Workers, ExtractFails(w) \/ CommitProcessed(w) PROVE DuplicateInv'
  <2>1. worker[w] # Idle
    BY <1>4, OutcomeForm
  <2>2. PICK status \in {"failed", "processed"}, key \in BOOLEAN,
              outcome \in {"failed", "succeeded"} : Finish(w, status, key, outcome)
    <3>1. FALSE \in BOOLEAN
      OBVIOUS
    <3> QED BY <1>4, <3>1, OutcomeForm
  <2>3. status \in RowStatus /\ outcome \in StepStatus
    BY DEF RowStatus, StepStatus
  <2>4. Visible' = Visible \cup {worker[w].d} /\ UNCHANGED <<flagged, handler, earlier>>
    BY <2>1, <2>2, <2>3, FinishForm
  <2>5. worker[w].d \in Visible
    BY <2>1 DEF StoredInv, HandInv
  <2> QED BY <2>4, <2>5, DuplicateKept
<1>5. ASSUME UNCHANGED <<document, flagged>>, NEW h \in Handlers, NEW d \in Document,
             Store(h, d)
      PROVE  DuplicateInv'
  <2>1. /\ Visible' = Visible /\ d \notin original
        /\ handler'[h].pc = "stored"
        /\ \A g \in Handlers : g # h => handler'[g] = handler[g]
        /\ earlier'[d] = Visible
        /\ \A e \in Document : e # d => earlier'[e] = earlier[e]
    BY <1>5 DEF Store, TypeOK, Visible
  <2>2. d \notin Visible
    BY <2>1 DEF StoredInv, ObjectsStored
  <2>3. \A g \in Handlers : handler[g].pc = "flushed" =>
          handler[g].d \in Document /\ handler[g].d # d
    BY <2>1, HandlerInHand DEF StoredInv, HandInv, Idle
  <2>4. EarlierVisible'
    BY <2>1 DEF DuplicateInv, EarlierVisible
  <2>5. LookedInv'
    BY <2>1, <2>3 DEF DuplicateInv, LookedInv, CopyOfEarlier
  <2>6. DuplicateFlagged'
    <3>1. \A e \in Visible : e \in Document /\ e # d
      BY <2>2 DEF Visible
    <3> QED BY <1>5, <2>1, <3>1 DEF DuplicateInv, DuplicateFlagged, CopyOfEarlier
  <2> QED BY <2>4, <2>5, <2>6 DEF DuplicateInv
<1>6. ASSUME UNCHANGED <<document, flagged, earlier>>, NEW h \in Handlers,
             handler' = [handler EXCEPT ![h] = Idle]
      PROVE  DuplicateInv'
  <2>1. \A g \in Handlers : handler'[g] = handler[g] \/ handler'[g].pc # "flushed"
    BY <1>6 DEF TypeOK, Idle
  <2>2. Visible' = Visible
    BY <1>6 DEF Visible
  <2> QED BY <1>6, <2>1, <2>2, DuplicateKept
<1>7. ASSUME UNCHANGED <<document, flagged, handler, earlier>> PROVE DuplicateInv'
  <2>1. Visible' = Visible
    BY <1>7 DEF Visible
  <2> QED BY <1>7, <2>1, DuplicateKept
<1> QED BY <1>1, <1>2, <1>3, <1>4, <1>5, <1>6, <1>7, QuietForm

\* The copy of a file that another applicant had on record when its upload began
\* is flagged, for any number of uploads and workers and any failures.
THEOREM CopiesFlagged == ASSUME BoundsAssumption PROVE Spec => []DuplicateFlagged
<1>1. Init => TypeOK /\ StoredInv /\ DuplicateInv
  BY TypeInit DEF Init, StoredInv, HandInv, ObjectsStored, Visible, DuplicateInv,
     EarlierVisible, LookedInv, DuplicateFlagged, Idle
<1>2. TypeOK /\ StoredInv /\ DuplicateInv /\ [Next]_vars
        => TypeOK' /\ StoredInv' /\ DuplicateInv'
  BY TypeStep, StoredStep, DuplicateStep
<1>3. DuplicateInv => DuplicateFlagged
  BY DEF DuplicateInv
<1> QED BY <1>1, <1>2, <1>3, PTL DEF Spec

===============================================================================
