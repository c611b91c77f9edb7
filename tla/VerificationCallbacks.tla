------------------------- MODULE VerificationCallbacks -------------------------
(***************************************************************************)
(* The identity provider of one case: a request opens a session with the    *)
(* provider and records it as a verification step; the provider reports     *)
(* outcomes by callbacks, each any number of times, in any order and        *)
(* overlapping; a callback updates the step and raises risk signals.        *)
(*                                                                         *)
(* verification_callback is the one endpoint that is a coroutine: it runs   *)
(* on its replica's event loop, and so do its calls to the database, which  *)
(* block the loop.  The commit of get_db is left to a thread, and the loop  *)
(* must be free to start it.                                                *)
(***************************************************************************)
CONSTANTS
  Steps,       \* provider references
  Reports,     \* callback bodies that the provider may send
  Content,     \* what parse_callback finds in each
  Deliveries,  \* bound: callback requests
  Replicas,    \* API processes, an event loop each
  Home         \* callback request to replica

RawStatus == {"processing", "approved", "declined", "needs_review", "error",
              "unmapped", "missing"}

Status == {"running", "succeeded", "failed", "needs_review", "provider_error"}

Code == {"identity_mismatch", "provider_failure", "provider_needs_review",
         "tamper_suspected", "duplicate_identity"}

ParsedCallback == [step : Steps, raw : RawStatus, fraud : BOOLEAN, duplicate : BOOLEAN]

ASSUME ConstantsAssumption ==
  /\ "session" \notin Reports
  /\ Content \in [Reports -> ParsedCallback]
  /\ Home \in [Deliveries -> Replicas]

VARIABLES
  phase,    \* of each step: has the session been opened, is its row committed?
  row,      \* verification_steps, as committed
  signals,  \* risk_signals of the case, as committed, with the request that raised them
  pc,       \* how far each callback request has come
  report,   \* the report it brings
  seen,     \* the row as its SELECT returned it
  todo,     \* the risk codes it has still to look at
  raised    \* the signals it has inserted and not yet committed

tables == <<phase, row, signals>>
vars == <<tables, pc, report, seen, todo, raised>>

-----------------------------------------------------------------------------
(* What a body means.                                                      *)

Terminal == {"succeeded", "failed", "provider_error"}

\* _STATUS_MAP, with the two defaults of map_status.
MapStatus == [raw \in RawStatus |->
  CASE raw = "processing" -> "running"
    [] raw = "approved"   -> "succeeded"
    [] raw = "declined"   -> "failed"
    [] raw \in {"needs_review", "unmapped"} -> "needs_review"
    [] raw \in {"error", "missing"} -> "provider_error"]

\* _RISK_CODE_MAP.
OutcomeCodes == [s \in Status |->
  CASE s = "failed"         -> {"identity_mismatch", "provider_failure"}
    [] s = "needs_review"   -> {"provider_needs_review"}
    [] s = "provider_error" -> {"provider_failure"}
    [] OTHER -> {}]

StatusOf(b) == MapStatus[Content[b].raw]

\* risk_codes_for.
CodesOf(b) == OutcomeCodes[StatusOf(b)]
                \cup {c \in {"tamper_suspected"} : Content[b].fraud}
                \cup {c \in {"duplicate_identity"} : Content[b].duplicate}

\* shown: the status in response_payload, which has an event_type only after a
\* callback.  hash: the body of the last response.
Row == [status : Status, shown : Status \cup {"session"},
        hash : Reports \cup {"session"}, completed : BOOLEAN]

NoRow == [status |-> "absent", shown |-> "absent", hash |-> "absent", completed |-> FALSE]

Phase == {"idle", "loaded", "flushed", "returned", "raised", "closing", "unwinding",
          "committed", "failed", "refused"}

Signal == [code : Code, by : Deliveries]

Init ==
  /\ phase = [s \in Steps |-> "none"]
  /\ row = [s \in Steps |-> NoRow]
  /\ signals = {}
  /\ pc = [d \in Deliveries |-> "idle"]
  /\ report \in [Deliveries -> Reports]
  /\ seen = [d \in Deliveries |-> NoRow]
  /\ todo = [d \in Deliveries |-> {}]
  /\ raised = [d \in Deliveries |-> {}]

Advance(d, to) == pc' = [pc EXCEPT ![d] = to]

StepOf(d) == Content[report[d]].step

-----------------------------------------------------------------------------
(* start_verification.                                                     *)

\* create_session: the provider may report from now on.
OpenSession(s) ==
  /\ phase[s] = "none"
  /\ phase' = [phase EXCEPT ![s] = "open"]
  /\ UNCHANGED <<row, signals, pc, report, seen, todo, raised>>

\* The row is committed with the status of the provider's answer.
RecordStep(s) ==
  /\ phase[s] = "open"
  /\ phase' = [phase EXCEPT ![s] = "recorded"]
  /\ \E raw \in {"processing", "missing"} :
       row' = [row EXCEPT ![s] = [status |-> MapStatus[raw], shown |-> "session",
                                  hash |-> "session", completed |-> FALSE]]
  /\ UNCHANGED <<signals, pc, report, seen, todo, raised>>

\* The request fails after the provider's answer: nobody knows the session.
LoseStep(s) ==
  /\ phase[s] = "open"
  /\ phase' = [phase EXCEPT ![s] = "lost"]
  /\ UNCHANGED <<row, signals, pc, report, seen, todo, raised>>

-----------------------------------------------------------------------------
(* verification_callback.                                                  *)

\* A request holds its event loop from its first statement to its return.
OnLoop == {"loaded", "flushed"}

\* Mutant: one process serves all requests.
LoopFreeShared(d) == \A e \in Deliveries : pc[e] \notin OnLoop

LoopFree(d) == \A e \in Deliveries : Home[e] = Home[d] => pc[e] \notin OnLoop

\* The columns of apply_callback that would change: only they are written.
Changes(d) ==
  LET s == StatusOf(report[d]) IN
    {c \in {"status"} : seen[d].status # s}
      \cup {c \in {"shown"} : seen[d].shown # s}
      \cup {c \in {"hash"} : seen[d].hash # report[d]}
      \cup {c \in {"completed"} : s \in Terminal}

\* An UPDATE locks the row until the transaction ends.
Locks(d) ==
  /\ Changes(d) # {}
  /\ pc[d] \in {"flushed", "returned", "raised", "closing", "unwinding"}

\* The step is looked up by provider_ref; a session without a row is refused.
Receive(d) ==
  LET s == StepOf(d) IN
  /\ pc[d] = "idle"
  /\ phase[s] # "none"
  /\ LoopFree(d)
  /\ Advance(d, IF row[s] = NoRow THEN "refused" ELSE "loaded")
  /\ seen' = [seen EXCEPT ![d] = row[s]]
  /\ UNCHANGED <<tables, report, todo, raised>>

\* Mutant: the flush is left to the commit, as autoflush is off.
FlushLate(d) ==
  /\ pc[d] = "loaded"
  /\ Advance(d, "flushed")
  /\ todo' = [todo EXCEPT ![d] = CodesOf(report[d])]
  /\ UNCHANGED <<tables, report, seen, raised>>

\* The flush of the step.  If it has something to write it waits for the row,
\* on the event loop.
Flush(d) ==
  /\ pc[d] = "loaded"
  /\ Changes(d) # {} =>
       \A e \in Deliveries \ {d} : ~(Locks(e) /\ StepOf(e) = StepOf(d))
  /\ Advance(d, "flushed")
  /\ todo' = [todo EXCEPT ![d] = CodesOf(report[d])]
  /\ UNCHANGED <<tables, report, seen, raised>>

\* Mutant: an insertion that another request has not committed counts.
RaiseDirty(d) ==
  /\ pc[d] = "flushed"
  /\ \E c \in todo[d] :
       /\ todo' = [todo EXCEPT ![d] = @ \ {c}]
       /\ raised' = IF \E e \in Deliveries :
                         \E x \in signals \cup raised[e] : x.code = c
                    THEN raised
                    ELSE [raised EXCEPT ![d] = @ \cup {[code |-> c, by |-> d]}]
  /\ UNCHANGED <<tables, pc, report, seen>>

\* add_signal: one that the case has is not inserted again.
RaiseSignal(d) ==
  /\ pc[d] = "flushed"
  /\ \E c \in todo[d] :
       /\ todo' = [todo EXCEPT ![d] = @ \ {c}]
       /\ raised' = IF \E x \in signals : x.code = c THEN raised
                    ELSE [raised EXCEPT ![d] = @ \cup {[code |-> c, by |-> d]}]
  /\ UNCHANGED <<tables, pc, report, seen>>

\* The audit event is flushed, the coroutine returns, the loop is free.
Return(d) ==
  /\ pc[d] = "flushed"
  /\ todo[d] = {}
  /\ Advance(d, "returned")
  /\ UNCHANGED <<tables, report, seen, todo, raised>>

\* A statement fails: the coroutine ends with an exception.  Before the flush
\* there is nothing to roll back.
Raise(d) ==
  /\ pc[d] \in OnLoop
  /\ Advance(d, IF pc[d] = "flushed" THEN "raised" ELSE "failed")
  /\ UNCHANGED <<tables, report, seen, todo, raised>>

\* The event loop hands the exit of get_db to a thread.
Close(d) ==
  /\ pc[d] \in {"returned", "raised"}
  /\ LoopFree(d)
  /\ Advance(d, IF pc[d] = "returned" THEN "closing" ELSE "unwinding")
  /\ UNCHANGED <<tables, report, seen, todo, raised>>

\* The row after the UPDATE of a callback.
Written(d, r) ==
  [status    |-> IF "status" \in Changes(d) THEN StatusOf(report[d]) ELSE r.status,
   shown     |-> IF "shown" \in Changes(d) THEN StatusOf(report[d]) ELSE r.shown,
   hash      |-> IF "hash" \in Changes(d) THEN report[d] ELSE r.hash,
   completed |-> "completed" \in Changes(d) \/ r.completed]

\* The transaction of a callback that returned.
Commit(d) ==
  /\ pc[d] = "closing"
  /\ Advance(d, "committed")
  /\ row' = [row EXCEPT ![StepOf(d)] = Written(d, @)]
  /\ signals' = signals \cup raised[d]
  /\ UNCHANGED <<phase, report, seen, todo, raised>>

Rollback(d) ==
  /\ pc[d] = "unwinding"
  /\ Advance(d, "failed")
  /\ UNCHANGED <<tables, report, seen, todo, raised>>

\* A replica dies: its transactions are rolled back, its requests unanswered.
Crash(p) ==
  /\ \E d \in Deliveries : Home[d] = p /\ pc[d] # "idle"
  /\ pc' = [d \in Deliveries |->
       IF Home[d] = p /\ pc[d] \notin {"idle", "committed", "refused"}
       THEN "failed" ELSE pc[d]]
  /\ UNCHANGED <<tables, report, seen, todo, raised>>

-----------------------------------------------------------------------------
\* What a request does once it has been taken up.
Go(d) ==
  Flush(d) \/ RaiseSignal(d) \/ Return(d) \/ Close(d) \/ Commit(d) \/ Rollback(d)

Next ==
  \/ \E s \in Steps : OpenSession(s) \/ RecordStep(s) \/ LoseStep(s)
  \/ \E d \in Deliveries : Receive(d) \/ Raise(d) \/ Go(d)
  \/ \E p \in Replicas : Crash(p)

Spec == Init /\ [][Next]_vars

\* What has begun goes on: the loop runs what is ready, threads and the
\* database answer.
Fairness == \A d \in Deliveries : WF_vars(Go(d))

FairSpec == Spec /\ Fairness

-----------------------------------------------------------------------------
(* Properties.                                                             *)

\* Every variable has the shape the tables and the handler give it.
TypeOK ==
  /\ phase \in [Steps -> {"none", "open", "recorded", "lost"}]
  /\ row \in [Steps -> Row \cup {NoRow}]
  /\ signals \subseteq Signal
  /\ pc \in [Deliveries -> Phase]
  /\ report \in [Deliveries -> Reports]
  /\ seen \in [Deliveries -> Row \cup {NoRow}]
  /\ todo \in [Deliveries -> SUBSET Code]
  /\ raised \in [Deliveries -> SUBSET Signal]

\* The case has a signal for a risk code exactly if a callback that was applied
\* reported it: no failed or needs-review outcome loses its signal to a
\* duplicate that failed or to a better outcome that overtook it, and no
\* callback that was rolled back leaves one.
SignalsMatchTrail ==
  \A c \in Code :
    (\E x \in signals : x.code = c)
      <=> (\E d \in Deliveries : pc[d] = "committed" /\ c \in CodesOf(report[d]))

\* However often the provider repeats its reports, and with whatever overlap, a
\* step raises each risk code once: the flush of the step queues the callbacks
\* of one step before any of them looks for the signal.
OncePerStep ==
  \A x, y \in signals :
    x.code = y.code /\ StepOf(x.by) = StepOf(y.by) => x = y

\* Every callback that was taken up ends, applied or failed, as long as no two
\* callbacks of one step share an event loop.
Answered ==
  \A d \in Deliveries :
    pc[d] = "loaded" ~> pc[d] \in {"committed", "failed"}

===============================================================================
