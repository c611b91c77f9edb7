--------------------------- MODULE WebhookDelivery ---------------------------
(***************************************************************************)
(* Outbound webhooks of the API: a request emits a domain event and, in    *)
(* the same database transaction, one delivery row per subscribed          *)
(* endpoint; RQ jobs in Redis carry the deliveries to worker processes,    *)
(* which post them, record the attempt and reschedule themselves; an       *)
(* operator may replay the deliveries that ended as failed.                *)
(*                                                                         *)
(* PostgreSQL (READ COMMITTED) and Redis are two stores without a common   *)
(* transaction.  A row is visible to the others when its transaction       *)
(* commits, a job as soon as it is enqueued.  An UPDATE waits for the row  *)
(* lock of an open transaction, then is applied to the row as it now is,   *)
(* and the ORM writes only the columns it changed since it loaded them.    *)
(***************************************************************************)
EXTENDS Naturals, FiniteSets

CONSTANTS
  Events,       \* domain events the API may emit (event ids)
  TestEvents,   \* "webhook.test" deliveries an administrator may send
  Endpoints,    \* ids of webhook endpoints of the tenant
  Subscribed,   \* Subscribed[e]: endpoints whose event_types name e or "*"
  Workers,      \* RQ worker processes
  Replayers,    \* processes running cli/replay_webhooks
  MaxAttempts,  \* settings.webhook_max_attempts
  MaxReplays,   \* bound: runs of the replay command
  MaxCrashes,   \* bound: deaths of a worker, replay or test-send process
  LateCommits   \* may a request commit later than its jobs' dispatch delay?

ASSUME ConstantsAssumption ==
  /\ Events \cap TestEvents = {}
  /\ Subscribed \in [Events -> SUBSET Endpoints]
  /\ MaxAttempts \in Nat \ {0}
  /\ MaxReplays \in Nat
  /\ MaxCrashes \in Nat
  /\ LateCommits \in BOOLEAN

VARIABLES
  endpoint,  \* webhook_endpoints: does the row exist, and its is_active
  request,   \* the API request that emits an event, or sends a test event
  row,       \* webhook_deliveries, as committed
  logged,    \* number of committed webhook_delivery_attempts rows
  jobs,      \* RQ: scheduled or queued deliver_webhook jobs
  worker,    \* what each worker is executing
  replay,    \* what each replay command is executing
  sent,      \* HTTP requests posted for the delivery
  acked,     \* has the receiver answered one of them with 2xx?
  replays,   \* runs of the replay command so far
  crashes,   \* processes killed so far
  early      \* history, read by no action: deliveries of which a worker loaded
             \* the row while an uncommitted replay held it

vars == <<endpoint, request, row, logged, jobs, worker, replay,
          sent, acked, replays, crashes, early>>

Delivery == (Events \cup TestEvents) \X Endpoints

-----------------------------------------------------------------------------
(* Rows and the ORM.                                                       *)

Status == {"absent", "pending", "retrying", "delivered", "failed"}

\* The columns of a delivery the workers decide by; next stands for
\* next_attempt_at IS NOT NULL.
Row == [status : Status, attempts : Nat, next : BOOLEAN]

NoRow == [status |-> "absent", attempts |-> 0, next |-> FALSE]

NewRow == [status |-> "pending", attempts |-> 0, next |-> TRUE]

\* Mutant: the last attempt is given up one too early.
AfterAttemptEarly(seen, ok) ==
  LET n == seen.attempts + 1
      verdict == CASE ok -> "delivered"
                   [] ~ok /\ n + 1 >= MaxAttempts -> "failed"
                   [] OTHER -> "retrying"
  IN  [status |-> verdict, attempts |-> n, next |-> verdict = "retrying"]

\* Mutant: the limit itself does not stop the retries.
AfterAttemptLate(seen, ok) ==
  LET n == seen.attempts + 1
      verdict == CASE ok -> "delivered"
                   [] ~ok /\ n > MaxAttempts -> "failed"
                   [] OTHER -> "retrying"
  IN  [status |-> verdict, attempts |-> n, next |-> verdict = "retrying"]

\* Mutant: the limit is tested before the outcome, and ends as delivered.
AfterAttemptSwapped(seen, ok) ==
  LET n == seen.attempts + 1
      verdict == IF ok \/ n >= MaxAttempts THEN "delivered" ELSE "retrying"
  IN  [status |-> verdict, attempts |-> n, next |-> verdict = "retrying"]

\* What one attempt makes of the row it was computed from.
AfterAttempt(seen, ok) ==
  LET n == seen.attempts + 1
      verdict == CASE ok -> "delivered"
                   [] ~ok /\ n >= MaxAttempts -> "failed"
                   [] OTHER -> "retrying"
  IN  [status |-> verdict, attempts |-> n, next |-> verdict = "retrying"]

\* The UPDATE the session flushes: only columns that differ from the loaded
\* ones are written (a new timestamp always differs), the others keep what
\* another transaction committed meanwhile.
Flushed(current, seen, new) ==
  [status   |-> IF new.status # seen.status THEN new.status ELSE current.status,
   attempts |-> IF new.attempts # seen.attempts THEN new.attempts
                                                ELSE current.attempts,
   next     |-> IF new.next \/ seen.next THEN new.next ELSE current.next]

-----------------------------------------------------------------------------
(* Processes.                                                              *)

Idle == [pc |-> "idle"]

\* A worker executing deliver_webhook: the delivery, the row as it loaded
\* it, and whether the last post got a 2xx answer.
BusyWorker == [pc : {"loaded", "posted", "reschedule"}, d : Delivery,
               seen : Row, ok : BOOLEAN]

\* fan: endpoints a delivery was flushed for; todo: those whose job is not
\* enqueued yet; ok: the answer to a test event.
Request == [phase : {"idle", "open", "committed", "rolledback"},
            fan : SUBSET Endpoints, todo : SUBSET Endpoints, ok : BOOLEAN]

NoRequest == [phase |-> "idle", fan |-> {}, todo |-> {}, ok |-> FALSE]

\* todo: failed deliveries read and not yet reset; reset: those reset in the
\* open transaction, whose row locks it holds.
Replay == [todo : SUBSET Delivery, reset : SUBSET Delivery]

NoReplay == [todo |-> {}, reset |-> {}]

Locked(d) == \E r \in Replayers : d \in replay[r].reset

\* emit_event delays its jobs for the request to commit first, which a late
\* commit defeats.  A replay enqueues without a delay: its jobs may start at once.
MayStart(d) == LateCommits \/ request[d[1]].phase # "open"

Init ==
  /\ endpoint = [p \in Endpoints |-> "absent"]
  /\ request = [e \in Events \cup TestEvents |-> NoRequest]
  /\ row = [d \in Delivery |-> NoRow]
  /\ logged = [d \in Delivery |-> 0]
  /\ jobs = [d \in Delivery |-> 0]
  /\ worker = [w \in Workers |-> Idle]
  /\ replay = [r \in Replayers |-> NoReplay]
  /\ sent = [d \in Delivery |-> 0]
  /\ acked = [d \in Delivery |-> FALSE]
  /\ replays = 0
  /\ crashes = 0
  /\ early = {}

-----------------------------------------------------------------------------
(* Endpoints.                                                              *)

CreateEndpoint(p) ==
  /\ endpoint[p] = "absent"
  /\ endpoint' = [endpoint EXCEPT ![p] = "active"]
  /\ UNCHANGED <<request, row, logged, jobs, worker, replay, sent, acked,
                 replays, crashes, early>>

DeactivateEndpoint(p) ==
  /\ endpoint[p] = "active"
  /\ endpoint' = [endpoint EXCEPT ![p] = "inactive"]
  /\ UNCHANGED <<request, row, logged, jobs, worker, replay, sent, acked,
                 replays, crashes, early>>

-----------------------------------------------------------------------------
(* The request that emits an event.                                        *)

\* Mutant: the service commits its rows instead of flushing them.
EmitFlushCommits(e) ==
  /\ request[e].phase = "idle"
  /\ LET fan == {p \in Subscribed[e] : endpoint[p] = "active"}
     IN  /\ request' = [request EXCEPT ![e] =
                          [phase |-> "open", fan |-> fan, todo |-> fan, ok |-> FALSE]]
         /\ row' = [d \in Delivery |->
                      IF d[1] = e /\ d[2] \in fan THEN NewRow ELSE row[d]]
  /\ UNCHANGED <<endpoint, logged, jobs, worker, replay, sent, acked,
                 replays, crashes, early>>

\* emit_event up to its last flush: the event row and one delivery row per
\* active subscribed endpoint, all in the request's open transaction.
EmitFlush(e) ==
  /\ request[e].phase = "idle"
  /\ LET fan == {p \in Subscribed[e] : endpoint[p] = "active"}
     IN  request' = [request EXCEPT ![e] =
                       [phase |-> "open", fan |-> fan, todo |-> fan, ok |-> FALSE]]
  /\ UNCHANGED <<endpoint, row, logged, jobs, worker, replay, sent, acked,
                 replays, crashes, early>>

\* One round of the loop that schedules the jobs, still before the commit.
EmitEnqueue(e, p) ==
  /\ request[e].phase = "open"
  /\ p \in request[e].todo
  /\ request' = [request EXCEPT ![e].todo = @ \ {p}]
  /\ jobs' = [jobs EXCEPT ![<<e, p>>] = @ + 1]
  /\ UNCHANGED <<endpoint, row, logged, worker, replay, sent, acked,
                 replays, crashes, early>>

\* get_db commits when the handler returns.
EmitCommit(e) ==
  /\ request[e].phase = "open"
  /\ request[e].todo = {}
  /\ request' = [request EXCEPT ![e].phase = "committed"]
  /\ row' = [d \in Delivery |->
               IF d[1] = e /\ d[2] \in request[e].fan THEN NewRow ELSE row[d]]
  /\ UNCHANGED <<endpoint, logged, jobs, worker, replay, sent, acked,
                 replays, crashes, early>>

\* An exception (Redis unreachable, a constraint violated later in the
\* handler) or the death of the API process: the rows go, the jobs stay.
RequestRollback(e) ==
  /\ request[e].phase = "open"
  /\ request' = [request EXCEPT ![e].phase = "rolledback"]
  /\ UNCHANGED <<endpoint, row, logged, jobs, worker, replay, sent, acked,
                 replays, crashes, early>>

-----------------------------------------------------------------------------
(* The request that sends a test event to one endpoint.                    *)

\* The delivery is created and posted inside the request's transaction.
TestPost(t, p, ok) ==
  /\ request[t].phase = "idle"
  /\ endpoint[p] # "absent"
  /\ request' = [request EXCEPT ![t] =
                   [phase |-> "open", fan |-> {p}, todo |-> {}, ok |-> ok]]
  /\ sent' = [sent EXCEPT ![<<t, p>>] = @ + 1]
  /\ acked' = [acked EXCEPT ![<<t, p>>] = @ \/ ok]
  /\ UNCHANGED <<endpoint, row, logged, jobs, worker, replay, replays, crashes, early>>

\* The request commits the row and its attempt; it enqueues nothing.
TestCommit(t, p) ==
  /\ request[t].phase = "open"
  /\ p \in request[t].fan
  /\ request' = [request EXCEPT ![t].phase = "committed"]
  /\ row' = [row EXCEPT ![<<t, p>>] = AfterAttempt(NewRow, request[t].ok)]
  /\ logged' = [logged EXCEPT ![<<t, p>>] = @ + 1]
  /\ UNCHANGED <<endpoint, jobs, worker, replay, sent, acked, replays, crashes, early>>

-----------------------------------------------------------------------------
(* Workers.                                                                *)

\* Mutant: a job is executed again although it was dequeued already.
TakeTwice(d) ==
  /\ MayStart(d)
  /\ row[d].status # "absent"
  /\ jobs' = [jobs EXCEPT ![d] = @ - 1]

Take(d) ==
  /\ jobs[d] > 0
  /\ MayStart(d)
  /\ jobs' = [jobs EXCEPT ![d] = @ - 1]

\* "missing" and "already_delivered": the job ends without an attempt.
WorkerSkip(w, d) ==
  /\ worker[w] = Idle
  /\ Take(d)
  /\ row[d].status \in {"absent", "delivered"}
  /\ UNCHANGED <<endpoint, request, row, logged, worker, replay, sent, acked,
                 replays, crashes, early>>

WorkerLoad(w, d) ==
  /\ worker[w] = Idle
  /\ Take(d)
  /\ row[d].status \notin {"absent", "delivered"}
  /\ worker' = [worker EXCEPT ![w] =
                  [pc |-> "loaded", d |-> d, seen |-> row[d], ok |-> FALSE]]
  /\ early' = IF Locked(d) THEN early \cup {d} ELSE early
  /\ UNCHANGED <<endpoint, request, row, logged, replay, sent, acked,
                 replays, crashes>>

\* The HTTP request; ok is FALSE for another status, an error or a timeout.
WorkerPost(w, ok) ==
  /\ worker[w].pc = "loaded"
  /\ LET d == worker[w].d IN
       /\ sent' = [sent EXCEPT ![d] = @ + 1]
       /\ acked' = [acked EXCEPT ![d] = @ \/ ok]
  /\ worker' = [worker EXCEPT ![w] =
                  [pc |-> "posted", d |-> @.d, seen |-> @.seen, ok |-> ok]]
  /\ UNCHANGED <<endpoint, request, row, logged, jobs, replay, replays, crashes, early>>

\* Flush and commit of the attempt row and of the delivery, once no open
\* transaction holds the row.
WorkerRecord(w) ==
  /\ worker[w].pc = "posted"
  /\ LET d == worker[w].d
         new == AfterAttempt(worker[w].seen, worker[w].ok)
     IN  /\ ~Locked(d)
         /\ row' = [row EXCEPT ![d] = Flushed(@, worker[w].seen, new)]
         /\ logged' = [logged EXCEPT ![d] = @ + 1]
         /\ worker' = [worker EXCEPT ![w] =
                         IF new.status = "retrying"
                         THEN [worker[w] EXCEPT !.pc = "reschedule"]
                         ELSE Idle]
  /\ UNCHANGED <<endpoint, request, jobs, replay, sent, acked, replays, crashes, early>>

\* Mutant: the next attempt is never scheduled.
WorkerRescheduleForgotten(w) ==
  /\ worker[w].pc = "reschedule"
  /\ worker' = [worker EXCEPT ![w] = Idle]
  /\ UNCHANGED <<endpoint, request, row, logged, jobs, replay, sent, acked,
                 replays, crashes, early>>

\* After the commit, outside any transaction: the job of the next attempt.
WorkerReschedule(w) ==
  /\ worker[w].pc = "reschedule"
  /\ jobs' = [jobs EXCEPT ![worker[w].d] = @ + 1]
  /\ worker' = [worker EXCEPT ![w] = Idle]
  /\ UNCHANGED <<endpoint, request, row, logged, replay, sent, acked,
                 replays, crashes, early>>

\* RQ moves the job of a dead process to its failed registry: no retry is
\* configured, so the job is gone.
WorkerCrash(w) ==
  /\ worker[w] # Idle
  /\ crashes < MaxCrashes
  /\ worker' = [worker EXCEPT ![w] = Idle]
  /\ crashes' = crashes + 1
  /\ UNCHANGED <<endpoint, request, row, logged, jobs, replay, sent, acked, replays, early>>

-----------------------------------------------------------------------------
(* The replay command.                                                     *)

\* Mutants: the status filter of the query is too wide.
UnfinishedDeliveries == {d \in Delivery : row[d].status \in {"retrying", "failed"}}
TerminalDeliveries == {d \in Delivery : row[d].status \in {"delivered", "failed"}}

FailedDeliveries == {d \in Delivery : row[d].status = "failed"}

ReplaySelect(r) ==
  /\ replay[r] = NoReplay
  /\ replays < MaxReplays
  /\ FailedDeliveries # {}
  /\ replay' = [replay EXCEPT ![r].todo = FailedDeliveries]
  /\ replays' = replays + 1
  /\ UNCHANGED <<endpoint, request, row, logged, jobs, worker, sent, acked, crashes, early>>

\* One round of the loop: the reset is flushed, which takes the row lock,
\* and the job is enqueued at once.
ReplayReset(r, d) ==
  /\ d \in replay[r].todo
  /\ ~Locked(d)
  /\ replay' = [replay EXCEPT ![r] =
                  [todo |-> @.todo \ {d}, reset |-> @.reset \cup {d}]]
  /\ jobs' = [jobs EXCEPT ![d] = @ + 1]
  /\ UNCHANGED <<endpoint, request, row, logged, worker, sent, acked,
                 replays, crashes, early>>

\* The row was read as failed after at least one attempt, so all the columns
\* differ from the loaded ones and the UPDATE sets them whatever they are now.
ReplayCommit(r) ==
  /\ replay[r].todo = {}
  /\ replay[r].reset # {}
  /\ row' = [d \in Delivery |-> IF d \in replay[r].reset THEN NewRow ELSE row[d]]
  /\ replay' = [replay EXCEPT ![r] = NoReplay]
  /\ UNCHANGED <<endpoint, request, logged, jobs, worker, sent, acked,
                 replays, crashes, early>>

\* The process dies or its connection does: the resets are rolled back, the
\* jobs stay.
ReplayCrash(r) ==
  /\ replay[r] # NoReplay
  /\ crashes < MaxCrashes
  /\ replay' = [replay EXCEPT ![r] = NoReplay]
  /\ crashes' = crashes + 1
  /\ UNCHANGED <<endpoint, request, row, logged, jobs, worker, sent, acked, replays, early>>

\* Two commands that lock the same rows in opposite orders: PostgreSQL rolls
\* back one of them.
ReplayDeadlock(r) ==
  /\ \E s \in Replayers \ {r} : /\ replay[r].todo \cap replay[s].reset # {}
                                /\ replay[s].todo \cap replay[r].reset # {}
  /\ replay' = [replay EXCEPT ![r] = NoReplay]
  /\ UNCHANGED <<endpoint, request, row, logged, jobs, worker, sent, acked,
                 replays, crashes, early>>

-----------------------------------------------------------------------------
WorkerStep(w) ==
  \/ \E d \in Delivery : WorkerSkip(w, d) \/ WorkerLoad(w, d)
  \/ \E ok \in BOOLEAN : WorkerPost(w, ok)
  \/ WorkerRecord(w)
  \/ WorkerReschedule(w)

ReplayStep(r) ==
  \/ \E d \in Delivery : ReplayReset(r, d)
  \/ ReplayCommit(r)

RequestStep(e) == (\E p \in Endpoints : EmitEnqueue(e, p)) \/ EmitCommit(e)

Next ==
  \/ \E p \in Endpoints : CreateEndpoint(p) \/ DeactivateEndpoint(p)
  \/ \E e \in Events : EmitFlush(e) \/ RequestStep(e)
  \/ \E t \in TestEvents, p \in Endpoints :
       (\E ok \in BOOLEAN : TestPost(t, p, ok)) \/ TestCommit(t, p)
  \/ \E e \in Events \cup TestEvents : RequestRollback(e)
  \/ \E w \in Workers : WorkerStep(w) \/ WorkerCrash(w)
  \/ \E r \in Replayers :
       ReplaySelect(r) \/ ReplayStep(r) \/ ReplayCrash(r) \/ ReplayDeadlock(r)

Spec == Init /\ [][Next]_vars

\* Each worker process keeps working as long as it has something to do, and a
\* replay command or an API handler that is running keeps running.
Fairness ==
  /\ \A w \in Workers : WF_vars(WorkerStep(w))
  /\ \A r \in Replayers : WF_vars(ReplayStep(r))
  /\ \A e \in Events : WF_vars(RequestStep(e))

FairSpec == Spec /\ Fairness

-----------------------------------------------------------------------------
(* Properties.                                                             *)

\* Every variable has the shape the code gives it; in particular no job is
\* taken that was not enqueued.
TypeOK ==
  /\ endpoint \in [Endpoints -> {"absent", "active", "inactive"}]
  /\ request \in [Events \cup TestEvents -> Request]
  /\ row \in [Delivery -> Row]
  /\ logged \in [Delivery -> Nat]
  /\ jobs \in [Delivery -> Nat]
  /\ worker \in [Workers -> {Idle} \cup BusyWorker]
  /\ replay \in [Replayers -> Replay]
  /\ sent \in [Delivery -> Nat]
  /\ acked \in [Delivery -> BOOLEAN]
  /\ replays \in Nat
  /\ crashes \in Nat
  /\ early \subseteq Delivery

Open(d) == row[d].status \in {"pending", "retrying"}
Settled(d) == row[d].status \in {"delivered", "failed"}

Holders(d) == {w \in Workers : worker[w] # Idle /\ worker[w].d = d}
Carriers(d) == jobs[d] + Cardinality(Holders(d))

EventDelivery == Events \X Endpoints

\* A delivery is shown as delivered only if the receiver answered 2xx to one
\* of its requests, whatever crashes, stale updates and replays came between.
DeliveredIsAcked ==
  \A d \in Delivery : row[d].status = "delivered" => acked[d]

\* A receiver never hears of an event whose request has not committed, or
\* was rolled back after its jobs were enqueued.
NoPhantomDelivery ==
  \A d \in EventDelivery :
    request[d[1]].phase # "committed" => sent[d] = 0 /\ row[d] = NoRow

\* The attempt counter never runs ahead of the attempts on record, these never
\* ahead of the requests sent, and a delivery given up has been tried as often
\* as the setting says.
AttemptsAccounted ==
  \A d \in Delivery :
    /\ row[d].attempts <= logged[d]
    /\ logged[d] <= sent[d]
    /\ row[d].status = "failed" => logged[d] >= MaxAttempts

\* No silent drop and no double work: an open delivery of a committed event
\* is carried by exactly one job or worker, a settled one by none unless a
\* replay is bringing it back.  Where the replayed job came before the commit
\* of the replay, its worker may be the last carrier of the open delivery.
OneCarrier ==
  \A d \in EventDelivery :
    /\ Open(d) => Carriers(d) \in (IF d \in early THEN {0, 1} ELSE {1})
    /\ Settled(d) /\ ~Locked(d) => Carriers(d) = 0

\* Retries stop at WEBHOOK_MAX_ATTEMPTS: the counter reaches it only when the
\* delivery is settled.  Where the replayed job came before the commit of the
\* replay, its attempt is counted on top of those of the row that was given up:
\* one more than the limit, and it is the last.
AttemptBound ==
  \A d \in Delivery :
    /\ row[d].attempts = MaxAttempts => Settled(d)
    /\ row[d].attempts > MaxAttempts =>
         d \in early /\ row[d].attempts = MaxAttempts + 1 /\ Carriers(d) = 0

\* Delivered is final: the row is not touched again and the receiver gets no
\* further request.
DeliveredIsFinal ==
  [][\A d \in Delivery : row[d].status = "delivered" =>
       row'[d] = row[d] /\ sent'[d] = sent[d]]_vars

\* Weak form of OneCarrier: nothing open is left without a job or a worker.
NothingStranded ==
  \A d \in EventDelivery : Open(d) => Carriers(d) >= 1

\* What the module says of itself: "Failures retry with exponential backoff up
\* to WEBHOOK_MAX_ATTEMPTS, then terminate as failed".  At the limit a delivery
\* is settled, or somebody is still at work on it.
RetriesTerminate ==
  \A d \in Delivery :
    row[d].attempts >= MaxAttempts => Settled(d) \/ Carriers(d) >= 1

\* Every delivery of a committed event is delivered or given up in the end,
\* unless its replayed job came before the commit of the replay.
EventuallySettled ==
  \A d \in EventDelivery : Open(d) ~> (Settled(d) \/ d \in early)

\* Sets of deliveries of one event.
Batches == {B \in SUBSET EventDelivery : \A c, d \in B : c[1] = d[1]}

\* The state of the contract: the deliveries of events, as their rows show them.
Abstract(d) == CASE row[d].status = "absent" -> "none"
                 [] Open(d) /\ d \notin early -> "open"
                 [] Open(d) /\ d \in early -> "raced"
                 [] OTHER -> row[d].status

EventStates == [d \in EventDelivery |-> Abstract(d)]
EventAcks == [d \in EventDelivery |-> acked[d]]

Contract == INSTANCE DeliveryContract
            WITH Delivery <- EventDelivery, state <- EventStates, acked <- EventAcks

\* The detailed system keeps the contract of a delivery: what is published
\* together appears together, delivered is acknowledged and final, only failed
\* deliveries are reopened, and no open delivery stays open for ever but one
\* whose replay was overtaken by its own job.
ContractKept == Contract!Spec

=============================================================================
