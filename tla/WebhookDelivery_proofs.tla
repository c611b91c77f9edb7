------------------------ MODULE WebhookDelivery_proofs ------------------------
(***************************************************************************)
(* Proofs about WebhookDelivery, for every number of events, endpoints,    *)
(* workers and replay commands.                                            *)
(***************************************************************************)
EXTENDS WebhookDelivery, FiniteSetTheorems, TLAPS

\* What an attempt computes from a row is a row.
LEMMA AfterAttemptType ==
  ASSUME NEW seen \in Row, NEW ok \in BOOLEAN
  PROVE  AfterAttempt(seen, ok) \in Row
BY ConstantsAssumption DEF AfterAttempt, Row, Status

\* A flushed row mixes columns of two rows, so it is a row.
LEMMA FlushedType ==
  ASSUME NEW current \in Row, NEW seen \in Row, NEW new \in Row
  PROVE  Flushed(current, seen, new) \in Row
BY DEF Flushed, Row

\* Every step of the system keeps every variable in its type: the columns of
\* the rows, the phases of requests, workers and replays, and job counts that
\* never go below zero.
THEOREM TypeCorrect == Spec => []TypeOK
<1> USE ConstantsAssumption
<1>1. Init => TypeOK
  BY DEF Init, TypeOK, NoRequest, Request, NoRow, Row, Status, NoReplay, Replay
<1>2. TypeOK /\ [Next]_vars => TypeOK'
  <2> SUFFICES ASSUME TypeOK, [Next]_vars PROVE TypeOK'
    OBVIOUS
  <2> USE DEF TypeOK
  <2>1. ASSUME NEW p \in Endpoints, CreateEndpoint(p) PROVE TypeOK'
    BY <2>1 DEF CreateEndpoint
  <2>2. ASSUME NEW p \in Endpoints, DeactivateEndpoint(p) PROVE TypeOK'
    BY <2>2 DEF DeactivateEndpoint
  <2>3. ASSUME NEW e \in Events, EmitFlush(e) PROVE TypeOK'
    BY <2>3 DEF EmitFlush, Request
  <2>4. ASSUME NEW e \in Events, NEW p \in Endpoints, EmitEnqueue(e, p) PROVE TypeOK'
    <3>1. <<e, p>> \in Delivery
      BY DEF Delivery
    <3>2. request' \in [Events \cup TestEvents -> Request]
      BY <2>4 DEF EmitEnqueue, Request
    <3>3. jobs' \in [Delivery -> Nat]
      BY <2>4, <3>1 DEF EmitEnqueue
    <3> QED BY <2>4, <3>2, <3>3 DEF EmitEnqueue
  <2>5. ASSUME NEW e \in Events, EmitCommit(e) PROVE TypeOK'
    BY <2>5 DEF EmitCommit, Request, NewRow, Row, Status
  <2>6. ASSUME NEW t \in TestEvents, NEW p \in Endpoints, NEW ok \in BOOLEAN,
               TestPost(t, p, ok) PROVE TypeOK'
    <3>1. <<t, p>> \in Delivery
      BY DEF Delivery
    <3>2. request' \in [Events \cup TestEvents -> Request]
      BY <2>6 DEF TestPost, Request
    <3>3. sent' \in [Delivery -> Nat]
      BY <2>6, <3>1 DEF TestPost
    <3>4. acked' \in [Delivery -> BOOLEAN]
      BY <2>6, <3>1 DEF TestPost
    <3> QED BY <2>6, <3>2, <3>3, <3>4 DEF TestPost
  <2>7. ASSUME NEW t \in TestEvents, NEW p \in Endpoints, TestCommit(t, p) PROVE TypeOK'
    <3>1. <<t, p>> \in Delivery
      BY DEF Delivery
    <3>2. NewRow \in Row /\ request[t].ok \in BOOLEAN
      BY DEF NewRow, Row, Status, Request
    <3>3. request' \in [Events \cup TestEvents -> Request]
      <4>1. [request[t] EXCEPT !.phase = "committed"] \in Request
        BY DEF Request
      <4> QED BY <2>7, <4>1 DEF TestCommit
    <3>4. row' \in [Delivery -> Row] /\ logged' \in [Delivery -> Nat]
      BY <2>7, <3>1, <3>2, AfterAttemptType DEF TestCommit
    <3> QED BY <2>7, <3>3, <3>4 DEF TestCommit
  <2>8. ASSUME NEW e \in Events \cup TestEvents, RequestRollback(e) PROVE TypeOK'
    BY <2>8 DEF RequestRollback, Request
  <2>9. ASSUME NEW w \in Workers, NEW d \in Delivery, WorkerSkip(w, d) PROVE TypeOK'
    BY <2>9 DEF WorkerSkip, Take
  <2>10. ASSUME NEW w \in Workers, NEW d \in Delivery, WorkerLoad(w, d) PROVE TypeOK'
    BY <2>10 DEF WorkerLoad, Take, BusyWorker
  <2>11. ASSUME NEW w \in Workers, NEW ok \in BOOLEAN, WorkerPost(w, ok) PROVE TypeOK'
    <3>1. worker[w] \in BusyWorker
      BY <2>11 DEF WorkerPost, Idle
    <3>2. worker[w].d \in Delivery
      BY <3>1 DEF BusyWorker
    <3>3. sent' \in [Delivery -> Nat]
      BY <2>11, <3>2 DEF WorkerPost
    <3>4. acked' \in [Delivery -> BOOLEAN]
      BY <2>11, <3>2 DEF WorkerPost
    <3>5. worker' \in [Workers -> {Idle} \cup BusyWorker]
      BY <2>11, <3>1 DEF WorkerPost, BusyWorker
    <3>6. UNCHANGED <<endpoint, request, row, logged, jobs, replay, replays, crashes,
                     early>>
      BY <2>11 DEF WorkerPost
    <3> QED BY <3>3, <3>4, <3>5, <3>6
  <2>12. ASSUME NEW w \in Workers, WorkerRecord(w) PROVE TypeOK'
    <3>1. worker[w] \in BusyWorker
      BY <2>12 DEF WorkerRecord, Idle
    <3> DEFINE d == worker[w].d
               new == AfterAttempt(worker[w].seen, worker[w].ok)
    <3>2. d \in Delivery /\ worker[w].seen \in Row /\ new \in Row
      BY <3>1, AfterAttemptType DEF BusyWorker
    <3>3. row' \in [Delivery -> Row]
      <4>1. Flushed(row[d], worker[w].seen, new) \in Row
        BY <3>2, FlushedType
      <4> QED BY <2>12, <4>1 DEF WorkerRecord
    <3>4. worker' \in [Workers -> {Idle} \cup BusyWorker]
      BY <2>12, <3>1 DEF WorkerRecord, BusyWorker
    <3>5. logged' \in [Delivery -> Nat]
      BY <2>12, <3>2 DEF WorkerRecord
    <3> QED BY <2>12, <3>3, <3>4, <3>5 DEF WorkerRecord
  <2>13. ASSUME NEW w \in Workers, WorkerReschedule(w) PROVE TypeOK'
    <3>1. worker[w] \in BusyWorker
      BY <2>13 DEF WorkerReschedule, Idle
    <3> QED BY <2>13, <3>1 DEF WorkerReschedule, BusyWorker
  <2>14. ASSUME NEW w \in Workers, WorkerCrash(w) PROVE TypeOK'
    BY <2>14 DEF WorkerCrash
  <2>15. ASSUME NEW r \in Replayers, ReplaySelect(r) PROVE TypeOK'
    BY <2>15 DEF ReplaySelect, FailedDeliveries, Replay
  <2>16. ASSUME NEW r \in Replayers, NEW d \in Delivery, ReplayReset(r, d) PROVE TypeOK'
    BY <2>16 DEF ReplayReset, Replay
  <2>17. ASSUME NEW r \in Replayers, ReplayCommit(r) PROVE TypeOK'
    BY <2>17 DEF ReplayCommit, Replay, NoReplay, NewRow, Row, Status
  <2>18. ASSUME NEW r \in Replayers, ReplayCrash(r) PROVE TypeOK'
    BY <2>18 DEF ReplayCrash, Replay, NoReplay
  <2>19. ASSUME NEW r \in Replayers, ReplayDeadlock(r) PROVE TypeOK'
    BY <2>19 DEF ReplayDeadlock, Replay, NoReplay
  <2>20. CASE UNCHANGED vars
    BY <2>20 DEF vars
  <2> QED
    BY <2>1, <2>2, <2>3, <2>4, <2>5, <2>6, <2>7, <2>8, <2>9, <2>10, <2>11,
       <2>12, <2>13, <2>14, <2>15, <2>16, <2>17, <2>18, <2>19, <2>20
    DEF Next, WorkerStep, ReplayStep, RequestStep
<1> QED BY <1>1, <1>2, PTL DEF Spec

-----------------------------------------------------------------------------
(* What is shown as delivered was acknowledged: no assumption on crashes,    *)
(* replays or the order of commits.                                          *)

AckInv ==
  /\ DeliveredIsAcked
  /\ \A w \in Workers :
       worker[w].pc = "posted" /\ worker[w].ok => acked[worker[w].d]
  /\ \A t \in TestEvents : \A p \in request[t].fan :
       request[t].phase = "open" /\ request[t].ok => acked[<<t, p>>]

\* The status an attempt computes is delivered only after a 2xx answer.
LEMMA DeliveredOnlyIfOk ==
  ASSUME NEW seen \in Row, NEW ok \in BOOLEAN,
         AfterAttempt(seen, ok).status = "delivered"
  PROVE  ok
BY DEF AfterAttempt

\* AckInv is inductive.
THEOREM AckInvariant == Spec => []AckInv
<1> USE ConstantsAssumption
<1>1. Init => AckInv
  BY DEF Init, AckInv, DeliveredIsAcked, NoRow, NoRequest, Idle
<1>2. TypeOK /\ AckInv /\ [Next]_vars => AckInv'
  <2> SUFFICES ASSUME TypeOK, AckInv, [Next]_vars PROVE AckInv'
    OBVIOUS
  <2> USE DEF AckInv, DeliveredIsAcked
  <2>1. ASSUME NEW p \in Endpoints, CreateEndpoint(p) PROVE AckInv'
    BY <2>1 DEF CreateEndpoint
  <2>2. ASSUME NEW p \in Endpoints, DeactivateEndpoint(p) PROVE AckInv'
    BY <2>2 DEF DeactivateEndpoint
  <2>3. ASSUME NEW e \in Events, EmitFlush(e) PROVE AckInv'
    BY <2>3 DEF EmitFlush, TypeOK
  <2>4. ASSUME NEW e \in Events, NEW p \in Endpoints, EmitEnqueue(e, p) PROVE AckInv'
    BY <2>4 DEF EmitEnqueue, TypeOK
  <2>5. ASSUME NEW e \in Events, EmitCommit(e) PROVE AckInv'
    BY <2>5 DEF EmitCommit, TypeOK, NewRow
  <2>6. ASSUME NEW t \in TestEvents, NEW p \in Endpoints, NEW ok \in BOOLEAN,
               TestPost(t, p, ok) PROVE AckInv'
    <3>1. \A d \in Delivery : acked[d] => acked'[d]
      BY <2>6 DEF TestPost, TypeOK
    <3>2. ok => acked'[<<t, p>>]
      BY <2>6 DEF TestPost, TypeOK, Delivery
    <3>3. \A w \in Workers : worker[w].pc = "posted" => worker[w].d \in Delivery
      BY DEF TypeOK, BusyWorker, Idle
    <3>4. \A u \in TestEvents : \A q \in request[u].fan : <<u, q>> \in Delivery
      BY DEF TypeOK, Request, Delivery
    <3>5. DeliveredIsAcked'
      BY <2>6, <3>1 DEF TestPost
    <3>6. \A w \in Workers :
            worker'[w].pc = "posted" /\ worker'[w].ok => acked'[worker'[w].d]
      BY <2>6, <3>1, <3>3 DEF TestPost
    <3>7. \A u \in TestEvents : \A q \in request'[u].fan :
            request'[u].phase = "open" /\ request'[u].ok => acked'[<<u, q>>]
      <4> SUFFICES ASSUME NEW u \in TestEvents, NEW q \in request'[u].fan,
                          request'[u].phase = "open", request'[u].ok
                   PROVE  acked'[<<u, q>>]
        OBVIOUS
      <4>1. CASE u = t
        BY <2>6, <3>2, <4>1 DEF TestPost, TypeOK
      <4>2. CASE u # t
        BY <2>6, <3>1, <3>4, <4>2 DEF TestPost, TypeOK
      <4> QED BY <4>1, <4>2
    <3> QED BY <3>5, <3>6, <3>7
  <2>7. ASSUME NEW t \in TestEvents, NEW p \in Endpoints, TestCommit(t, p) PROVE AckInv'
    <3>1. NewRow \in Row /\ request[t].ok \in BOOLEAN
      BY DEF NewRow, Row, Status, TypeOK, Request
    <3>2. AfterAttempt(NewRow, request[t].ok).status = "delivered" => acked[<<t, p>>]
      BY <2>7, <3>1, DeliveredOnlyIfOk DEF TestCommit
    <3>3. DeliveredIsAcked'
      BY <2>7, <3>2 DEF TestCommit, TypeOK
    <3> QED BY <2>7, <3>3 DEF TestCommit, TypeOK
  <2>8. ASSUME NEW e \in Events \cup TestEvents, RequestRollback(e) PROVE AckInv'
    BY <2>8 DEF RequestRollback, TypeOK
  <2>9. ASSUME NEW w \in Workers, NEW d \in Delivery, WorkerSkip(w, d) PROVE AckInv'
    BY <2>9 DEF WorkerSkip
  <2>10. ASSUME NEW w \in Workers, NEW d \in Delivery, WorkerLoad(w, d) PROVE AckInv'
    BY <2>10 DEF WorkerLoad, TypeOK
  <2>11. ASSUME NEW w \in Workers, NEW ok \in BOOLEAN, WorkerPost(w, ok) PROVE AckInv'
    <3>1. worker[w] \in BusyWorker
      BY <2>11 DEF WorkerPost, Idle, TypeOK
    <3>2. worker[w].d \in Delivery
      BY <3>1 DEF BusyWorker
    <3>3. \A d \in Delivery : acked[d] => acked'[d]
      BY <2>11, <3>2 DEF WorkerPost, TypeOK
    <3>4. ok => acked'[worker[w].d]
      BY <2>11, <3>2 DEF WorkerPost, TypeOK
    <3>5. DeliveredIsAcked'
      BY <2>11, <3>3 DEF WorkerPost
    <3>6. \A v \in Workers :
            worker'[v].pc = "posted" /\ worker'[v].ok => acked'[worker'[v].d]
      <4> SUFFICES ASSUME NEW v \in Workers, worker'[v].pc = "posted", worker'[v].ok
                   PROVE  acked'[worker'[v].d]
        OBVIOUS
      <4>1. CASE v = w
        BY <2>11, <3>1, <3>4, <4>1 DEF WorkerPost, TypeOK, BusyWorker
      <4>2. CASE v # w
        <5>1. worker'[v] = worker[v]
          BY <2>11, <4>2 DEF WorkerPost, TypeOK
        <5>2. worker[v].d \in Delivery
          BY <5>1 DEF TypeOK, BusyWorker, Idle
        <5> QED BY <3>3, <5>1, <5>2
      <4> QED BY <4>1, <4>2
    <3>7. \A u \in TestEvents : \A q \in request[u].fan : <<u, q>> \in Delivery
      BY DEF TypeOK, Request, Delivery
    <3>8. \A u \in TestEvents : \A q \in request'[u].fan :
            request'[u].phase = "open" /\ request'[u].ok => acked'[<<u, q>>]
      BY <2>11, <3>3, <3>7 DEF WorkerPost
    <3> QED BY <3>5, <3>6, <3>8
  <2>12. ASSUME NEW w \in Workers, WorkerRecord(w) PROVE AckInv'
    <3>1. worker[w] \in BusyWorker
      BY <2>12 DEF WorkerRecord, Idle, TypeOK
    <3> DEFINE d == worker[w].d
               seen == worker[w].seen
               new == AfterAttempt(seen, worker[w].ok)
    <3>2. d \in Delivery /\ seen \in Row /\ worker[w].ok \in BOOLEAN
      BY <3>1 DEF BusyWorker
    <3>3. new.status = "delivered" => acked[d]
      BY <2>12, <3>2, DeliveredOnlyIfOk DEF WorkerRecord
    <3>4. Flushed(row[d], seen, new).status \in {new.status, row[d].status}
      BY DEF Flushed
    <3>5. DeliveredIsAcked'
      BY <2>12, <3>2, <3>3, <3>4 DEF WorkerRecord, TypeOK
    <3>6. \A v \in Workers :
            worker'[v].pc = "posted" => v # w /\ worker'[v] = worker[v]
      BY <2>12, <3>1 DEF WorkerRecord, TypeOK, Idle, BusyWorker
    <3>7. \A v \in Workers :
            worker'[v].pc = "posted" /\ worker'[v].ok => acked'[worker'[v].d]
      BY <2>12, <3>6 DEF WorkerRecord
    <3> QED BY <2>12, <3>5, <3>7 DEF WorkerRecord
  <2>13. ASSUME NEW w \in Workers, WorkerReschedule(w) PROVE AckInv'
    BY <2>13 DEF WorkerReschedule, TypeOK, Idle
  <2>14. ASSUME NEW w \in Workers, WorkerCrash(w) PROVE AckInv'
    BY <2>14 DEF WorkerCrash, TypeOK, Idle
  <2>15. ASSUME NEW r \in Replayers, ReplaySelect(r) PROVE AckInv'
    BY <2>15 DEF ReplaySelect
  <2>16. ASSUME NEW r \in Replayers, NEW d \in Delivery, ReplayReset(r, d) PROVE AckInv'
    BY <2>16 DEF ReplayReset
  <2>17. ASSUME NEW r \in Replayers, ReplayCommit(r) PROVE AckInv'
    BY <2>17 DEF ReplayCommit, NewRow, TypeOK
  <2>18. ASSUME NEW r \in Replayers, ReplayCrash(r) PROVE AckInv'
    BY <2>18 DEF ReplayCrash
  <2>19. ASSUME NEW r \in Replayers, ReplayDeadlock(r) PROVE AckInv'
    BY <2>19 DEF ReplayDeadlock
  <2>20. CASE UNCHANGED vars
    BY <2>20 DEF vars
  <2> QED
    BY <2>1, <2>2, <2>3, <2>4, <2>5, <2>6, <2>7, <2>8, <2>9, <2>10, <2>11,
       <2>12, <2>13, <2>14, <2>15, <2>16, <2>17, <2>18, <2>19, <2>20
    DEF Next, WorkerStep, ReplayStep, RequestStep
<1> QED BY <1>1, <1>2, TypeCorrect, PTL DEF Spec

\* No behaviour shows a delivery as delivered that the receiver has not
\* acknowledged, under any crash, replay or stale update.
THEOREM AckedCorrect == Spec => []DeliveredIsAcked
<1>1. AckInv => DeliveredIsAcked
  BY DEF AckInv
<1> QED BY <1>1, AckInvariant, PTL

-----------------------------------------------------------------------------
(* Custody.  A delivery gets a second carrier only from a replay that is cut *)
(* short or run twice at a time: dying workers and jobs that overtake a      *)
(* commit only lose carriers.  The invariant follows the delivery through    *)
(* the request, the queue, the workers and the replay, whose job may start   *)
(* before its commit: the worker then holds the row that was given up.       *)

\* The replay command is not run, or it is run by one process and nothing dies.
TameReplays ==
  \/ MaxReplays = 0
  \/ /\ MaxCrashes = 0
     /\ \A r, s \in Replayers : r = s

\* No job is lost: none dies with its worker, none comes before its row.
Lossless == MaxCrashes = 0 /\ ~LateCommits

CalmEnvironment == TameReplays /\ Lossless

Busy(w, d) == worker[w] # Idle /\ worker[w].d = d

\* A row is visible only after the commit of its request.
RowsCommitted ==
  \A d \in Delivery : request[d[1]].phase # "committed" => row[d] = NoRow

\* Before the commit, at most the deliveries handled by the loop of emit_event
\* have a job, if none is lost exactly these; a test event has none.
JobsOfRequests ==
  /\ \A d \in EventDelivery :
       /\ request[d[1]].phase = "idle" => jobs[d] = 0
       /\ request[d[1]].phase = "open" =>
            /\ jobs[d] \in {0, 1}
            /\ IF d[2] \in request[d[1]].fan \ request[d[1]].todo
               THEN Lossless => jobs[d] = 1
               ELSE jobs[d] = 0
  /\ \A d \in TestEvents \X Endpoints :
       request[d[1]].phase # "committed" => jobs[d] = 0

\* The worker of a replayed job that came before the commit of the replay: it
\* has loaded the row that was given up, which the replay holds or has reset.
Overtaking(w, d) ==
  /\ worker[w].pc \in {"loaded", "posted"}
  /\ worker[w].seen.status = "failed"
  /\ worker[w].seen.attempts = MaxAttempts
  /\ Locked(d) \/ row[d] = NewRow

\* A worker executes a delivery alone: it overtakes a replay, or the delivery is
\* open and what it loaded is still what the row holds.
HoldersFresh ==
  \A w \in Workers : \A d \in Delivery : Busy(w, d) =>
    /\ jobs[d] = 0
    /\ \A v \in Workers : Busy(v, d) => v = w
    /\ d \notin early =>
         /\ Open(d)
         /\ worker[w].pc \in {"loaded", "posted"} => worker[w].seen = row[d]
    /\ d \in early => Overtaking(w, d)

\* emit_event schedules only deliveries it has created.
FanScheduled ==
  \A e \in Events : request[e].phase = "open" => request[e].todo \subseteq request[e].fan

OpenCarried ==
  \A d \in Delivery : Open(d) =>
    /\ jobs[d] \in {0, 1}
    /\ Lossless /\ d \in EventDelivery \ early /\ jobs[d] = 0 =>
         \E w \in Workers : Busy(w, d)

SettledUncarried ==
  \A d \in Delivery : Settled(d) =>
    jobs[d] = IF Locked(d) /\ d \notin early THEN 1 ELSE 0

\* A delivery whose replay was overtaken gets no job again, and is not given up
\* a second time.
EarlyOver ==
  \A d \in early :
    /\ jobs[d] = 0
    /\ row[d].status # "absent"
    /\ row[d].status = "failed" => Locked(d)
    /\ \A r \in Replayers : d \notin replay[r].todo

ReplayOfFailed ==
  \A r \in Replayers :
    /\ \A d \in replay[r].todo \cup replay[r].reset : row[d].status = "failed"
    /\ replay[r].todo \cap replay[r].reset = {}

Unreplayed == MaxReplays = 0 => \A r \in Replayers : replay[r] = NoReplay

RowLimits ==
  \A d \in Delivery :
    /\ row[d].attempts > MaxAttempts => d \in early /\ row[d].attempts = MaxAttempts + 1
    /\ Open(d) => row[d].attempts # MaxAttempts
    /\ row[d].status = "failed" => row[d].attempts = MaxAttempts
    /\ row[d].status = "absent" => row[d].attempts = 0

CustodyInv ==
  /\ RowsCommitted
  /\ JobsOfRequests
  /\ FanScheduled
  /\ HoldersFresh
  /\ OpenCarried
  /\ SettledUncarried
  /\ EarlyOver
  /\ ReplayOfFailed
  /\ Unreplayed
  /\ RowLimits

\* An update computed from the current row replaces it.
LEMMA FlushedFresh ==
  ASSUME NEW seen \in Row, NEW new \in Row
  PROVE  Flushed(seen, seen, new) = new
<1>1. Flushed(seen, seen, new).status = new.status
  BY DEF Flushed
<1>2. Flushed(seen, seen, new).attempts = new.attempts
  BY DEF Flushed
<1>3. Flushed(seen, seen, new).next = new.next
  BY DEF Flushed, Row
<1> QED BY <1>1, <1>2, <1>3, FlushedType DEF Row

\* What an attempt leaves behind: below the limit a failed attempt is retried,
\* at the limit the delivery is settled.
LEMMA AfterAttemptLimits ==
  ASSUME NEW seen \in Row, NEW ok \in BOOLEAN, seen.attempts < MaxAttempts,
         NEW new, new = AfterAttempt(seen, ok)
  PROVE  /\ new \in Row
         /\ new.status \in {"retrying", "delivered", "failed"}
         /\ new.attempts <= MaxAttempts
         /\ new.status = "retrying" => new.attempts < MaxAttempts
         /\ new.status = "failed" => new.attempts = MaxAttempts
<1> USE ConstantsAssumption
<1>1. new \in Row
  BY AfterAttemptType
<1>2. new.status \in {"retrying", "delivered", "failed"}
  BY DEF AfterAttempt
<1>3. new.attempts = seen.attempts + 1 /\ seen.attempts \in Nat
  BY DEF AfterAttempt, Row
<1>4. new.status = "retrying" => ~(seen.attempts + 1 >= MaxAttempts)
  BY DEF AfterAttempt
<1>5. new.status = "failed" => seen.attempts + 1 >= MaxAttempts
  BY DEF AfterAttempt
<1>6. new.attempts <= MaxAttempts
  BY <1>3
<1>7. new.status = "retrying" => new.attempts < MaxAttempts
  BY <1>3, <1>4
<1>8. new.status = "failed" => new.attempts = MaxAttempts
  BY <1>3, <1>5
<1> QED BY <1>1, <1>2, <1>6, <1>7, <1>8

\* What the worker of an overtaken replay makes of the row that was reset: a 2xx
\* delivers it; otherwise the attempt is counted and the status left alone.
LEMMA OvertakenAttempt ==
  ASSUME NEW seen \in Row, NEW ok \in BOOLEAN,
         seen.status = "failed", seen.attempts = MaxAttempts,
         NEW to, to = Flushed(NewRow, seen, AfterAttempt(seen, ok))
  PROVE  /\ to.attempts = MaxAttempts + 1
         /\ to.status = IF ok THEN "delivered" ELSE "pending"
<1> USE ConstantsAssumption DEF Row
<1>1. CASE ok
  BY <1>1 DEF AfterAttempt, Flushed, NewRow
<1>2. CASE ~ok
  BY <1>2 DEF AfterAttempt, Flushed, NewRow
<1> QED BY <1>1, <1>2

LEMMA CustodyInit == Init => CustodyInv
BY ConstantsAssumption
DEF Init, CustodyInv, RowsCommitted, JobsOfRequests, FanScheduled, HoldersFresh,
    OpenCarried, EarlyOver,
    SettledUncarried, ReplayOfFailed, Unreplayed, RowLimits, NoRow, NoRequest, NoReplay,
    Busy, Open, Settled, Locked, Idle, EventDelivery, Delivery

\* The steps of the workers.
LEMMA CustodyWorkers ==
  ASSUME TypeOK, CustodyInv, TameReplays,
         NEW w \in Workers, WorkerStep(w)
  PROVE  CustodyInv'
<1> USE ConstantsAssumption DEF CustodyInv
<1>1. ASSUME NEW d \in Delivery, WorkerSkip(w, d) PROVE CustodyInv'
  <2>1. /\ UNCHANGED <<request, row, worker, replay, early>>
        /\ jobs' = [jobs EXCEPT ![d] = jobs[d] - 1]
        /\ jobs[d] > 0
        /\ MayStart(d)
        /\ row[d].status \in {"absent", "delivered"}
    BY <1>1 DEF WorkerSkip, Take
  <2>2. row[d].status # "delivered"
    BY <2>1 DEF SettledUncarried, Settled, ReplayOfFailed, Locked
  <2>3. /\ row[d].status = "absent"
        /\ Lossless => request[d[1]].phase # "open"
    BY <2>1, <2>2 DEF MayStart, Lossless
  <2>4. d \notin early /\ \A c \in Delivery \ {d} : jobs'[c] = jobs[c]
    BY <2>1, <2>3 DEF EarlyOver, TypeOK
  <2>5. RowsCommitted' /\ FanScheduled'
    BY <2>1 DEF RowsCommitted, FanScheduled
  <2>6. JobsOfRequests'
    BY <2>1, <2>3 DEF JobsOfRequests, EventDelivery, Delivery, TypeOK
  <2>7. HoldersFresh'
    <3>1. \A v \in Workers : ~Busy(v, d)
      BY <2>1 DEF HoldersFresh, TypeOK
    <3> QED BY <2>1, <2>4, <3>1 DEF HoldersFresh, Overtaking, Busy, Open, Locked
  <2>8. OpenCarried'
    BY <2>1, <2>3 DEF OpenCarried, Busy, Open, TypeOK
  <2>9. SettledUncarried'
    BY <2>1, <2>3 DEF SettledUncarried, Settled, Locked, TypeOK
  <2>10. EarlyOver'
    BY <2>1, <2>4 DEF EarlyOver, Locked, TypeOK
  <2>11. ReplayOfFailed' /\ Unreplayed' /\ RowLimits'
    BY <2>1 DEF ReplayOfFailed, Unreplayed, RowLimits, Open
  <2> QED BY <2>5, <2>6, <2>7, <2>8, <2>9, <2>10, <2>11
<1>2. ASSUME NEW d \in Delivery, WorkerLoad(w, d) PROVE CustodyInv'
  <2> DEFINE load == [pc |-> "loaded", d |-> d, seen |-> row[d], ok |-> FALSE]
  <2>1. /\ UNCHANGED <<request, row, replay>>
        /\ worker[w] = Idle
        /\ worker' = [worker EXCEPT ![w] = load]
        /\ jobs' = [jobs EXCEPT ![d] = jobs[d] - 1]
        /\ jobs[d] > 0
        /\ row[d].status \notin {"absent", "delivered"}
        /\ early' = IF Locked(d) THEN early \cup {d} ELSE early
    BY <1>2 DEF WorkerLoad, Take
  <2>2. d \notin early /\ (Open(d) \/ row[d].status = "failed")
    BY <2>1 DEF EarlyOver, Open, TypeOK, Row, Status
  <2>3. Locked(d) <=> row[d].status = "failed"
    <3>1. Locked(d) => row[d].status = "failed"
      BY DEF ReplayOfFailed, Locked
    <3>2. row[d].status = "failed" => Locked(d)
      BY <2>1 DEF SettledUncarried, Settled
    <3> QED BY <3>1, <3>2
  <2>4. jobs[d] = 1 /\ jobs'[d] = 0 /\ \A c \in Delivery \ {d} : jobs'[c] = jobs[c]
    <3>1. jobs[d] = 1
      BY <2>1, <2>2 DEF OpenCarried, SettledUncarried, Settled, TypeOK
    <3> QED BY <2>1, <3>1 DEF TypeOK
  <2>5. \A v \in Workers : ~Busy(v, d)
    BY <2>4 DEF HoldersFresh
  <2>6. /\ Busy(w, d)' /\ worker'[w] = load
        /\ \A c \in Delivery : Busy(w, c)' => c = d
        /\ \A v \in Workers \ {w} : worker'[v] = worker[v]
        /\ \A v \in Workers \ {w} : \A c \in Delivery : Busy(v, c)' <=> Busy(v, c)
    BY <2>1 DEF Busy, Idle, TypeOK
  <2>7. /\ \A c : (Open(c)' <=> Open(c)) /\ (Locked(c)' <=> Locked(c))
        /\ \A c : (Settled(c)' <=> Settled(c))
        /\ \A c \in Delivery \ {d} : c \in early' <=> c \in early
        /\ d \in early' <=> row[d].status = "failed"
    BY <2>1, <2>2, <2>3 DEF Open, Locked, Settled
  <2>8. RowsCommitted' /\ FanScheduled'
    BY <2>1 DEF RowsCommitted, FanScheduled
  <2>9. request[d[1]].phase = "committed"
    BY <2>1 DEF RowsCommitted, NoRow
  <2>10. JobsOfRequests'
    BY <2>1, <2>4, <2>9 DEF JobsOfRequests, EventDelivery, Delivery
  <2>11. HoldersFresh'
    <3> SUFFICES ASSUME NEW v \in Workers, NEW c \in Delivery, Busy(v, c)'
                 PROVE  /\ jobs'[c] = 0
                        /\ \A u \in Workers : Busy(u, c)' => u = v
                        /\ c \notin early' =>
                             /\ Open(c)'
                             /\ worker'[v].pc \in {"loaded", "posted"} =>
                                  worker'[v].seen = row'[c]
                        /\ c \in early' => Overtaking(v, c)'
      BY DEF HoldersFresh
    <3>1. CASE v = w
      <4>1. c = d
        BY <2>6, <3>1
      <4>2. \A u \in Workers : Busy(u, d)' => u = w
        BY <2>5, <2>6
      <4>3. d \notin early' => Open(d)'
        BY <2>2, <2>7
      <4>4. worker'[w].pc = "loaded" /\ worker'[w].seen = row[d]
        BY <2>6
      <4>5. d \in early' => row[d].attempts = MaxAttempts /\ Locked(d)'
        BY <2>3, <2>7 DEF RowLimits
      <4>6. d \in early' => Overtaking(w, d)'
        BY <2>7, <4>4, <4>5 DEF Overtaking
      <4> QED BY <2>1, <2>4, <3>1, <4>1, <4>2, <4>3, <4>4, <4>6
    <3>2. CASE v # w
      <4>1. Busy(v, c) /\ c # d /\ worker'[v] = worker[v]
        BY <2>5, <2>6, <3>2
      <4>2. jobs'[c] = 0 /\ \A u \in Workers : Busy(u, c)' => u = v
        BY <2>4, <2>6, <4>1 DEF HoldersFresh
      <4>3. c \in early' => Overtaking(v, c)'
        BY <2>1, <2>7, <4>1 DEF HoldersFresh, Overtaking
      <4> QED BY <2>1, <2>7, <4>1, <4>2, <4>3 DEF HoldersFresh
    <3> QED BY <3>1, <3>2
  <2>12. OpenCarried'
    <3> SUFFICES ASSUME NEW c \in Delivery, Open(c)'
                 PROVE  /\ jobs'[c] \in {0, 1}
                        /\ Lossless /\ c \in EventDelivery \ early' /\ jobs'[c] = 0 =>
                             \E v \in Workers : Busy(v, c)'
      BY DEF OpenCarried
    <3>1. CASE c = d
      BY <2>4, <2>6, <3>1
    <3>2. CASE c # d
      <4>1. \A v \in Workers : Busy(v, c) => Busy(v, c)'
        BY <2>1, <2>6 DEF Busy
      <4> QED BY <2>4, <2>7, <3>2, <4>1 DEF OpenCarried
    <3> QED BY <3>1, <3>2
  <2>13. SettledUncarried'
    BY <2>2, <2>4, <2>7 DEF SettledUncarried, Settled, Open
  <2>14. EarlyOver'
    <3>1. \A s \in Replayers : row[d].status = "failed" => d \notin replay[s].todo
      <4> SUFFICES ASSUME NEW s \in Replayers, row[d].status = "failed"
                   PROVE  d \notin replay[s].todo
        OBVIOUS
      <4>1. PICK t \in Replayers : d \in replay[t].reset
        BY <2>3 DEF Locked
      <4>2. s = t
        BY <4>1 DEF TameReplays, Unreplayed, NoReplay
      <4> QED BY <4>1, <4>2 DEF ReplayOfFailed
    <3>2. ASSUME NEW c \in early'
          PROVE  /\ jobs'[c] = 0 /\ row'[c].status # "absent"
                 /\ row'[c].status = "failed" => Locked(c)'
                 /\ \A s \in Replayers : c \notin replay'[s].todo
      <4>1. CASE c = d
        BY <2>1, <2>3, <2>4, <2>7, <3>1, <3>2, <4>1
      <4>2. CASE c # d
        <5>1. c \in early /\ c \in Delivery
          BY <2>1, <3>2, <4>2 DEF TypeOK
        <5> QED BY <2>1, <2>4, <2>7, <4>2, <5>1 DEF EarlyOver
      <4> QED BY <4>1, <4>2
    <3> QED BY <3>2 DEF EarlyOver
  <2>15. ReplayOfFailed' /\ Unreplayed'
    BY <2>1 DEF ReplayOfFailed, Unreplayed
  <2>16. RowLimits'
    BY <2>1, <2>7 DEF RowLimits
  <2> QED BY <2>8, <2>10, <2>11, <2>12, <2>13, <2>14, <2>15, <2>16
<1>3. ASSUME NEW ok \in BOOLEAN, WorkerPost(w, ok) PROVE CustodyInv'
  <2>1. worker[w] \in BusyWorker
    BY <1>3 DEF WorkerPost, Idle, TypeOK
  <2>2. /\ UNCHANGED <<request, row, replay, jobs, early>>
        /\ worker' = [worker EXCEPT ![w] = [pc |-> "posted", d |-> worker[w].d,
                                            seen |-> worker[w].seen, ok |-> ok]]
        /\ worker[w].pc = "loaded"
    BY <1>3 DEF WorkerPost
  <2>3. /\ worker'[w].d = worker[w].d /\ worker'[w].seen = worker[w].seen
        /\ worker'[w].pc = "posted"
        /\ worker'[w] # Idle /\ worker[w] # Idle
        /\ \A v \in Workers \ {w} : worker'[v] = worker[v]
    <3>2. worker[w] # Idle
      BY <2>2 DEF Idle
    <3>3. worker'[w] = [pc |-> "posted", d |-> worker[w].d,
                        seen |-> worker[w].seen, ok |-> ok]
      BY <2>2 DEF TypeOK
    <3>4. worker'[w] # Idle
      BY <3>3 DEF Idle
    <3>5. \A v \in Workers \ {w} : worker'[v] = worker[v]
      BY <2>2 DEF TypeOK
    <3> QED BY <3>2, <3>3, <3>4, <3>5
  <2>4. \A v \in Workers : \A d \in Delivery : Busy(v, d)' <=> Busy(v, d)
    BY <2>3 DEF Busy
  <2>5. HoldersFresh'
    <3>1. \A v \in Workers : \A d \in Delivery :
            Busy(v, d) /\ Overtaking(v, d) => Overtaking(v, d)'
      BY <2>2, <2>3 DEF Overtaking, Locked
    <3> QED BY <2>2, <2>3, <2>4, <3>1 DEF HoldersFresh, Open
  <2>6. OpenCarried'
    BY <2>2, <2>4 DEF OpenCarried, Open
  <2> QED BY <2>2, <2>5, <2>6 DEF RowsCommitted, FanScheduled, JobsOfRequests, EarlyOver,
             SettledUncarried, ReplayOfFailed, Unreplayed, RowLimits, Open, Settled, Locked
<1>4. ASSUME WorkerRecord(w) PROVE CustodyInv'
  <2>1. worker[w] \in BusyWorker
    BY <1>4 DEF WorkerRecord, Idle, TypeOK
  <2> PICK d \in Delivery : d = worker[w].d
    BY <2>1 DEF BusyWorker
  <2> PICK new : new = AfterAttempt(worker[w].seen, worker[w].ok)
    OBVIOUS
  <2> PICK to : to = Flushed(row[d], worker[w].seen, new)
    OBVIOUS
  <2>2. /\ Busy(w, d) /\ row[d] \in Row
        /\ worker[w].ok \in BOOLEAN /\ worker[w].seen \in Row
    BY <1>4, <2>1 DEF WorkerRecord, BusyWorker, Busy, Idle, TypeOK
  <2>3. /\ UNCHANGED <<request, jobs, replay, early>>
        /\ ~Locked(d)
        /\ worker[w].pc = "posted"
        /\ row' = [row EXCEPT ![d] = to]
        /\ worker' = [worker EXCEPT ![w] = IF new.status = "retrying"
                                           THEN [worker[w] EXCEPT !.pc = "reschedule"]
                                           ELSE Idle]
    BY <1>4 DEF WorkerRecord
  <2>4. jobs[d] = 0 /\ \A v \in Workers : Busy(v, d) => v = w
    BY <2>2 DEF HoldersFresh
  <2>5. ASSUME d \notin early
        PROVE  /\ Open(d)
               /\ to.status \in {"retrying", "delivered", "failed"}
               /\ to.attempts \in Nat /\ to.attempts <= MaxAttempts
               /\ to.status = "retrying" => to.attempts # MaxAttempts
               /\ to.status = "failed" => to.attempts = MaxAttempts
               /\ to.status = "retrying" <=> new.status = "retrying"
    <3>1. worker[w].seen = row[d] /\ Open(d)
      BY <2>2, <2>3, <2>5 DEF HoldersFresh
    <3>2. row[d].attempts < MaxAttempts
      BY <2>2, <2>5, <3>1 DEF RowLimits, Row
    <3>3. /\ new \in Row
          /\ new.status \in {"retrying", "delivered", "failed"}
          /\ new.attempts <= MaxAttempts
          /\ new.status = "retrying" => new.attempts < MaxAttempts
          /\ new.status = "failed" => new.attempts = MaxAttempts
      BY <2>2, <3>1, <3>2, AfterAttemptLimits
    <3>4. to = new
      BY <2>2, <3>1, <3>3, FlushedFresh
    <3> QED BY <3>1, <3>3, <3>4 DEF Row
  <2>6. ASSUME d \in early
        PROVE  /\ row[d] = NewRow
               /\ to.attempts = MaxAttempts + 1
               /\ to.status \in {"pending", "delivered"}
               /\ new.status # "retrying"
    <3>1. /\ row[d] = NewRow
          /\ worker[w].seen.status = "failed" /\ worker[w].seen.attempts = MaxAttempts
      BY <2>2, <2>3, <2>6 DEF HoldersFresh, Overtaking
    <3>2. to.attempts = MaxAttempts + 1 /\ to.status \in {"pending", "delivered"}
      BY <2>2, <3>1, OvertakenAttempt
    <3>3. new.status # "retrying"
      BY <3>1 DEF AfterAttempt
    <3> QED BY <3>1, <3>2, <3>3
  <2>7. row'[d] = to /\ \A c \in Delivery \ {d} : row'[c] = row[c]
    BY <2>2, <2>3 DEF TypeOK
  <2>8. /\ \A v \in Workers \ {w} : worker'[v] = worker[v]
        /\ new.status = "retrying" => /\ worker'[w].pc = "reschedule"
                                      /\ worker'[w].d = d /\ worker'[w] # Idle
        /\ new.status # "retrying" => worker'[w] = Idle
    BY <2>1, <2>3 DEF BusyWorker, Idle, TypeOK
  <2>9. /\ \A v \in Workers : \A c \in Delivery \ {d} : Busy(v, c)' <=> Busy(v, c)
        /\ \A v \in Workers : Busy(v, d)' => v = w
        /\ Busy(w, d)' <=> new.status = "retrying"
    BY <2>2, <2>4, <2>8 DEF Busy
  <2>10. \A c \in Delivery \ {d} : (Open(c)' <=> Open(c)) /\ (Settled(c)' <=> Settled(c))
    BY <2>7 DEF Open, Settled
  <2>11. \A c : Locked(c)' <=> Locked(c)
    BY <2>3 DEF Locked
  <2>12. row[d] # NoRow /\ row[d].status # "failed"
    BY <2>5, <2>6 DEF Open, NoRow, NewRow
  <2>13. RowsCommitted' /\ FanScheduled'
    BY <2>3, <2>7, <2>12 DEF RowsCommitted, FanScheduled
  <2>14. JobsOfRequests'
    BY <2>3 DEF JobsOfRequests
  <2>15. HoldersFresh'
    <3> SUFFICES ASSUME NEW v \in Workers, NEW c \in Delivery, Busy(v, c)'
                 PROVE  /\ jobs'[c] = 0
                        /\ \A u \in Workers : Busy(u, c)' => u = v
                        /\ c \notin early' =>
                             /\ Open(c)'
                             /\ worker'[v].pc \in {"loaded", "posted"} =>
                                  worker'[v].seen = row'[c]
                        /\ c \in early' => Overtaking(v, c)'
      BY DEF HoldersFresh
    <3>1. CASE c = d
      <4>1. v = w /\ new.status = "retrying" /\ d \notin early'
        BY <2>3, <2>6, <2>9, <3>1
      <4>2. Open(d)'
        BY <2>3, <2>5, <2>7, <4>1 DEF Open
      <4> QED BY <2>3, <2>4, <2>8, <2>9, <3>1, <4>1, <4>2
    <3>2. CASE c # d
      <4>1. Busy(v, c) /\ v # w /\ worker'[v] = worker[v]
        BY <2>2, <2>8, <2>9, <3>2 DEF Busy
      <4>2. jobs'[c] = 0 /\ \A u \in Workers : Busy(u, c)' => u = v
        BY <2>3, <2>9, <3>2, <4>1 DEF HoldersFresh
      <4>3. c \in early' => Overtaking(v, c)'
        BY <2>3, <2>7, <2>11, <3>2, <4>1 DEF HoldersFresh, Overtaking
      <4> QED BY <2>3, <2>7, <2>10, <3>2, <4>1, <4>2, <4>3 DEF HoldersFresh
    <3> QED BY <3>1, <3>2
  <2>16. OpenCarried'
    <3> SUFFICES ASSUME NEW c \in Delivery, Open(c)'
                 PROVE  /\ jobs'[c] \in {0, 1}
                        /\ Lossless /\ c \in EventDelivery \ early' /\ jobs'[c] = 0 =>
                             \E v \in Workers : Busy(v, c)'
      BY DEF OpenCarried
    <3>1. CASE c = d
      <4>1. d \notin early => Busy(w, d)'
        BY <2>5, <2>7, <2>9, <3>1 DEF Open
      <4> QED BY <2>3, <2>4, <3>1, <4>1
    <3>2. CASE c # d
      BY <2>3, <2>9, <2>10, <3>2 DEF OpenCarried
    <3> QED BY <3>1, <3>2
  <2>17. SettledUncarried'
    BY <2>3, <2>4, <2>10, <2>11 DEF SettledUncarried
  <2>18. EarlyOver'
    <3> SUFFICES ASSUME NEW c \in early
                 PROVE  /\ jobs[c] = 0 /\ row'[c].status # "absent"
                        /\ row'[c].status = "failed" => Locked(c)'
                        /\ \A r \in Replayers : c \notin replay[r].todo
      BY <2>3 DEF EarlyOver
    <3>1. CASE c = d
      BY <2>6, <2>7, <3>1 DEF EarlyOver
    <3>2. CASE c # d
      BY <2>7, <2>11, <3>2 DEF EarlyOver, TypeOK
    <3> QED BY <3>1, <3>2
  <2>19. ReplayOfFailed'
    <3>1. \A r \in Replayers : \A c \in replay[r].todo \cup replay[r].reset :
            c \in Delivery \ {d}
      BY <2>12 DEF ReplayOfFailed, TypeOK, Replay
    <3> QED BY <2>3, <2>7, <3>1 DEF ReplayOfFailed
  <2>20. RowLimits'
    <3> SUFFICES ASSUME NEW c \in Delivery
                 PROVE  /\ row'[c].attempts > MaxAttempts =>
                             c \in early' /\ row'[c].attempts = MaxAttempts + 1
                        /\ Open(c)' => row'[c].attempts # MaxAttempts
                        /\ row'[c].status = "failed" => row'[c].attempts = MaxAttempts
                        /\ row'[c].status = "absent" => row'[c].attempts = 0
      BY Zenon DEF RowLimits
    <3>1. CASE c = d /\ d \in early
      BY <2>3, <2>6, <2>7, <3>1
    <3>2. CASE c = d /\ d \notin early
      BY <2>5, <2>7, <3>2 DEF Open
    <3>3. CASE c # d
      BY <2>3, <2>7, <2>10, <3>3 DEF RowLimits
    <3> QED BY <3>1, <3>2, <3>3
  <2> QED BY <2>3, <2>13, <2>14, <2>15, <2>16, <2>17, <2>18, <2>19, <2>20 DEF Unreplayed
<1>5. ASSUME WorkerReschedule(w) PROVE CustodyInv'
  <2>1. worker[w] \in BusyWorker
    BY <1>5 DEF WorkerReschedule, Idle, TypeOK
  <2> PICK d \in Delivery : d = worker[w].d
    BY <2>1 DEF BusyWorker
  <2>2. Busy(w, d) /\ worker[w].pc = "reschedule"
    BY <1>5 DEF WorkerReschedule, Busy, Idle
  <2>3. /\ d \notin early /\ Open(d) /\ jobs[d] = 0
        /\ \A v \in Workers : Busy(v, d) => v = w
    BY <2>2 DEF HoldersFresh, Overtaking
  <2>4. /\ UNCHANGED <<request, row, replay, early>>
        /\ jobs' = [jobs EXCEPT ![d] = jobs[d] + 1]
        /\ worker' = [worker EXCEPT ![w] = Idle]
    BY <1>5 DEF WorkerReschedule
  <2>5. jobs'[d] = 1 /\ \A c \in Delivery \ {d} : jobs'[c] = jobs[c]
    BY <2>2, <2>3, <2>4 DEF TypeOK
  <2>6. /\ \A v \in Workers \ {w} : worker'[v] = worker[v]
        /\ worker'[w] = Idle
    BY <2>4 DEF TypeOK
  <2>7. /\ \A v \in Workers : \A c \in Delivery \ {d} : Busy(v, c)' <=> Busy(v, c)
        /\ \A v \in Workers : ~Busy(v, d)'
    BY <2>2, <2>3, <2>6 DEF Busy
  <2>8. request[d[1]].phase = "committed"
    BY <2>2, <2>3 DEF RowsCommitted, NoRow, Open
  <2>9. JobsOfRequests'
    BY <2>4, <2>5, <2>8 DEF JobsOfRequests, EventDelivery, Delivery
  <2>10. HoldersFresh'
    <3> SUFFICES ASSUME NEW v \in Workers, NEW c \in Delivery, Busy(v, c)'
                 PROVE  /\ jobs'[c] = 0
                        /\ \A u \in Workers : Busy(u, c)' => u = v
                        /\ c \notin early' =>
                             /\ Open(c)'
                             /\ worker'[v].pc \in {"loaded", "posted"} =>
                                  worker'[v].seen = row'[c]
                        /\ c \in early' => Overtaking(v, c)'
      BY DEF HoldersFresh
    <3>1. c # d /\ Busy(v, c) /\ v # w /\ worker'[v] = worker[v]
      BY <2>6, <2>7 DEF Busy
    <3>2. c \in early' => Overtaking(v, c)'
      BY <2>4, <3>1 DEF HoldersFresh, Overtaking, Locked
    <3> QED BY <2>4, <2>5, <2>6, <2>7, <3>1, <3>2 DEF HoldersFresh, Open
  <2>11. OpenCarried'
    BY <2>4, <2>5, <2>7 DEF OpenCarried, Open
  <2>12. SettledUncarried'
    BY <2>3, <2>4, <2>5 DEF SettledUncarried, Settled, Open, Locked
  <2>13. EarlyOver'
    BY <2>3, <2>4, <2>5 DEF EarlyOver, Locked, TypeOK
  <2> QED BY <2>4, <2>9, <2>10, <2>11, <2>12, <2>13
          DEF RowsCommitted, FanScheduled, ReplayOfFailed, Unreplayed, RowLimits, Open
<1> QED BY <1>1, <1>2, <1>3, <1>4, <1>5 DEF WorkerStep

\* The steps of the API requests: emit, schedule, commit, roll back, test.
LEMMA CustodyRequests ==
  ASSUME TypeOK, CustodyInv
  PROVE  /\ \A e \in Events :
              /\ EmitFlush(e) => CustodyInv'
              /\ \A p \in Endpoints : EmitEnqueue(e, p) => CustodyInv'
              /\ EmitCommit(e) => CustodyInv'
         /\ \A t \in TestEvents, p \in Endpoints :
              /\ \A ok \in BOOLEAN : TestPost(t, p, ok) => CustodyInv'
              /\ TestCommit(t, p) => CustodyInv'
         /\ \A e \in Events \cup TestEvents : RequestRollback(e) => CustodyInv'
<1> USE ConstantsAssumption DEF CustodyInv
<1>1. ASSUME NEW e \in Events, EmitFlush(e) PROVE CustodyInv'
  <2>1. /\ UNCHANGED <<row, jobs, worker, replay, early>>
        /\ request[e].phase = "idle"
        /\ request'[e].phase = "open" /\ request'[e].fan = request'[e].todo
        /\ \A f \in (Events \cup TestEvents) \ {e} : request'[f] = request[f]
    BY <1>1 DEF EmitFlush, TypeOK
  <2>2. RowsCommitted'
    BY <2>1 DEF RowsCommitted, Delivery
  <2>3. JobsOfRequests'
    BY <2>1 DEF JobsOfRequests, EventDelivery
  <2> QED BY <2>1, <2>2, <2>3
          DEF FanScheduled, HoldersFresh, OpenCarried, SettledUncarried, EarlyOver,
             ReplayOfFailed, Unreplayed, RowLimits, Open, Settled, Busy, Locked, Overtaking
<1>2. ASSUME NEW e \in Events, NEW p \in Endpoints, EmitEnqueue(e, p) PROVE CustodyInv'
  <2> PICK d \in Delivery : d = <<e, p>>
    BY DEF Delivery
  <2>1. /\ UNCHANGED <<row, worker, replay, early>>
        /\ request[e].phase = "open" /\ p \in request[e].todo
        /\ request' = [request EXCEPT ![e] = [request[e] EXCEPT !.todo = request[e].todo \ {p}]]
        /\ jobs' = [jobs EXCEPT ![d] = jobs[d] + 1]
    BY <1>2 DEF EmitEnqueue
  <2>2. /\ request'[e].phase = "open" /\ request'[e].fan = request[e].fan
        /\ request'[e].todo = request[e].todo \ {p}
        /\ \A f \in (Events \cup TestEvents) \ {e} : request'[f] = request[f]
    BY <2>1 DEF TypeOK, Request
  <2>3. /\ jobs'[d] = jobs[d] + 1
        /\ \A c \in Delivery \ {d} : jobs'[c] = jobs[c]
    BY <2>1 DEF TypeOK
  <2>4. row[d] = NoRow
    BY <2>1 DEF RowsCommitted
  <2>5. ~Open(d) /\ ~Settled(d) /\ d \notin early /\ \A w \in Workers : ~Busy(w, d)
    BY <2>4 DEF Open, Settled, NoRow, HoldersFresh, EarlyOver
  <2>6. RowsCommitted'
    BY <2>1, <2>2 DEF RowsCommitted, Delivery
  <2>7. JobsOfRequests'
    <3>1. ASSUME NEW c \in EventDelivery
          PROVE  /\ request'[c[1]].phase = "idle" => jobs'[c] = 0
                 /\ request'[c[1]].phase = "open" =>
                      /\ jobs'[c] \in {0, 1}
                      /\ IF c[2] \in request'[c[1]].fan \ request'[c[1]].todo
                         THEN Lossless => jobs'[c] = 1
                         ELSE jobs'[c] = 0
      <4>1. CASE c = d
        <5>1. c[1] = e /\ c[2] = p /\ d \in EventDelivery
          BY <4>1
        <5>2. jobs[d] = 0
          BY <2>1, <5>1, <4>1 DEF JobsOfRequests
        <5>3. p \in request[e].fan
          BY <2>1 DEF FanScheduled
        <5> QED BY <2>1, <2>2, <2>3, <4>1, <5>1, <5>2, <5>3
      <4>2. CASE c # d /\ c[1] = e
        BY <2>1, <2>2, <2>3, <4>2 DEF JobsOfRequests, EventDelivery, Delivery
      <4>3. CASE c[1] # e
        BY <2>1, <2>2, <2>3, <4>3 DEF JobsOfRequests, EventDelivery, Delivery
      <4> QED BY <4>1, <4>2, <4>3
    <3>2. \A c \in TestEvents \X Endpoints :
            request'[c[1]].phase # "committed" => jobs'[c] = 0
      BY <2>2, <2>3 DEF JobsOfRequests, Delivery
    <3> QED BY <3>1, <3>2 DEF JobsOfRequests
  <2>8. HoldersFresh' /\ EarlyOver'
    BY <2>1, <2>3, <2>5 DEF HoldersFresh, EarlyOver, Overtaking, Busy, Open, Locked, TypeOK
  <2>9. OpenCarried'
    BY <2>1, <2>3, <2>5 DEF OpenCarried, Busy, Open
  <2>10. SettledUncarried'
    BY <2>1, <2>3, <2>5 DEF SettledUncarried, Settled, Locked
  <2> QED BY <2>1, <2>2, <2>6, <2>7, <2>8, <2>9, <2>10
          DEF ReplayOfFailed, Unreplayed, RowLimits, Open, FanScheduled
<1>3. ASSUME NEW e \in Events, EmitCommit(e) PROVE CustodyInv'
  <2>1. /\ UNCHANGED <<jobs, worker, replay, early>>
        /\ request[e].phase = "open" /\ request[e].todo = {}
        /\ request'[e].phase = "committed"
        /\ \A f \in (Events \cup TestEvents) \ {e} : request'[f] = request[f]
        /\ row' = [d \in Delivery |->
                     IF d[1] = e /\ d[2] \in request[e].fan THEN NewRow ELSE row[d]]
    BY <1>3 DEF EmitCommit, TypeOK, Request
  <2>2. RowsCommitted'
    BY <2>1 DEF RowsCommitted, Delivery
  <2>3. JobsOfRequests'
    BY <2>1 DEF JobsOfRequests, EventDelivery
  <2> DEFINE New == {d \in Delivery : d[1] = e /\ d[2] \in request[e].fan}
  <2>4. \A d \in Delivery \ New : row'[d] = row[d]
    BY <2>1
  <2>5. \A d \in New : /\ row[d] = NoRow /\ row'[d] = NewRow
                       /\ d \in EventDelivery /\ jobs[d] \in {0, 1}
                       /\ Lossless => jobs[d] = 1
    BY <2>1 DEF RowsCommitted, JobsOfRequests, Delivery, EventDelivery
  <2>6. \A d \in New : /\ \A w \in Workers : ~Busy(w, d)
                       /\ d \notin early
                       /\ \A r \in Replayers : d \notin replay[r].todo \cup replay[r].reset
    BY <2>5 DEF HoldersFresh, EarlyOver, ReplayOfFailed, Open, NoRow
  <2>7. HoldersFresh' /\ EarlyOver'
    BY <2>1, <2>4, <2>6 DEF HoldersFresh, EarlyOver, Overtaking, Busy, Open, Locked, TypeOK
  <2>8. OpenCarried'
    BY <2>1, <2>4, <2>5 DEF OpenCarried, Busy, Open
  <2>9. SettledUncarried'
    BY <2>1, <2>4, <2>5 DEF SettledUncarried, Settled, Locked, NewRow
  <2>10. ReplayOfFailed'
    BY <2>1, <2>4, <2>6 DEF ReplayOfFailed, TypeOK, Replay
  <2>11. RowLimits'
    BY <2>1, <2>4, <2>5 DEF RowLimits, Open, NewRow
  <2> QED BY <2>1, <2>2, <2>3, <2>7, <2>8, <2>9, <2>10, <2>11
          DEF FanScheduled, Unreplayed
<1>4. ASSUME NEW t \in TestEvents, NEW p \in Endpoints, NEW ok \in BOOLEAN,
             TestPost(t, p, ok)
      PROVE  CustodyInv'
  <2>1. /\ UNCHANGED <<row, jobs, worker, replay, early>>
        /\ request[t].phase = "idle"
        /\ request'[t].phase = "open"
        /\ \A f \in (Events \cup TestEvents) \ {t} : request'[f] = request[f]
    BY <1>4 DEF TestPost, TypeOK
  <2>2. RowsCommitted' /\ FanScheduled'
    BY <2>1 DEF RowsCommitted, FanScheduled, Delivery
  <2>3. JobsOfRequests'
    BY <2>1 DEF JobsOfRequests, EventDelivery
  <2> QED BY <2>1, <2>2, <2>3 DEF HoldersFresh, OpenCarried, SettledUncarried,
             EarlyOver, ReplayOfFailed, Unreplayed, RowLimits, Open, Settled, Busy,
             Locked, Overtaking
<1>5. ASSUME NEW t \in TestEvents, NEW p \in Endpoints, TestCommit(t, p)
      PROVE  CustodyInv'
  <2> PICK d \in Delivery : d = <<t, p>>
    BY DEF Delivery
  <2> PICK new : new = AfterAttempt(NewRow, request[t].ok)
    OBVIOUS
  <2>1. /\ UNCHANGED <<jobs, worker, replay, early>>
        /\ request[t].phase = "open"
        /\ request'[t].phase = "committed"
        /\ \A f \in (Events \cup TestEvents) \ {t} : request'[f] = request[f]
        /\ row' = [row EXCEPT ![d] = new]
    BY <1>5 DEF TestCommit, TypeOK, Request
  <2>2. row'[d] = new /\ \A c \in Delivery \ {d} : row'[c] = row[c]
    BY <2>1 DEF TypeOK
  <2>3. NewRow \in Row /\ request[t].ok \in BOOLEAN /\ NewRow.attempts < MaxAttempts
    BY DEF NewRow, Row, Status, TypeOK, Request
  <2>4. /\ new.status \in {"retrying", "delivered", "failed"}
        /\ new.attempts <= MaxAttempts
        /\ new.status = "retrying" => new.attempts < MaxAttempts
        /\ new.status = "failed" => new.attempts = MaxAttempts
        /\ new.attempts \in Nat
    BY <2>3, AfterAttemptLimits DEF Row
  <2>5. row[d] = NoRow /\ jobs[d] = 0 /\ d \notin EventDelivery
    BY <2>1 DEF RowsCommitted, JobsOfRequests, EventDelivery
  <2>6. /\ \A w \in Workers : ~Busy(w, d)
        /\ d \notin early
        /\ \A r \in Replayers : d \notin replay[r].todo \cup replay[r].reset
    BY <2>5 DEF HoldersFresh, EarlyOver, ReplayOfFailed, Open, NoRow
  <2>7. RowsCommitted' /\ FanScheduled'
    BY <2>1, <2>2 DEF RowsCommitted, FanScheduled, Delivery
  <2>8. JobsOfRequests'
    BY <2>1 DEF JobsOfRequests, EventDelivery
  <2>9. HoldersFresh' /\ EarlyOver'
    BY <2>1, <2>2, <2>6 DEF HoldersFresh, EarlyOver, Overtaking, Busy, Open, Locked, TypeOK
  <2>10. OpenCarried'
    BY <2>1, <2>2, <2>5 DEF OpenCarried, Busy, Open
  <2>11. SettledUncarried'
    BY <2>1, <2>2, <2>5, <2>6 DEF SettledUncarried, Settled, Locked
  <2>12. ReplayOfFailed'
    BY <2>1, <2>2, <2>6 DEF ReplayOfFailed, TypeOK, Replay
  <2>13. RowLimits'
    BY <2>1, <2>2, <2>4 DEF RowLimits, Open
  <2> QED BY <2>1, <2>7, <2>8, <2>9, <2>10, <2>11, <2>12, <2>13 DEF Unreplayed
<1>6. ASSUME NEW e \in Events \cup TestEvents, RequestRollback(e) PROVE CustodyInv'
  <2>1. /\ UNCHANGED <<row, jobs, worker, replay, early>>
        /\ request[e].phase = "open"
        /\ request'[e].phase = "rolledback"
        /\ \A f \in (Events \cup TestEvents) \ {e} : request'[f] = request[f]
    BY <1>6 DEF RequestRollback, TypeOK, Request
  <2>2. RowsCommitted' /\ FanScheduled'
    BY <2>1 DEF RowsCommitted, FanScheduled, Delivery
  <2>3. JobsOfRequests'
    BY <2>1 DEF JobsOfRequests, EventDelivery
  <2> QED BY <2>1, <2>2, <2>3 DEF HoldersFresh, OpenCarried, SettledUncarried,
             EarlyOver, ReplayOfFailed, Unreplayed, RowLimits, Open, Settled, Busy,
             Locked, Overtaking
<1> QED BY <1>1, <1>2, <1>3, <1>4, <1>5, <1>6

\* The steps of the replay command; with one command at a time nothing is
\* locked by another one.
LEMMA CustodyReplays ==
  ASSUME TypeOK, CustodyInv, TameReplays,
         NEW r \in Replayers, ReplaySelect(r) \/ ReplayStep(r) \/ ReplayDeadlock(r)
  PROVE  CustodyInv'
<1> USE ConstantsAssumption DEF CustodyInv
<1>a. MaxReplays # 0
  <2> SUFFICES ASSUME MaxReplays = 0 PROVE FALSE
    OBVIOUS
  <2>1. ~ReplaySelect(r)
    BY DEF ReplaySelect, TypeOK
  <2>2. replay[r].todo = {} /\ replay[r].reset = {}
    BY DEF Unreplayed, NoReplay
  <2> QED BY <2>1, <2>2 DEF ReplayStep, ReplayReset, ReplayCommit, ReplayDeadlock
<1>b. Unreplayed'
  BY <1>a DEF Unreplayed
<1>0. \A s \in Replayers : s = r
  BY <1>a DEF TameReplays
<1>1. CASE ReplaySelect(r)
  <2>1. /\ UNCHANGED <<request, row, jobs, worker, early>>
        /\ replay[r].reset = {}
        /\ replay'[r].reset = {}
        /\ replay'[r].todo = FailedDeliveries
    BY <1>1 DEF ReplaySelect, NoReplay, TypeOK, Replay
  <2>2. \A d : ~Locked(d)' /\ ~Locked(d)
    BY <1>0, <2>1 DEF Locked
  <2>3. ReplayOfFailed'
    BY <1>0, <2>1 DEF ReplayOfFailed, FailedDeliveries
  <2>4. EarlyOver'
    BY <1>0, <2>1, <2>2 DEF EarlyOver, FailedDeliveries
  <2>5. HoldersFresh'
    BY <2>1, <2>2 DEF HoldersFresh, Overtaking, Open, Busy
  <2> QED BY <1>b, <2>1, <2>2, <2>3, <2>4, <2>5 DEF RowsCommitted, JobsOfRequests,
             FanScheduled, OpenCarried, SettledUncarried, RowLimits, Open, Settled, Busy
<1>2. ASSUME NEW d \in Delivery, ReplayReset(r, d) PROVE CustodyInv'
  <2>1. /\ UNCHANGED <<request, row, worker, early>>
        /\ d \in replay[r].todo /\ ~Locked(d)
        /\ replay' = [replay EXCEPT ![r] = [todo |-> replay[r].todo \ {d},
                                            reset |-> replay[r].reset \cup {d}]]
        /\ jobs' = [jobs EXCEPT ![d] = jobs[d] + 1]
    BY <1>2 DEF ReplayReset
  <2>2. /\ replay'[r].todo = replay[r].todo \ {d}
        /\ replay'[r].reset = replay[r].reset \cup {d}
        /\ jobs'[d] = jobs[d] + 1
        /\ \A c \in Delivery \ {d} : jobs'[c] = jobs[c]
    BY <2>1 DEF TypeOK
  <2>3. /\ Locked(d)'
        /\ \A c \in Delivery \ {d} : Locked(c)' <=> Locked(c)
    BY <1>0, <2>2 DEF Locked
  <2>4. row[d].status = "failed" /\ d \notin early
    BY <2>1 DEF ReplayOfFailed, EarlyOver
  <2>5. jobs[d] = 0 /\ ~Open(d)
    BY <2>1, <2>4 DEF SettledUncarried, Settled, Open
  <2>6. \A w \in Workers : ~Busy(w, d)
    BY <2>4, <2>5 DEF HoldersFresh
  <2>7. request[d[1]].phase = "committed"
    BY <2>4 DEF RowsCommitted, NoRow
  <2>8. JobsOfRequests'
    BY <2>1, <2>2, <2>7 DEF JobsOfRequests, EventDelivery, Delivery
  <2>9. HoldersFresh'
    BY <2>1, <2>2, <2>3, <2>6 DEF HoldersFresh, Overtaking, Busy, Open
  <2>10. OpenCarried'
    BY <2>1, <2>2, <2>5 DEF OpenCarried, Busy, Open
  <2>11. SettledUncarried'
    BY <2>1, <2>2, <2>3, <2>4, <2>5 DEF SettledUncarried, Settled
  <2>12. ReplayOfFailed'
    BY <1>0, <2>1, <2>2 DEF ReplayOfFailed
  <2>13. EarlyOver'
    BY <1>0, <2>1, <2>2, <2>3, <2>4 DEF EarlyOver, TypeOK
  <2> QED BY <1>b, <2>1, <2>8, <2>9, <2>10, <2>11, <2>12, <2>13
          DEF RowsCommitted, FanScheduled,
             RowLimits, Open
<1>3. CASE ReplayCommit(r)
  <2>1. /\ UNCHANGED <<request, jobs, worker, early>>
        /\ row' = [d \in Delivery |->
                     IF d \in replay[r].reset THEN NewRow ELSE row[d]]
        /\ replay' = [replay EXCEPT ![r] = NoReplay]
        /\ replay[r].todo = {}
    BY <1>3 DEF ReplayCommit
  <2>2. replay'[r].todo = {} /\ replay'[r].reset = {}
    BY <2>1 DEF TypeOK, NoReplay
  <2> DEFINE Reset == replay[r].reset
  <2>3. Reset \subseteq Delivery
    BY DEF TypeOK, Replay
  <2>4. /\ \A d \in Reset : row'[d] = NewRow
        /\ \A d \in Delivery \ Reset : row'[d] = row[d]
    BY <2>1, <2>3
  <2>5. \A d \in Reset : row[d].status = "failed" /\ Locked(d)
    BY DEF ReplayOfFailed, Locked
  <2>6. \A d \in Reset : jobs[d] \in {0, 1} /\ (d \notin early => jobs[d] = 1)
    BY <2>3, <2>5 DEF SettledUncarried, Settled
  <2>7. \A d \in Reset \ early : \A w \in Workers : ~Busy(w, d)
    BY <2>3, <2>5 DEF HoldersFresh, Open
  <2>8. \A d \in Delivery \ Reset : ~Locked(d)
    BY <1>0 DEF Locked
  <2>9. \A d \in Delivery : ~Locked(d)'
    BY <1>0, <2>2 DEF Locked
  <2>10. RowsCommitted'
    BY <2>1, <2>4, <2>5 DEF RowsCommitted, NoRow
  <2>11. HoldersFresh'
    <3> SUFFICES ASSUME NEW w \in Workers, NEW d \in Delivery, Busy(w, d)
                 PROVE  /\ d \notin early =>
                             /\ Open(d)'
                             /\ worker[w].pc \in {"loaded", "posted"} =>
                                  worker[w].seen = row'[d]
                        /\ d \in early => Overtaking(w, d)'
      BY <2>1 DEF HoldersFresh, Busy
    <3>1. CASE d \in Reset
      BY <2>1, <2>4, <2>7, <3>1 DEF HoldersFresh, Overtaking
    <3>2. CASE d \notin Reset
      BY <2>1, <2>4, <2>8, <3>2 DEF HoldersFresh, Overtaking, Open
    <3> QED BY <3>1, <3>2
  <2>12. OpenCarried'
    BY <2>1, <2>4, <2>6 DEF OpenCarried, Busy, Open
  <2>13. SettledUncarried'
    BY <2>1, <2>4, <2>8, <2>9 DEF SettledUncarried, Settled, NewRow
  <2>14. ReplayOfFailed'
    BY <1>0, <2>2 DEF ReplayOfFailed
  <2>15. RowLimits'
    BY <2>1, <2>4 DEF RowLimits, Open, NewRow
  <2>16. EarlyOver'
    BY <1>0, <2>1, <2>2, <2>4, <2>8 DEF EarlyOver, NewRow, TypeOK
  <2> QED BY <1>b, <2>1, <2>10, <2>11, <2>12, <2>13, <2>14, <2>15, <2>16
          DEF JobsOfRequests, FanScheduled
<1>4. CASE ReplayDeadlock(r)
  BY <1>0, <1>4 DEF ReplayDeadlock
<1> QED BY <1>1, <1>2, <1>3, <1>4 DEF ReplayStep

\* A worker that dies takes a carrier with it.  It can only be where none is
\* replayed.
LEMMA CustodyCrash ==
  ASSUME TypeOK, CustodyInv, TameReplays, NEW w \in Workers, WorkerCrash(w)
  PROVE  CustodyInv'
<1> USE ConstantsAssumption DEF CustodyInv
<1>1. /\ UNCHANGED <<request, row, jobs, replay, early>>
      /\ worker'[w] = Idle
      /\ \A v \in Workers \ {w} : worker'[v] = worker[v]
      /\ ~Lossless
  BY DEF WorkerCrash, TypeOK, Lossless
<1>2. \A v \in Workers : \A d \in Delivery :
        Busy(v, d)' => v # w /\ worker'[v] = worker[v] /\ Busy(v, d)
  BY <1>1 DEF Busy
<1>3. HoldersFresh'
  BY <1>1, <1>2 DEF HoldersFresh, Overtaking, Open, Locked
<1>4. OpenCarried'
  BY <1>1 DEF OpenCarried, Open
<1> QED BY <1>1, <1>3, <1>4 DEF RowsCommitted, JobsOfRequests, FanScheduled, EarlyOver,
           SettledUncarried, ReplayOfFailed, Unreplayed, RowLimits, Open, Settled, Locked

\* CustodyInv is inductive: without replays whatever workers die and jobs overtake
\* requests, with tame ones if nothing dies.
THEOREM CustodyInvariant == TameReplays /\ Spec => []CustodyInv
<1> SUFFICES ASSUME TameReplays PROVE Spec => []CustodyInv
  OBVIOUS
<1>1. TypeOK /\ CustodyInv /\ [Next]_vars => CustodyInv'
  <2> SUFFICES ASSUME TypeOK, CustodyInv, [Next]_vars PROVE CustodyInv'
    OBVIOUS
  <2>1. ASSUME NEW p \in Endpoints, CreateEndpoint(p) \/ DeactivateEndpoint(p)
        PROVE  CustodyInv'
    BY <2>1 DEF CreateEndpoint, DeactivateEndpoint, CustodyInv, RowsCommitted,
       JobsOfRequests, FanScheduled, HoldersFresh, OpenCarried, SettledUncarried,
       EarlyOver, ReplayOfFailed, Unreplayed, RowLimits, Open, Settled, Busy, Locked,
       Overtaking
  <2>2. \A w \in Workers : WorkerCrash(w) => CustodyInv'
    BY CustodyCrash
  <2>3. \A r \in Replayers : ~ReplayCrash(r)
    BY ConstantsAssumption DEF ReplayCrash, TameReplays, CustodyInv, Unreplayed, TypeOK
  <2>4. CASE UNCHANGED vars
    BY <2>4 DEF vars, CustodyInv, RowsCommitted,
       JobsOfRequests, FanScheduled, HoldersFresh, OpenCarried, SettledUncarried,
       EarlyOver, ReplayOfFailed, Unreplayed, RowLimits, Open, Settled, Busy, Locked,
       Overtaking
  <2> QED
    BY <2>1, <2>2, <2>3, <2>4, CustodyRequests, CustodyWorkers, CustodyReplays
    DEF Next, RequestStep
<1> QED BY <1>1, CustodyInit, TypeCorrect, PTL DEF Spec

\* No silent drop and no double work, for any number of workers, endpoints and
\* events: an open delivery of a committed event has exactly one carrier, a
\* settled one none; only the last carrier of a delivery whose replay was
\* overtaken may be gone.
THEOREM CustodyCorrect == CalmEnvironment /\ Spec => []OneCarrier
<1> SUFFICES ASSUME CalmEnvironment PROVE Spec => []OneCarrier
  OBVIOUS
<1>1. TypeOK /\ CustodyInv => OneCarrier
  <2> SUFFICES ASSUME TypeOK, CustodyInv, NEW d \in EventDelivery
               PROVE  /\ Open(d) => Carriers(d) \in (IF d \in early THEN {0, 1} ELSE {1})
                      /\ Settled(d) /\ ~Locked(d) => Carriers(d) = 0
    BY DEF OneCarrier
  <2>1. d \in Delivery /\ jobs[d] \in Nat
    BY DEF EventDelivery, Delivery, TypeOK
  <2>2. Holders(d) = {w \in Workers : Busy(w, d)}
    BY DEF Holders, Busy
  <2>3. ASSUME NEW w \in Workers, Busy(w, d) PROVE Carriers(d) = 1
    <3>1. jobs[d] = 0 /\ Holders(d) = {w}
      BY <2>1, <2>2, <2>3 DEF CustodyInv, HoldersFresh
    <3> QED BY <3>1, FS_Singleton DEF Carriers
  <2>4. ASSUME \A w \in Workers : ~Busy(w, d) PROVE Carriers(d) = jobs[d]
    <3>1. Holders(d) = {}
      BY <2>2, <2>4
    <3> QED BY <2>1, <3>1, FS_EmptySet DEF Carriers
  <2>5. ASSUME Open(d) PROVE Carriers(d) \in (IF d \in early THEN {0, 1} ELSE {1})
    <3>1. jobs[d] \in {0, 1}
      BY <2>1, <2>5 DEF CustodyInv, OpenCarried
    <3>2. d \notin early /\ jobs[d] = 0 => \E w \in Workers : Busy(w, d)
      BY <2>1, <2>5 DEF CustodyInv, OpenCarried, CalmEnvironment
    <3> QED BY <2>3, <2>4, <3>1, <3>2
  <2>6. ASSUME Settled(d), ~Locked(d) PROVE Carriers(d) = 0
    <3>1. jobs[d] = 0
      BY <2>1, <2>6 DEF CustodyInv, SettledUncarried
    <3>2. \A w \in Workers : ~Busy(w, d)
      BY <2>1, <2>6 DEF CustodyInv, HoldersFresh, Overtaking, Open, Settled, NewRow
    <3> QED BY <2>4, <3>1, <3>2
  <2> QED BY <2>5, <2>6
<1>2. TameReplays
  BY DEF CalmEnvironment
<1> QED BY <1>1, <1>2, CustodyInvariant, TypeCorrect, PTL

\* No double work if replays are tame, whatever jobs overtake requests and, where
\* nothing is replayed, whatever workers die: a delivery on record has one carrier
\* at most.
THEOREM NoDoubleWork ==
  TameReplays /\ Spec =>
    [](\A d \in EventDelivery : Open(d) \/ Settled(d) => Carriers(d) \in {0, 1})
<1> SUFFICES ASSUME TameReplays
             PROVE  Spec => [](\A d \in EventDelivery :
                                 Open(d) \/ Settled(d) => Carriers(d) \in {0, 1})
  OBVIOUS
<1>1. ASSUME TypeOK, CustodyInv, NEW d \in EventDelivery, Open(d) \/ Settled(d)
      PROVE  Carriers(d) \in {0, 1}
  <2>1. d \in Delivery /\ Holders(d) = {w \in Workers : Busy(w, d)}
    BY DEF EventDelivery, Delivery, Holders, Busy
  <2>2. jobs[d] \in {0, 1}
    BY <1>1, <2>1 DEF CustodyInv, OpenCarried, SettledUncarried
  <2>3. CASE Holders(d) = {}
    BY <2>2, <2>3, FS_EmptySet DEF Carriers
  <2>4. ASSUME NEW w \in Holders(d) PROVE Carriers(d) \in {0, 1}
    <3>1. Holders(d) = {w} /\ jobs[d] = 0
      BY <1>1, <2>1 DEF CustodyInv, HoldersFresh
    <3> QED BY <3>1, FS_Singleton DEF Carriers
  <2> QED BY <2>3, <2>4
<1>2. TypeOK /\ CustodyInv =>
        \A d \in EventDelivery : Open(d) \/ Settled(d) => Carriers(d) \in {0, 1}
  BY <1>1
<1> QED BY <1>2, CustodyInvariant, TypeCorrect, PTL

\* With tame replays the retries stop at WEBHOOK_MAX_ATTEMPTS, or at one more
\* where the replayed job came before the commit of the replay.
THEOREM AttemptsBounded == TameReplays /\ Spec => []AttemptBound
<1> SUFFICES ASSUME TameReplays PROVE Spec => []AttemptBound
  OBVIOUS
<1>1. TypeOK /\ CustodyInv => AttemptBound
  <2> SUFFICES ASSUME TypeOK, CustodyInv, NEW d \in Delivery
               PROVE  /\ row[d].attempts = MaxAttempts => Settled(d)
                      /\ row[d].attempts > MaxAttempts =>
                           /\ d \in early /\ row[d].attempts = MaxAttempts + 1
                           /\ Carriers(d) = 0
    BY DEF AttemptBound
  <2>1. row[d].attempts = MaxAttempts => Settled(d)
    BY ConstantsAssumption
    DEF CustodyInv, RowLimits, Open, Settled, TypeOK, Row, Status
  <2>2. ASSUME row[d].attempts > MaxAttempts
        PROVE  d \in early /\ row[d].attempts = MaxAttempts + 1 /\ Carriers(d) = 0
    <3>1. d \in early /\ row[d].attempts = MaxAttempts + 1 /\ jobs[d] = 0
      BY <2>2 DEF CustodyInv, RowLimits, EarlyOver
    <3>2. ASSUME NEW w \in Workers, Busy(w, d) PROVE FALSE
      <4>1. row[d] = NewRow \/ row[d].status = "failed"
        BY <3>1, <3>2 DEF CustodyInv, HoldersFresh, Overtaking, ReplayOfFailed, Locked
      <4> QED BY <2>2, <4>1, ConstantsAssumption DEF CustodyInv, RowLimits, NewRow
    <3>3. Holders(d) = {}
      BY <3>2 DEF Holders, Busy
    <3> QED BY <3>1, <3>3, FS_EmptySet DEF Carriers
  <2> QED BY <2>1, <2>2
<1> QED BY <1>1, CustodyInvariant, TypeCorrect, PTL

\* With tame replays a step leaves delivered deliveries alone.
LEMMA DeliveredUntouched ==
  ASSUME TypeOK, CustodyInv, [Next]_vars,
         NEW d \in Delivery, row[d].status = "delivered"
  PROVE  row'[d] = row[d] /\ sent'[d] = sent[d]
<1> USE ConstantsAssumption
<1>1. /\ request[d[1]].phase = "committed"
      /\ \A w \in Workers : ~Busy(w, d)
      /\ \A r \in Replayers : d \notin replay[r].reset
  BY DEF CustodyInv, RowsCommitted, NoRow, HoldersFresh, Overtaking, Open, NewRow,
         ReplayOfFailed, Locked
<1>2. ASSUME NEW e \in Events, EmitCommit(e)
      PROVE  row'[d] = row[d] /\ sent'[d] = sent[d]
  BY <1>1, <1>2 DEF EmitCommit
<1>3. ASSUME NEW t \in TestEvents, NEW p \in Endpoints, NEW ok \in BOOLEAN,
             TestPost(t, p, ok) \/ TestCommit(t, p)
      PROVE  row'[d] = row[d] /\ sent'[d] = sent[d]
  <2>1. d # <<t, p>>
    BY <1>1, <1>3 DEF TestPost, TestCommit
  <2> QED BY <1>3, <2>1 DEF TestPost, TestCommit, TypeOK
<1>4. ASSUME NEW w \in Workers, NEW ok \in BOOLEAN, WorkerPost(w, ok) \/ WorkerRecord(w)
      PROVE  row'[d] = row[d] /\ sent'[d] = sent[d]
  <2>1. worker[w].d # d
    BY <1>1, <1>4 DEF Busy, WorkerPost, WorkerRecord, Idle
  <2> QED BY <1>4, <2>1 DEF WorkerPost, WorkerRecord, TypeOK
<1>5. ASSUME NEW r \in Replayers, ReplayCommit(r)
      PROVE  row'[d] = row[d] /\ sent'[d] = sent[d]
  BY <1>1, <1>5 DEF ReplayCommit
<1>6. ASSUME UNCHANGED <<row, sent>> PROVE row'[d] = row[d] /\ sent'[d] = sent[d]
  BY <1>6
<1> QED
  BY <1>2, <1>3, <1>4, <1>5, <1>6
  DEF Next, WorkerStep, ReplayStep, RequestStep, vars, CreateEndpoint,
      DeactivateEndpoint, EmitFlush, EmitEnqueue, RequestRollback, WorkerSkip,
      WorkerLoad, WorkerReschedule, WorkerCrash, ReplaySelect, ReplayReset,
      ReplayCrash, ReplayDeadlock

\* Delivered is final if replays are tame: no later attempt, replay or stale
\* update touches the row, and the receiver hears no more of it.
THEOREM DeliveredFinal == TameReplays /\ Spec => DeliveredIsFinal
<1> SUFFICES ASSUME TameReplays PROVE Spec => DeliveredIsFinal
  OBVIOUS
<1>1. TypeOK /\ CustodyInv /\ [Next]_vars =>
        [\A d \in Delivery : row[d].status = "delivered" =>
           row'[d] = row[d] /\ sent'[d] = sent[d]]_vars
  BY DeliveredUntouched
<1> QED BY <1>1, CustodyInvariant, TypeCorrect, PTL DEF Spec, DeliveredIsFinal

-----------------------------------------------------------------------------
(* No receiver hears of an event that has not committed: again without any   *)
(* assumption on the environment.                                            *)

Known(d) == d \in EventDelivery => request[d[1]].phase = "committed"

PhantomInv ==
  /\ NoPhantomDelivery
  /\ \A w \in Workers : worker[w] # Idle => Known(worker[w].d)
  /\ \A r \in Replayers : \A d \in replay[r].reset : Known(d)
  /\ \A r \in Replayers : \A d \in replay[r].todo : Known(d)

\* Whatever overtakes whatever, a request to a receiver about an event is sent
\* only after the transaction that emitted the event has committed.
THEOREM NoPhantom == Spec => []NoPhantomDelivery
<1> USE ConstantsAssumption
<1>1. Init => PhantomInv
  BY DEF Init, PhantomInv, NoPhantomDelivery, EventDelivery, Delivery, NoReplay
<1>2. TypeOK /\ PhantomInv /\ [Next]_vars => PhantomInv'
  <2> SUFFICES ASSUME TypeOK, PhantomInv, [Next]_vars PROVE PhantomInv'
    OBVIOUS
  <2> USE DEF PhantomInv
  <2>1. \A d \in Delivery : row[d].status # "absent" => Known(d)
    BY DEF NoPhantomDelivery, NoRow, Known
  <2>2. ASSUME UNCHANGED <<request, row, worker, replay, sent>> PROVE PhantomInv'
    BY <2>2 DEF NoPhantomDelivery, Known
  <2>3. ASSUME NEW e \in Events,
               EmitFlush(e) \/ (\E p \in Endpoints : EmitEnqueue(e, p)) \/ RequestRollback(e)
        PROVE  PhantomInv'
    <3>1. /\ request[e].phase # "committed"
          /\ \A f \in (Events \cup TestEvents) \ {e} : request'[f] = request[f]
          /\ UNCHANGED <<row, worker, replay, sent>>
      BY <2>3 DEF EmitFlush, EmitEnqueue, RequestRollback, TypeOK
    <3>2. \A d \in EventDelivery : request[d[1]].phase = "committed" =>
                                     request'[d[1]].phase = "committed"
      BY <3>1 DEF EventDelivery
    <3> QED BY <3>1, <3>2 DEF NoPhantomDelivery, Known
  <2>4. ASSUME NEW e \in Events, EmitCommit(e) PROVE PhantomInv'
    <3>1. /\ request'[e].phase = "committed"
          /\ \A f \in (Events \cup TestEvents) \ {e} : request'[f] = request[f]
          /\ UNCHANGED <<worker, replay, sent>>
          /\ \A d \in Delivery : d[1] # e => row'[d] = row[d]
      BY <2>4 DEF EmitCommit, TypeOK, Request
    <3>2. \A d \in EventDelivery : request[d[1]].phase = "committed" =>
                                     request'[d[1]].phase = "committed"
      BY <3>1 DEF EventDelivery
    <3>3. NoPhantomDelivery'
      BY <3>1 DEF NoPhantomDelivery, EventDelivery, Delivery
    <3> QED BY <3>1, <3>2, <3>3 DEF Known
  <2>5. ASSUME NEW t \in TestEvents,
               \/ \E p \in Endpoints, ok \in BOOLEAN : TestPost(t, p, ok)
               \/ \E p \in Endpoints : TestCommit(t, p)
               \/ RequestRollback(t)
        PROVE  PhantomInv'
    <3>1. /\ UNCHANGED <<worker, replay>>
          /\ \A e \in Events : request'[e] = request[e]
          /\ \A d \in EventDelivery : row'[d] = row[d] /\ sent'[d] = sent[d]
      BY <2>5 DEF TestPost, TestCommit, RequestRollback, TypeOK, EventDelivery, Delivery
    <3> QED BY <3>1 DEF NoPhantomDelivery, Known, EventDelivery
  <2>6. ASSUME NEW w \in Workers, NEW d \in Delivery, WorkerLoad(w, d) PROVE PhantomInv'
    BY <2>1, <2>6 DEF WorkerLoad, NoPhantomDelivery, Known, TypeOK, Idle
  <2>7. ASSUME NEW w \in Workers, NEW ok \in BOOLEAN, WorkerPost(w, ok) \/ WorkerRecord(w)
        PROVE  PhantomInv'
    <3>1. /\ UNCHANGED <<request, replay>>
          /\ worker[w] # Idle
          /\ \A d \in Delivery \ {worker[w].d} : row'[d] = row[d] /\ sent'[d] = sent[d]
      BY <2>7 DEF WorkerPost, WorkerRecord, Idle, TypeOK
    <3>2. worker[w] \in BusyWorker
      BY <3>1 DEF TypeOK
    <3>3. NoPhantomDelivery'
      BY <3>1 DEF NoPhantomDelivery, Known, EventDelivery, Delivery
    <3>4. \A v \in Workers : worker'[v] # Idle =>
                               worker[v] # Idle /\ worker'[v].d = worker[v].d
      <4>1. CASE WorkerPost(w, ok)
        BY <3>1, <3>2, <4>1 DEF WorkerPost, TypeOK
      <4>2. CASE WorkerRecord(w)
        BY <3>1, <3>2, <4>2 DEF WorkerRecord, TypeOK, BusyWorker
      <4> QED BY <2>7, <4>1, <4>2
    <3> QED BY <3>1, <3>3, <3>4 DEF Known
  <2>8. ASSUME NEW w \in Workers, WorkerReschedule(w) \/ WorkerCrash(w)
        PROVE  PhantomInv'
    BY <2>8 DEF WorkerReschedule, WorkerCrash, NoPhantomDelivery, Known, TypeOK
  <2>9. ASSUME NEW r \in Replayers, ReplaySelect(r) PROVE PhantomInv'
    <3>1. \A d \in FailedDeliveries : Known(d)
      BY <2>1 DEF FailedDeliveries
    <3> QED BY <2>9, <3>1 DEF ReplaySelect, NoPhantomDelivery, Known, TypeOK, Replay
  <2>10. ASSUME NEW r \in Replayers, NEW d \in Delivery, ReplayReset(r, d)
         PROVE  PhantomInv'
    BY <2>10 DEF ReplayReset, NoPhantomDelivery, Known, TypeOK, Replay
  <2>11. ASSUME NEW r \in Replayers, ReplayCommit(r) PROVE PhantomInv'
    <3>1. \A d \in Delivery : d \in replay[r].reset => Known(d)
      OBVIOUS
    <3>2. NoPhantomDelivery'
      BY <2>11, <3>1 DEF ReplayCommit, NoPhantomDelivery, Known, EventDelivery, Delivery
    <3> QED BY <2>11, <3>2 DEF ReplayCommit, Known, TypeOK, NoReplay
  <2>12. ASSUME NEW r \in Replayers, ReplayCrash(r) \/ ReplayDeadlock(r)
         PROVE  PhantomInv'
    BY <2>12 DEF ReplayCrash, ReplayDeadlock, NoPhantomDelivery, Known, TypeOK, NoReplay
  <2>13. ASSUME NEW t \in TestEvents, NEW p \in Endpoints, TestCommit(t, p)
         PROVE  PhantomInv'
    BY <2>5, <2>13
  <2>14. ASSUME NEW e \in Events \cup TestEvents, RequestRollback(e) PROVE PhantomInv'
    BY <2>3, <2>5, <2>14
  <2>15. ASSUME NEW w \in Workers, WorkerRecord(w) PROVE PhantomInv'
    BY <2>7, <2>15
  <2>16. ASSUME NEW p \in Endpoints, CreateEndpoint(p) \/ DeactivateEndpoint(p)
         PROVE  PhantomInv'
    BY <2>2, <2>16 DEF CreateEndpoint, DeactivateEndpoint
  <2>17. ASSUME NEW w \in Workers, NEW d \in Delivery, WorkerSkip(w, d)
         PROVE  PhantomInv'
    BY <2>2, <2>17 DEF WorkerSkip
  <2>18. CASE UNCHANGED vars
    BY <2>2, <2>18 DEF vars
  <2> QED
    BY <2>3, <2>4, <2>5, <2>6, <2>7, <2>8, <2>9, <2>10, <2>11, <2>12, <2>13,
       <2>14, <2>15, <2>16, <2>17, <2>18
    DEF Next, WorkerStep, ReplayStep, RequestStep
<1>3. PhantomInv => NoPhantomDelivery
  BY DEF PhantomInv
<1> QED BY <1>1, <1>2, <1>3, TypeCorrect, PTL DEF Spec

-----------------------------------------------------------------------------
(* The counters of a delivery.  Several workers may hold one delivery with   *)
(* rows they loaded at different times, and die between the post and the     *)
(* commit: the attempts a row counts never pass those on record, because what *)
(* a worker loaded was a committed row, and the requests on their way are    *)
(* those that were sent and not yet recorded.                                *)

\* Workers that have posted the delivery and not recorded the attempt.
Posted(d) == {w \in Workers : worker[w].pc = "posted" /\ worker[w].d = d}

\* One when the open request of a test event has posted the delivery.
Tested(d) == IF /\ d[1] \in TestEvents
                /\ request[d[1]].phase = "open"
                /\ d[2] \in request[d[1]].fan
             THEN 1 ELSE 0

RowsRecorded ==
  \A d \in Delivery :
    /\ row[d].attempts <= logged[d]
    /\ row[d].status = "failed" => logged[d] >= MaxAttempts

LoadedRecorded ==
  \A w \in Workers :
    worker[w].pc \in {"loaded", "posted"} =>
      worker[w].seen.attempts <= logged[worker[w].d]

SentCovers ==
  \A d \in Delivery :
    /\ IsFiniteSet(Posted(d))
    /\ logged[d] + Cardinality(Posted(d)) + Tested(d) <= sent[d]

AccountsInv == RowsRecorded /\ LoadedRecorded /\ SentCovers

\* The numbers that SentCovers adds are natural numbers.
LEMMA AccountsNumbers ==
  ASSUME TypeOK, NEW d \in Delivery, IsFiniteSet(Posted(d))
  PROVE  /\ Cardinality(Posted(d)) \in Nat
         /\ Tested(d) \in {0, 1}
         /\ logged[d] \in Nat
         /\ sent[d] \in Nat
BY FS_CardinalityType DEF TypeOK, Tested

\* A step that takes no delivery away from those on record, posts nothing and
\* records nothing keeps what SentCovers says of a delivery.
LEMMA CoverKept ==
  ASSUME TypeOK, TypeOK', AccountsInv, NEW d \in Delivery,
         logged'[d] = logged[d], sent'[d] >= sent[d],
         Posted(d)' \subseteq Posted(d), Tested(d)' <= Tested(d)
  PROVE  /\ IsFiniteSet(Posted(d)')
         /\ logged'[d] + Cardinality(Posted(d)') + Tested(d)' <= sent'[d]
<1>1. /\ IsFiniteSet(Posted(d)')
      /\ Cardinality(Posted(d)') <= Cardinality(Posted(d))
  BY FS_Subset DEF AccountsInv, SentCovers
<1>2. /\ IsFiniteSet(Posted(d))
      /\ logged[d] + Cardinality(Posted(d)) + Tested(d) <= sent[d]
  BY DEF AccountsInv, SentCovers
<1>3. /\ Cardinality(Posted(d)) \in Nat
      /\ Cardinality(Posted(d)') \in Nat
      /\ Tested(d) \in {0, 1} /\ Tested(d)' \in {0, 1}
      /\ logged[d] \in Nat /\ sent[d] \in Nat /\ sent'[d] \in Nat
  BY <1>1, <1>2, FS_CardinalityType DEF TypeOK, Tested
<1> QED BY <1>1, <1>2, <1>3

\* What an attempt computes: one attempt more, given up only at the limit.
LEMMA AttemptCounts ==
  ASSUME NEW seen \in Row, NEW ok \in BOOLEAN,
         NEW new, new = AfterAttempt(seen, ok)
  PROVE  /\ new.attempts = seen.attempts + 1
         /\ new.status = "failed" => seen.attempts + 1 >= MaxAttempts
<1>1. new.attempts = seen.attempts + 1
  BY DEF AfterAttempt
<1>2. new.status = "failed" => seen.attempts + 1 >= MaxAttempts
  BY DEF AfterAttempt
<1> QED BY <1>1, <1>2

\* No behaviour counts more attempts in a row than are on record, nor records
\* more than were sent, nor gives a delivery up before the limit: with any
\* number of workers on one delivery, crashes, overtaken commits and replays.
THEOREM AccountsCorrect == Spec => []AttemptsAccounted
<1> USE ConstantsAssumption
<1>1. Init => AccountsInv
  <2> SUFFICES ASSUME Init PROVE AccountsInv
    OBVIOUS
  <2>1. \A d \in Delivery : Posted(d) = {}
    BY DEF Init, Posted, Idle
  <2>2. \A d \in Delivery : Tested(d) = 0
    BY DEF Init, Tested, NoRequest
  <2>3. SentCovers
    <3> SUFFICES ASSUME NEW d \in Delivery
                 PROVE  /\ IsFiniteSet(Posted(d))
                        /\ logged[d] + Cardinality(Posted(d)) + Tested(d) <= sent[d]
      BY DEF SentCovers
    <3>1. logged[d] = 0 /\ sent[d] = 0
      BY DEF Init
    <3>2. IsFiniteSet(Posted(d)) /\ Cardinality(Posted(d)) = 0
      BY <2>1, FS_EmptySet
    <3> QED BY <2>2, <3>1, <3>2
  <2> QED BY <2>3 DEF Init, AccountsInv, RowsRecorded, LoadedRecorded, NoRow, Idle
<1>2. TypeOK /\ TypeOK' /\ AccountsInv /\ [Next]_vars => AccountsInv'
  <2> SUFFICES ASSUME TypeOK, TypeOK', AccountsInv, [Next]_vars PROVE AccountsInv'
    OBVIOUS
  <2>a. \A w \in Workers : worker[w].pc \in {"loaded", "posted", "reschedule"} =>
          /\ worker[w] \in BusyWorker
          /\ worker[w].d \in Delivery
          /\ worker[w].seen \in Row
          /\ worker[w].ok \in BOOLEAN
    BY DEF TypeOK, BusyWorker, Idle
  <2>b. \A d \in Delivery : row[d] \in Row /\ row[d].attempts \in Nat /\ logged[d] \in Nat
    BY DEF TypeOK, Row
  <2>1. ASSUME UNCHANGED <<logged, sent>>,
               \A d \in Delivery : row'[d] \in {row[d], NewRow},
               \A w \in Workers : worker'[w] \in {worker[w], Idle},
               \A d \in Delivery : Tested(d)' <= Tested(d)
        PROVE  AccountsInv'
    <3>1. RowsRecorded'
      BY <2>1, <2>b DEF AccountsInv, RowsRecorded, NewRow
    <3>2. LoadedRecorded'
      BY <2>1 DEF AccountsInv, LoadedRecorded, Idle
    <3>3. \A d \in Delivery : Posted(d)' \subseteq Posted(d)
      BY <2>1 DEF Posted, Idle
    <3>4. SentCovers'
      <4> SUFFICES ASSUME NEW d \in Delivery
                   PROVE  /\ IsFiniteSet(Posted(d)')
                          /\ logged'[d] + Cardinality(Posted(d)') + Tested(d)' <= sent'[d]
        BY DEF SentCovers
      <4>1. logged'[d] = logged[d] /\ sent'[d] >= sent[d]
        BY <2>1 DEF TypeOK
      <4> QED BY <2>1, <3>3, <4>1, CoverKept
    <3> QED BY <3>1, <3>2, <3>4 DEF AccountsInv
  <2>2. ASSUME UNCHANGED request PROVE \A d \in Delivery : Tested(d)' = Tested(d)
    BY <2>2 DEF Tested
  <2>3. \A d \in Delivery : Tested(d) \in {0, 1}
    BY DEF Tested
  <2>4. ASSUME UNCHANGED <<request, logged, sent>>,
               \A d \in Delivery : row'[d] \in {row[d], NewRow},
               \A w \in Workers : worker'[w] \in {worker[w], Idle}
        PROVE  AccountsInv'
    BY <2>1, <2>2, <2>3, <2>4
  <2>5. ASSUME NEW e \in Events,
               EmitFlush(e) \/ EmitCommit(e) \/ \E p \in Endpoints : EmitEnqueue(e, p)
        PROVE  AccountsInv'
    <3>1. /\ UNCHANGED <<logged, sent, worker>>
          /\ \A d \in Delivery : row'[d] \in {row[d], NewRow}
          /\ \A t \in (Events \cup TestEvents) \ {e} : request'[t] = request[t]
      BY <2>5 DEF EmitFlush, EmitCommit, EmitEnqueue, TypeOK
    <3>2. e \notin TestEvents
      OBVIOUS
    <3>3. \A d \in Delivery : Tested(d)' = Tested(d)
      BY <3>1, <3>2 DEF Tested
    <3> QED BY <2>1, <2>3, <3>1, <3>3
  <2>6. ASSUME NEW e \in Events \cup TestEvents, RequestRollback(e) PROVE AccountsInv'
    <3>1. \A d \in Delivery : Tested(d)' <= Tested(d)
      BY <2>6 DEF RequestRollback, Tested, TypeOK, Request
    <3> QED BY <2>1, <2>6, <3>1 DEF RequestRollback
  <2>7. ASSUME NEW t \in TestEvents, NEW p \in Endpoints, NEW ok \in BOOLEAN,
               TestPost(t, p, ok)
        PROVE  AccountsInv'
    <3> DEFINE c == <<t, p>>
    <3>1. /\ UNCHANGED <<row, logged, worker>>
          /\ c \in Delivery
          /\ request[t].phase = "idle"
          /\ request'[t].phase = "open" /\ request'[t].fan = {p}
          /\ \A u \in (Events \cup TestEvents) \ {t} : request'[u] = request[u]
          /\ sent'[c] = sent[c] + 1
          /\ \A d \in Delivery \ {c} : sent'[d] = sent[d]
      BY <2>7 DEF TestPost, TypeOK, Delivery
    <3>2. \A d \in Delivery : Posted(d)' = Posted(d)
      BY <3>1 DEF Posted
    <3>3. Tested(c) = 0 /\ Tested(c)' = 1
      BY <3>1 DEF Tested
    <3>4. \A d \in Delivery \ {c} : Tested(d)' <= Tested(d)
      BY <3>1 DEF Tested, Delivery
    <3>5. SentCovers'
      <4> SUFFICES ASSUME NEW d \in Delivery
                   PROVE  /\ IsFiniteSet(Posted(d)')
                          /\ logged'[d] + Cardinality(Posted(d)') + Tested(d)' <= sent'[d]
        BY DEF SentCovers
      <4>1. CASE d = c
        <5>1. /\ IsFiniteSet(Posted(c))
              /\ logged[c] + Cardinality(Posted(c)) + 0 <= sent[c]
          BY <3>1, <3>3 DEF AccountsInv, SentCovers
        <5>2. Cardinality(Posted(c)) \in Nat /\ logged[c] \in Nat /\ sent[c] \in Nat
          BY <3>1, <5>1, AccountsNumbers
        <5>3. logged[c] + Cardinality(Posted(c)) + 1 <= sent[c] + 1
          BY <5>1, <5>2
        <5> QED BY <3>1, <3>2, <3>3, <4>1, <5>1, <5>3
      <4>2. CASE d # c
        <5>1. logged'[d] = logged[d] /\ sent'[d] >= sent[d]
          BY <3>1, <4>2 DEF TypeOK
        <5> QED BY <3>2, <3>4, <4>2, <5>1, CoverKept
      <4> QED BY <4>1, <4>2
    <3> QED BY <3>1, <3>5 DEF AccountsInv, RowsRecorded, LoadedRecorded
  <2>8. ASSUME NEW t \in TestEvents, NEW p \in Endpoints, TestCommit(t, p)
        PROVE  AccountsInv'
    <3> DEFINE c == <<t, p>>
               new == AfterAttempt(NewRow, request[t].ok)
    <3>1. /\ UNCHANGED <<worker, sent>>
          /\ c \in Delivery
          /\ request[t].phase = "open" /\ p \in request[t].fan
          /\ request'[t].phase = "committed"
          /\ \A u \in (Events \cup TestEvents) \ {t} : request'[u] = request[u]
          /\ row'[c] = new
          /\ \A d \in Delivery \ {c} : row'[d] = row[d] /\ logged'[d] = logged[d]
          /\ logged'[c] = logged[c] + 1
      BY <2>8 DEF TestCommit, TypeOK, Delivery, Request
    <3>2. NewRow \in Row /\ NewRow.attempts = 0 /\ request[t].ok \in BOOLEAN
      BY DEF NewRow, Row, Status, TypeOK, Request
    <3>3. new.attempts = 1 /\ (new.status = "failed" => 1 >= MaxAttempts)
      BY <3>2, AttemptCounts
    <3>4. RowsRecorded'
      BY <2>b, <3>1, <3>3 DEF AccountsInv, RowsRecorded
    <3>5. LoadedRecorded'
      <4>1. \A d \in Delivery : logged'[d] >= logged[d]
        BY <2>b, <3>1
      <4> SUFFICES ASSUME NEW w \in Workers, worker[w].pc \in {"loaded", "posted"}
                   PROVE  worker[w].seen.attempts <= logged'[worker[w].d]
        BY <3>1 DEF LoadedRecorded
      <4>2. worker[w].seen.attempts <= logged[worker[w].d]
        BY DEF AccountsInv, LoadedRecorded
      <4>3. worker[w].d \in Delivery /\ worker[w].seen.attempts \in Nat
        BY <2>a DEF Row
      <4>4. logged'[worker[w].d] \in Nat
        BY <4>3 DEF TypeOK
      <4> QED BY <2>b, <4>1, <4>2, <4>3, <4>4
    <3>6. \A d \in Delivery : Posted(d)' = Posted(d)
      BY <3>1 DEF Posted
    <3>7. Tested(c) = 1 /\ Tested(c)' = 0
      BY <3>1 DEF Tested
    <3>8. \A d \in Delivery \ {c} : Tested(d)' <= Tested(d)
      BY <3>1 DEF Tested, Delivery
    <3>9. SentCovers'
      <4> SUFFICES ASSUME NEW d \in Delivery
                   PROVE  /\ IsFiniteSet(Posted(d)')
                          /\ logged'[d] + Cardinality(Posted(d)') + Tested(d)' <= sent'[d]
        BY DEF SentCovers
      <4>1. CASE d = c
        <5>1. /\ IsFiniteSet(Posted(c))
              /\ logged[c] + Cardinality(Posted(c)) + 1 <= sent[c]
          BY <3>1, <3>7 DEF AccountsInv, SentCovers
        <5>2. Cardinality(Posted(c)) \in Nat /\ logged[c] \in Nat /\ sent[c] \in Nat
          BY <3>1, <5>1, AccountsNumbers
        <5>3. logged[c] + 1 + Cardinality(Posted(c)) + 0 <= sent[c]
          BY <5>1, <5>2
        <5> QED BY <3>1, <3>6, <3>7, <4>1, <5>1, <5>3
      <4>2. CASE d # c
        <5>1. logged'[d] = logged[d] /\ sent'[d] >= sent[d]
          BY <3>1, <4>2 DEF TypeOK
        <5> QED BY <3>6, <3>8, <4>2, <5>1, CoverKept
      <4> QED BY <4>1, <4>2
    <3> QED BY <3>4, <3>5, <3>9 DEF AccountsInv
  <2>9. ASSUME NEW w \in Workers, NEW d \in Delivery, WorkerLoad(w, d)
        PROVE  AccountsInv'
    <3>1. /\ UNCHANGED <<request, row, logged, sent>>
          /\ worker[w] = Idle
          /\ worker'[w] = [pc |-> "loaded", d |-> d, seen |-> row[d], ok |-> FALSE]
          /\ \A v \in Workers \ {w} : worker'[v] = worker[v]
      BY <2>9 DEF WorkerLoad, TypeOK
    <3>2. LoadedRecorded'
      BY <3>1 DEF AccountsInv, RowsRecorded, LoadedRecorded
    <3>3. \A c \in Delivery : Posted(c)' \subseteq Posted(c)
      BY <3>1 DEF Posted
    <3>4. SentCovers'
      <4> SUFFICES ASSUME NEW c \in Delivery
                   PROVE  /\ IsFiniteSet(Posted(c)')
                          /\ logged'[c] + Cardinality(Posted(c)') + Tested(c)' <= sent'[c]
        BY DEF SentCovers
      <4>1. logged'[c] = logged[c] /\ sent'[c] >= sent[c] /\ Tested(c)' <= Tested(c)
        BY <2>2, <2>3, <3>1 DEF TypeOK
      <4> QED BY <3>3, <4>1, CoverKept
    <3> QED BY <3>1, <3>2, <3>4 DEF AccountsInv, RowsRecorded
  <2>10. ASSUME NEW w \in Workers, NEW ok \in BOOLEAN, WorkerPost(w, ok)
         PROVE  AccountsInv'
    <3> DEFINE c == worker[w].d
    <3>1. /\ UNCHANGED <<request, row, logged>>
          /\ worker[w].pc = "loaded" /\ c \in Delivery
          /\ sent'[c] = sent[c] + 1
          /\ \A d \in Delivery \ {c} : sent'[d] = sent[d]
          /\ worker'[w] = [pc |-> "posted", d |-> c, seen |-> worker[w].seen, ok |-> ok]
          /\ \A v \in Workers \ {w} : worker'[v] = worker[v]
      BY <2>10, <2>a DEF WorkerPost, TypeOK
    <3>2. LoadedRecorded'
      BY <3>1 DEF AccountsInv, LoadedRecorded
    <3>3. w \notin Posted(c) /\ Posted(c)' = Posted(c) \cup {w}
      BY <3>1 DEF Posted
    <3>4. \A d \in Delivery \ {c} : Posted(d)' = Posted(d)
      BY <3>1 DEF Posted
    <3>5. \A d \in Delivery : Tested(d)' = Tested(d)
      BY <2>2, <3>1
    <3>6. SentCovers'
      <4> SUFFICES ASSUME NEW d \in Delivery
                   PROVE  /\ IsFiniteSet(Posted(d)')
                          /\ logged'[d] + Cardinality(Posted(d)') + Tested(d)' <= sent'[d]
        BY DEF SentCovers
      <4>1. CASE d = c
        <5>1. /\ IsFiniteSet(Posted(c))
              /\ logged[c] + Cardinality(Posted(c)) + Tested(c) <= sent[c]
          BY <3>1 DEF AccountsInv, SentCovers
        <5>2. IsFiniteSet(Posted(c)') /\ Cardinality(Posted(c)') = Cardinality(Posted(c)) + 1
          BY <3>3, <5>1, FS_AddElement
        <5>3. /\ Cardinality(Posted(c)) \in Nat /\ Tested(c) \in {0, 1}
              /\ logged[c] \in Nat /\ sent[c] \in Nat
          BY <3>1, <5>1, AccountsNumbers
        <5>4. logged[c] + (Cardinality(Posted(c)) + 1) + Tested(c) <= sent[c] + 1
          BY <5>1, <5>3
        <5>5. logged'[c] = logged[c] /\ Tested(c)' = Tested(c)
          BY <3>1, <3>5
        <5> QED BY <3>1, <4>1, <5>2, <5>4, <5>5
      <4>2. CASE d # c
        <5>1. logged'[d] = logged[d] /\ sent'[d] >= sent[d] /\ Tested(d)' <= Tested(d)
          BY <2>3, <3>1, <3>5, <4>2 DEF TypeOK
        <5> QED BY <3>4, <4>2, <5>1, CoverKept
      <4> QED BY <4>1, <4>2
    <3> QED BY <3>1, <3>2, <3>6 DEF AccountsInv, RowsRecorded
  <2>11. ASSUME NEW w \in Workers, WorkerRecord(w) PROVE AccountsInv'
    <3> PICK c \in Delivery : c = worker[w].d
      BY <2>11, <2>a DEF WorkerRecord
    <3> PICK seen \in Row : seen = worker[w].seen
      BY <2>11, <2>a DEF WorkerRecord
    <3> PICK ok \in BOOLEAN : ok = worker[w].ok
      BY <2>11, <2>a DEF WorkerRecord, BusyWorker
    <3> PICK new : new = AfterAttempt(seen, ok)
      OBVIOUS
    <3>1. /\ UNCHANGED <<request, sent>>
          /\ worker[w].pc = "posted"
          /\ worker'[w].pc \in {"reschedule", "idle"}
          /\ \A v \in Workers \ {w} : worker'[v] = worker[v]
          /\ row'[c] = Flushed(row[c], seen, new)
          /\ \A d \in Delivery \ {c} : row'[d] = row[d] /\ logged'[d] = logged[d]
          /\ logged'[c] = logged[c] + 1
      BY <2>11, <2>a DEF WorkerRecord, TypeOK, Idle, BusyWorker
    <3>2. /\ new.status = "failed" => seen.attempts + 1 >= MaxAttempts
          /\ row'[c].attempts = seen.attempts + 1
          /\ row'[c].status \in {new.status, row[c].status}
      <4>1. row[c] \in Row
        BY DEF TypeOK
      <4>2. /\ new.attempts = seen.attempts + 1
            /\ new.status = "failed" => seen.attempts + 1 >= MaxAttempts
        BY <4>1, AttemptCounts
      <4>3. seen.attempts + 1 # seen.attempts
        BY DEF Row
      <4>4. /\ Flushed(row[c], seen, new).attempts = seen.attempts + 1
            /\ Flushed(row[c], seen, new).status \in {new.status, row[c].status}
        BY <4>2, <4>3 DEF Flushed
      <4> QED BY <3>1, <4>2, <4>4
    <3>3. seen.attempts <= logged[c] /\ seen.attempts \in Nat
      BY <3>1 DEF AccountsInv, LoadedRecorded, Row
    <3>4. RowsRecorded'
      <4>1. ASSUME NEW d \in Delivery, d # c
            PROVE  /\ row'[d].attempts <= logged'[d]
                   /\ row'[d].status = "failed" => logged'[d] >= MaxAttempts
        BY <3>1, <4>1 DEF AccountsInv, RowsRecorded
      <4>2. row'[c].attempts <= logged'[c]
        BY <2>b, <3>1, <3>2, <3>3
      <4>3. row'[c].status = "failed" => logged'[c] >= MaxAttempts
        <5>1. CASE row[c].status = "failed"
          BY <2>b, <3>1, <5>1 DEF AccountsInv, RowsRecorded
        <5>2. CASE row[c].status # "failed"
          BY <2>b, <3>1, <3>2, <3>3, <5>2
        <5> QED BY <5>1, <5>2
      <4> QED BY <4>1, <4>2, <4>3 DEF RowsRecorded
    <3>5. LoadedRecorded'
      <4> SUFFICES ASSUME NEW v \in Workers, worker'[v].pc \in {"loaded", "posted"}
                   PROVE  worker'[v].seen.attempts <= logged'[worker'[v].d]
        BY DEF LoadedRecorded
      <4>1. v # w /\ worker'[v] = worker[v]
        BY <3>1
      <4>2. worker[v].seen.attempts <= logged[worker[v].d]
        BY <4>1 DEF AccountsInv, LoadedRecorded
      <4>3. worker[v].d \in Delivery /\ worker[v].seen.attempts \in Nat
        BY <2>a, <4>1 DEF Row
      <4> QED BY <2>b, <3>1, <4>1, <4>2, <4>3
    <3>6. w \in Posted(c) /\ Posted(c)' = Posted(c) \ {w}
      BY <3>1 DEF Posted
    <3>7. \A d \in Delivery \ {c} : Posted(d)' = Posted(d)
      BY <3>1 DEF Posted
    <3>8. \A d \in Delivery : Tested(d)' = Tested(d)
      BY <2>2, <3>1
    <3>9. SentCovers'
      <4> SUFFICES ASSUME NEW d \in Delivery
                   PROVE  /\ IsFiniteSet(Posted(d)')
                          /\ logged'[d] + Cardinality(Posted(d)') + Tested(d)' <= sent'[d]
        BY DEF SentCovers
      <4>1. CASE d = c
        <5>1. /\ IsFiniteSet(Posted(c))
              /\ logged[c] + Cardinality(Posted(c)) + Tested(c) <= sent[c]
          BY DEF AccountsInv, SentCovers
        <5>2. IsFiniteSet(Posted(c)') /\ Cardinality(Posted(c)') = Cardinality(Posted(c)) - 1
          BY <3>6, <5>1, FS_RemoveElement
        <5>3. /\ Cardinality(Posted(c)) \in Nat /\ Tested(c) \in {0, 1}
              /\ logged[c] \in Nat /\ sent[c] \in Nat
          BY <5>1, AccountsNumbers
        <5>4. (logged[c] + 1) + (Cardinality(Posted(c)) - 1) + Tested(c) <= sent[c]
          BY <5>1, <5>3
        <5> QED BY <3>1, <3>8, <4>1, <5>2, <5>4
      <4>2. CASE d # c
        <5>1. logged'[d] = logged[d] /\ sent'[d] >= sent[d] /\ Tested(d)' <= Tested(d)
          BY <2>3, <3>1, <3>8, <4>2 DEF TypeOK
        <5> QED BY <3>7, <4>2, <5>1, CoverKept
      <4> QED BY <4>1, <4>2
    <3> QED BY <3>4, <3>5, <3>9 DEF AccountsInv
  <2>12. ASSUME NEW w \in Workers,
                \/ \E d \in Delivery : WorkerSkip(w, d)
                \/ WorkerReschedule(w)
                \/ WorkerCrash(w)
         PROVE  AccountsInv'
    BY <2>4, <2>12 DEF WorkerSkip, WorkerReschedule, WorkerCrash, TypeOK
  <2>13. ASSUME NEW r \in Replayers,
                \/ ReplaySelect(r)
                \/ \E d \in Delivery : ReplayReset(r, d)
                \/ ReplayCommit(r)
                \/ ReplayCrash(r)
                \/ ReplayDeadlock(r)
         PROVE  AccountsInv'
    BY <2>4, <2>13
    DEF ReplaySelect, ReplayReset, ReplayCommit, ReplayCrash, ReplayDeadlock
  <2>14. ASSUME NEW p \in Endpoints, CreateEndpoint(p) \/ DeactivateEndpoint(p)
         PROVE  AccountsInv'
    BY <2>4, <2>14 DEF CreateEndpoint, DeactivateEndpoint
  <2>15. CASE UNCHANGED vars
    BY <2>4, <2>15 DEF vars
  <2> QED
    BY <2>5, <2>6, <2>7, <2>8, <2>9, <2>10, <2>11, <2>12, <2>13, <2>14, <2>15
    DEF Next, WorkerStep, ReplayStep, RequestStep
<1>3. TypeOK /\ AccountsInv => AttemptsAccounted
  <2> SUFFICES ASSUME TypeOK, AccountsInv, NEW d \in Delivery PROVE logged[d] <= sent[d]
    BY DEF AttemptsAccounted, AccountsInv, RowsRecorded
  <2>1. /\ IsFiniteSet(Posted(d))
        /\ logged[d] + Cardinality(Posted(d)) + Tested(d) <= sent[d]
    BY DEF AccountsInv, SentCovers
  <2> QED BY <2>1, AccountsNumbers
<1>4. Spec => []AccountsInv
  BY <1>1, <1>2, TypeCorrect, PTL DEF Spec
<1> QED BY <1>3, <1>4, TypeCorrect, PTL

-----------------------------------------------------------------------------
(* The detailed system implements the contract of a delivery, if replays are *)
(* tame and for the deliveries of events.                                    *)

\* With tame replays a recorded attempt replaces the row it was computed from,
\* which was open, unless it overtook a replay.
LEMMA RecordReplaces ==
  ASSUME TypeOK, CustodyInv, NEW w \in Workers, WorkerRecord(w),
         worker[w].d \notin early
  PROVE  LET d == worker[w].d
             new == AfterAttempt(worker[w].seen, worker[w].ok)
         IN  /\ d \in Delivery
             /\ Open(d)
             /\ new.status \in {"retrying", "delivered", "failed"}
             /\ new.status = "delivered" => worker[w].ok
             /\ row' = [row EXCEPT ![d] = new]
<1> USE ConstantsAssumption DEF CustodyInv
<1>1. worker[w] \in BusyWorker
  BY DEF WorkerRecord, Idle, TypeOK
<1> DEFINE d == worker[w].d
           new == AfterAttempt(worker[w].seen, worker[w].ok)
<1>2. d \in Delivery /\ Busy(w, d) /\ worker[w].seen \in Row /\ worker[w].ok \in BOOLEAN
  BY <1>1 DEF BusyWorker, Busy, Idle, WorkerRecord
<1>3. worker[w].seen = row[d] /\ Open(d)
  BY <1>2 DEF HoldersFresh, WorkerRecord
<1>4. new \in Row /\ new.status \in {"retrying", "delivered", "failed"}
  BY <1>2, AfterAttemptType DEF AfterAttempt
<1>5. row' = [row EXCEPT ![d] = new]
  BY <1>2, <1>3, <1>4, FlushedFresh DEF WorkerRecord
<1>6. new.status = "delivered" => worker[w].ok
  BY <1>2, DeliveredOnlyIfOk
<1> QED BY <1>2, <1>3, <1>4, <1>5, <1>6

\* The attempt that overtook the replay delivers the row that was reset, or leaves
\* it pending.
LEMMA RecordOvertakes ==
  ASSUME TypeOK, CustodyInv, NEW w \in Workers, WorkerRecord(w),
         NEW d, d = worker[w].d, d \in early
  PROVE  /\ d \in Delivery
         /\ Open(d)
         /\ row'[d].status = IF worker[w].ok THEN "delivered" ELSE "pending"
         /\ \A c \in Delivery \ {d} : row'[c] = row[c]
<1> USE ConstantsAssumption DEF CustodyInv
<1>1. worker[w] \in BusyWorker
  BY DEF WorkerRecord, Idle, TypeOK
<1>2. /\ d \in Delivery /\ Busy(w, d) /\ ~Locked(d)
      /\ worker[w].seen \in Row /\ worker[w].ok \in BOOLEAN
  BY <1>1 DEF BusyWorker, Busy, Idle, WorkerRecord
<1>3. /\ row[d] = NewRow
      /\ worker[w].seen.status = "failed" /\ worker[w].seen.attempts = MaxAttempts
  BY <1>2 DEF HoldersFresh, Overtaking
<1> PICK to : to = Flushed(NewRow, worker[w].seen,
                           AfterAttempt(worker[w].seen, worker[w].ok))
  OBVIOUS
<1>4. to.status = IF worker[w].ok THEN "delivered" ELSE "pending"
  BY <1>2, <1>3, OvertakenAttempt
<1>5. row'[d] = to /\ \A c \in Delivery \ {d} : row'[c] = row[c]
  BY <1>2, <1>3 DEF WorkerRecord, TypeOK
<1>6. Open(d)
  BY <1>3 DEF Open, NewRow
<1> QED BY <1>2, <1>4, <1>5, <1>6

\* Steps of the system are steps of the contract: a commit publishes, a post
\* may acknowledge, a recorded attempt delivers, gives up or changes nothing,
\* and the commit of a replay reopens.  What happens to test events leaves the
\* contract where it is.
LEMMA ContractStep ==
  ASSUME TypeOK, AckInv, CustodyInv, [Next]_vars
  PROVE  [Contract!Next]_(Contract!vars)
<1> USE ConstantsAssumption
<1>0. /\ EventStates = [d \in EventDelivery |-> Abstract(d)]
      /\ EventStates' = [d \in EventDelivery |-> Abstract(d)']
      /\ EventAcks = [d \in EventDelivery |-> acked[d]]
      /\ EventAcks' = [d \in EventDelivery |-> acked'[d]]
  BY DEF EventStates, EventAcks
<1>a. EventDelivery \subseteq Delivery
  BY DEF EventDelivery, Delivery
<1>b. ASSUME \A d \in EventDelivery : row'[d] = row[d], early' = early
      PROVE  EventStates' = EventStates
  <2>1. \A d \in EventDelivery : Abstract(d)' = Abstract(d)
    BY <1>b DEF Abstract, Open
  <2> QED BY <1>0, <2>1
<1>c. ASSUME \A d \in EventDelivery : acked'[d] = acked[d]
      PROVE  EventAcks' = EventAcks
  BY <1>0, <1>c
<1>1. ASSUME NEW e \in Events, EmitCommit(e) PROVE Contract!Next
  <2>1. request[e].fan \in SUBSET Endpoints
    BY DEF TypeOK, Request
  <2> PICK fan \in SUBSET Endpoints : fan = request[e].fan
    BY <2>1
  <2> PICK B \in Batches : B = {e} \X fan
    BY DEF Batches, EventDelivery
  <2>3. B \subseteq EventDelivery /\ \A d \in B : d[1] = e /\ d[2] \in fan
    BY DEF EventDelivery
  <2>4. \A d \in B : row[d].status = "absent" /\ d \notin early
    BY <1>1, <1>a, <2>3 DEF EmitCommit, CustodyInv, RowsCommitted, EarlyOver, NoRow
  <2>a. early' = early
    BY <1>1 DEF EmitCommit
  <2>5. \A d \in B : EventStates[d] = "none"
    <3>1. \A d \in B : Abstract(d) = "none"
      BY <2>4 DEF Abstract, Open
    <3> QED BY <1>0, <2>3, <3>1
  <2>6. ASSUME NEW d \in EventDelivery
        PROVE  Abstract(d)' = IF d \in B THEN "open" ELSE Abstract(d)
    <3>1. CASE d \in B
      BY <1>1, <1>a, <2>3, <2>4, <2>a, <3>1 DEF EmitCommit, Abstract, Open, NewRow
    <3>2. CASE d \notin B
      <4>1. row'[d] = row[d]
        BY <1>1, <1>a, <3>2 DEF EmitCommit, EventDelivery
      <4> QED BY <2>a, <3>2, <4>1 DEF Abstract, Open
    <3> QED BY <3>1, <3>2
  <2>7. EventStates' = [d \in EventDelivery |-> IF d \in B THEN "open" ELSE EventStates[d]]
    BY <1>0, <2>6
  <2>8. EventAcks' = EventAcks
    BY <1>1, <1>c DEF EmitCommit
  <2>9. Contract!Publish(B)
    BY <2>5, <2>7, <2>8 DEF Contract!Publish
  <2> QED BY <2>9 DEF Contract!Next
<1>2. ASSUME NEW w \in Workers, NEW ok \in BOOLEAN, WorkerPost(w, ok)
      PROVE  [Contract!Next]_(Contract!vars)
  <2>1. worker[w] \in BusyWorker
    BY <1>2 DEF WorkerPost, Idle, TypeOK
  <2> PICK d \in Delivery : d = worker[w].d
    BY <2>1 DEF BusyWorker
  <2>2. Open(d) \/ row[d].status = "failed"
    BY <1>2, <2>1 DEF WorkerPost, CustodyInv, HoldersFresh, Overtaking, NewRow, Open,
                      ReplayOfFailed, Locked, Busy, Idle
  <2>3. EventStates' = EventStates
    BY <1>2, <1>b DEF WorkerPost
  <2>4. /\ acked'[d] = (acked[d] \/ ok)
        /\ \A c \in Delivery \ {d} : acked'[c] = acked[c]
    BY <1>2 DEF WorkerPost, TypeOK
  <2>5. CASE d \in EventDelivery /\ ok
    <3>1. EventStates[d] \in {"open", "raced", "failed"}
      BY <1>0, <2>2, <2>5 DEF Abstract, Open
    <3>2. acked'[d] = TRUE
      BY <2>4, <2>5
    <3>3. EventAcks' = [EventAcks EXCEPT ![d] = TRUE]
      BY <1>0, <1>a, <2>4, <2>5, <3>2
    <3>4. Contract!Acknowledge(d)
      BY <2>3, <3>1, <3>3 DEF Contract!Acknowledge
    <3> QED BY <2>5, <3>4 DEF Contract!Next
  <2>6. CASE ~ok
    <3>1. acked'[d] = acked[d]
      BY <2>4, <2>6 DEF TypeOK
    <3>2. EventAcks' = EventAcks
      BY <1>a, <1>c, <2>4, <3>1
    <3> QED BY <2>3, <3>2 DEF Contract!vars
  <2>7. CASE d \notin EventDelivery
    <3>1. EventAcks' = EventAcks
      BY <1>a, <1>c, <2>4, <2>7
    <3> QED BY <2>3, <3>1 DEF Contract!vars
  <2> QED BY <2>5, <2>6, <2>7
<1>3. ASSUME NEW w \in Workers, WorkerRecord(w) PROVE [Contract!Next]_(Contract!vars)
  <2> PICK d : d = worker[w].d
    OBVIOUS
  <2> PICK to : to = row'[d].status
    OBVIOUS
  <2>1. /\ d \in Delivery /\ Open(d)
        /\ to \in {"pending", "retrying", "delivered", "failed"}
        /\ to = "delivered" => worker[w].ok
        /\ to = "failed" => d \notin early
        /\ \A c \in Delivery \ {d} : row'[c] = row[c]
    <3>1. CASE d \in early
      BY <1>3, <3>1, RecordOvertakes
    <3>2. CASE d \notin early
      BY <1>3, <3>2, RecordReplaces DEF TypeOK
    <3> QED BY <3>1, <3>2
  <2>2. EventAcks' = EventAcks /\ early' = early
    BY <1>3, <1>c DEF WorkerRecord
  <2>3. CASE d \in EventDelivery
    <3> PICK from : from = Abstract(d)
      OBVIOUS
    <3>1. /\ from = IF d \in early THEN "raced" ELSE "open"
          /\ Abstract(d)' = IF to \in {"pending", "retrying"} THEN from ELSE to
      BY <2>1, <2>2 DEF Abstract, Open
    <3>2. \A c \in EventDelivery \ {d} : Abstract(c)' = Abstract(c)
      BY <1>a, <2>1, <2>2 DEF Abstract, Open
    <3>3. EventStates[d] = from
      BY <1>0, <2>3
    <3>4. EventStates' = [EventStates EXCEPT ![d] =
                            IF to \in {"pending", "retrying"} THEN from ELSE to]
      BY <1>0, <2>3, <3>1, <3>2
    <3>5. CASE to \in {"pending", "retrying"}
      <4>1. EventStates' = EventStates
        BY <1>0, <3>3, <3>4, <3>5
      <4> QED BY <2>2, <4>1 DEF Contract!vars
    <3>6. CASE to = "delivered"
      <4>1. acked[d]
        BY <1>3, <2>1, <3>6 DEF WorkerRecord, AckInv
      <4>2. EventAcks[d] /\ EventStates[d] \in {"open", "raced"}
        BY <1>0, <2>3, <3>1, <3>3, <4>1
      <4>3. EventStates' = [EventStates EXCEPT ![d] = "delivered"]
        BY <3>4, <3>6
      <4>4. Contract!Deliver(d)
        BY <2>2, <4>2, <4>3 DEF Contract!Deliver
      <4> QED BY <2>3, <4>4 DEF Contract!Next, Contract!Settle
    <3>7. CASE to = "failed"
      <4>1. EventStates' = [EventStates EXCEPT ![d] = "failed"]
        BY <3>4, <3>7
      <4>2. Contract!GiveUp(d)
        BY <2>1, <2>2, <3>1, <3>3, <3>7, <4>1 DEF Contract!GiveUp
      <4> QED BY <2>3, <4>2 DEF Contract!Next, Contract!Settle
    <3> QED BY <2>1, <3>5, <3>6, <3>7
  <2>4. CASE d \notin EventDelivery
    <3>1. EventStates' = EventStates
      BY <1>a, <1>b, <2>1, <2>2, <2>4
    <3> QED BY <2>2, <3>1 DEF Contract!vars
  <2> QED BY <2>3, <2>4
<1>4. ASSUME NEW r \in Replayers, ReplayCommit(r) PROVE [Contract!Next]_(Contract!vars)
  <2> PICK B : B = replay[r].reset \cap EventDelivery
    OBVIOUS
  <2> PICK raced \in SUBSET EventDelivery : raced = early \cap EventDelivery
    OBVIOUS
  <2>1. \A d \in B : row[d].status = "failed"
    BY DEF CustodyInv, ReplayOfFailed
  <2>2. \A d \in B : EventStates[d] = "failed"
    BY <1>0, <2>1 DEF Abstract, Open
  <2>a. early' = early
    BY <1>4 DEF ReplayCommit
  <2>3. ASSUME NEW d \in EventDelivery
        PROVE  Abstract(d)' = CASE d \in B \ raced -> "open"
                                [] d \in B \cap raced -> "raced"
                                [] d \notin B -> Abstract(d)
    <3>1. CASE d \in B
      <4>1. row'[d] = NewRow
        BY <1>4, <1>a, <3>1 DEF ReplayCommit
      <4>2. Abstract(d)' = IF d \in early THEN "raced" ELSE "open"
        BY <2>a, <4>1 DEF Abstract, Open, NewRow
      <4> QED BY <3>1, <4>2
    <3>2. CASE d \notin B
      <4>1. row'[d] = row[d]
        BY <1>4, <1>a, <3>2 DEF ReplayCommit
      <4>2. Abstract(d)' = Abstract(d)
        BY <2>a, <4>1 DEF Abstract, Open
      <4> QED BY <3>2, <4>2
    <3> QED BY <3>1, <3>2
  <2>4. EventStates' = [d \in EventDelivery |-> CASE d \in B \ raced -> "open"
                                                  [] d \in B \cap raced -> "raced"
                                                  [] d \notin B -> EventStates[d]]
    BY <1>0, <2>3
  <2>5. EventAcks' = EventAcks
    BY <1>4, <1>c DEF ReplayCommit
  <2>6. CASE B # {}
    <3>1. Contract!Reopen(B, raced)
      BY <2>2, <2>4, <2>5, <2>6 DEF Contract!Reopen
    <3> QED BY <3>1 DEF Contract!Next
  <2>7. CASE B = {}
    <3>1. EventStates' = EventStates
      BY <1>0, <2>4, <2>7
    <3> QED BY <2>5, <3>1 DEF Contract!vars
  <2> QED BY <2>6, <2>7
<1>5. ASSUME NEW t \in TestEvents, NEW p \in Endpoints,
             \/ \E ok \in BOOLEAN : TestPost(t, p, ok)
             \/ TestCommit(t, p)
      PROVE  UNCHANGED Contract!vars
  <2>1. <<t, p>> \notin EventDelivery
    BY DEF EventDelivery
  <2>2. /\ \A d \in EventDelivery : row'[d] = row[d] /\ acked'[d] = acked[d]
        /\ early' = early
    BY <1>5, <1>a, <2>1 DEF TestPost, TestCommit, TypeOK
  <2> QED BY <1>b, <1>c, <2>2 DEF Contract!vars
<1>6. ASSUME UNCHANGED <<row, acked, early>> PROVE UNCHANGED Contract!vars
  BY <1>b, <1>c, <1>6 DEF Contract!vars
<1>7. ASSUME NEW w \in Workers, NEW d \in Delivery, WorkerLoad(w, d)
      PROVE  UNCHANGED Contract!vars
  <2>1. UNCHANGED <<row, acked>> /\ (early' = early \/ (Locked(d) /\ early' = early \cup {d}))
    BY <1>7 DEF WorkerLoad
  <2>2. Locked(d) => row[d].status = "failed"
    BY DEF CustodyInv, ReplayOfFailed, Locked
  <2>3. \A c \in EventDelivery : Abstract(c)' = Abstract(c)
    BY <2>1, <2>2 DEF Abstract, Open
  <2>4. EventStates' = EventStates
    BY <1>0, <2>3
  <2> QED BY <1>c, <2>1, <2>4 DEF Contract!vars
<1> QED
  BY <1>1, <1>2, <1>3, <1>4, <1>5, <1>6, <1>7
  DEF Next, WorkerStep, ReplayStep, RequestStep, vars, CreateEndpoint,
      DeactivateEndpoint, EmitFlush, EmitEnqueue, RequestRollback, WorkerSkip,
      WorkerReschedule, WorkerCrash, ReplaySelect, ReplayReset,
      ReplayCrash, ReplayDeadlock

\* Every behaviour of the system with tame replays, seen through the rows of its
\* events, is one the contract allows (its safety part; that nothing stays open
\* for ever is model-checked).
THEOREM ContractImplemented ==
  TameReplays /\ Spec => Contract!SafetySpec
<1> SUFFICES ASSUME TameReplays PROVE Spec => Contract!SafetySpec
  OBVIOUS
<1>1. Init => Contract!Init
  BY DEF Init, Contract!Init, EventStates, EventAcks, EventDelivery, Delivery,
         Abstract, Open, NoRow
<1>2. TypeOK /\ AckInv /\ CustodyInv /\ [Next]_vars => [Contract!Next]_(Contract!vars)
  BY ContractStep
<1> QED BY <1>1, <1>2, TypeCorrect, AckInvariant, CustodyInvariant, PTL
        DEF Spec, Contract!SafetySpec

===============================================================================
