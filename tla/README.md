# TrustStack Lite: TLA+ models and proofs

TLA+ models of the TrustStack Lite API (`src/apps/api/app`), the TLC runs that
check them on small instances, and theorems about them checked by TLAPS.
Paths below are relative to `src/apps/api/app` unless they start with `docs/`.

## 1. The system

A FastAPI application (three API replicas) and RQ workers (two replicas) share
PostgreSQL, Redis and an S3-compatible object store. There is no coordination
between processes except through these stores:

- **PostgreSQL**, READ COMMITTED. An API request runs in one transaction that
  `db.get_db` commits when the handler returns and rolls back on an exception.
  `pyproject.toml:7` admits any FastAPI from 0.111 below 1.0, and since 0.118 a
  dependency ends after the response: the answer may leave before the commit.
  The session has `autoflush=False`; a flush writes only the columns that differ
  from the loaded ones and takes the row locks until the commit. What a
  transaction reads can have changed when it writes.
- **Redis / RQ**. `queue.enqueue` and `enqueue_in` take effect at once, whatever
  becomes of the enqueuing transaction. No retry is configured: the job of a
  dead worker, or one that raised, goes to RQ's failed registry and stays there.
- **Object store**. Objects are written before the rows that name them.

### Inventory

| Component | State | Operations | Hard behaviour | What makes it correct |
|---|---|---|---|---|
| Webhook delivery (`services/webhooks.py`, `services/events.py`, `tasks/webhooks.py`, `cli/replay_webhooks.py`, `routers/webhooks.py`) | endpoints, deliveries, attempts; jobs in Redis | emit, fan-out, attempt, retry, replay, test send, (de)activate, rotate secret | two stores without a common commit, dying workers, replays racing workers, and overtaken by their own jobs | delivered means acknowledged; nothing sent for a rolled-back event; no open delivery without a job; attempts bounded; every delivery settles |
| Risk policy (`risk/engine.py` `decide`, `risk/policies/v1.py`, `risk/calculators.py`, weights in `services/verification.py`) | none (pure) | collapse signals, score, decide, severity | rules, thresholds and weights live in different files | independent of the order and repetition of signals; more signals never give a milder decision |
| Case risk (`risk/engine.py` `recompute_case_risk`, `services/risk.py`, `services/review.py`, `routers/risk.py`, `tasks/risk.py`) | signals, decision, review tasks, the case's state and risk | recompute, add signal, queue a review | select-then-insert without unique constraints; concurrent recomputes; stale case row | one decision and one open task per case; a case in review has a task; decisions only harden; the case shows its decision |
| Consent (`services/consent.py`, `routers/consent.py`, `routers/notices.py`) | notices and which is active; immutable consent records; case state | create and (de)activate notices, grant, withdraw, submit | concurrent activation; a withdrawal between the gate and the commit | one active notice per key, jurisdiction and language; no submission without consent |
| Documents (`services/documents.py`, `routers/documents.py`, `tasks/documents.py`) | document rows and status, OCR steps, objects, jobs | upload, OCR, redact, preview | commit, then enqueue; failing redaction; concurrent uploads of one file | a preview is always redacted; a document ends processed or failed; duplicates are flagged |
| Cases and idempotency (`routers/cases.py`, `services/cases.py`, `services/idempotency.py`) | cases, idempotency keys | create with a key, retry | answers lost or ahead of their commit, concurrent retries; events already scheduled by the loser | one case per key; a retry gets the same case |
| Verification (`services/verification.py`, `verification/persona.py`, `routers/verification.py`) | steps, signals; a provider session per step | start, callback | duplicated, reordered and overlapping callbacks; a coroutine that blocks its event loop on a row lock; a replica that dies | an applied outcome leaves its signals, a failed one none; redelivery changes nothing; every callback ends |
| Retention (`services/retention.py`, `routers/retention.py`) | requests and their status | create, update | read-check-write without a lock | nothing erased without an approval; what is final stays |
| API keys (`services/api_keys.py`, `routers/api_keys.py`, `deps.py`, `security.py`) | keys and their status | create, rotate, revoke, authenticate | rotation and revocation racing use | a revoked key stays revoked |
| Sessions of dashboard users (`services/auth.py`, `routers/auth.py`) | refresh allowlist in Redis, with an expiry per token | login, refresh, logout | logout racing refresh; a life kept twice, by two clocks; clients that log out with the wrong token | a logout is final for refreshes; no session is forgotten early; tokens end with their use or the logout |
| Rate limit (`rate_limit.py`) | a counter with an expiry in Redis | hit | INCR and EXPIRE are two commands; two windows meet | windows end; bursts are bounded |
| Audit (`services/audit.py`, `deps.py`, `routers/audit.py`) | append-only events | record with the change, or for a denial by a transaction of its own | a second connection while the first is held | answered denials and changes are on the trail; requests end |
| Tenants, applicants (`services/tenants.py`, `services/applicants.py`) | rows | create, get | none | tenant scoping |
| OCR providers, redaction, storage, hashing, health, metrics, middleware, logging, seed | - | pure I/O or glue | - | - |
| Web front end (`src/apps/web`) | - | shows what the API returns | - | - |

Only two of the seven event types are ever emitted: `case.created`
(`routers/cases.py:51`) and `risk.decided` (`risk/engine.py:265`).

## 2. Plan

Modules, the most important behaviour first. Components compose through their
shared state: events and jobs (1), signals (2, 4, 6), consent (2, 3), API keys (5).

| | Module | Subject | State |
|---|---|---|---|
| 1 | `WebhookDelivery`, abstract specification `DeliveryContract` | emission to delivery, replay | checked, proved |
| 2 | `RiskPolicy` (pure), `CaseRisk` | the policy; concurrent recomputation | checked, proved |
| 3 | `ConsentLedger` | notices, receipts, the submission gate | checked, proved |
| 4 | `DocumentPipeline` | upload, OCR, redaction, duplicates | checked, proved |
| 5 | `ClientRequests` | idempotent creation of cases, API keys | checked, proved |
| 6 | `VerificationCallbacks` | provider callbacks on event loops | checked, proved |
| 7 | `Sessions` | login, refresh allowlist and its expiry, logout | checked, proved |
| 8 | `RetentionRequests` | read, check and write of a status without a lock | checked, proved |
| 9 | `RateLimit` | INCR and EXPIRE | checked, proved |
| 10 | `AuditTrail` | events of changes and denials; threads and connections | checked, proved |

Compositions: `CaseRisk` takes its policy from `RiskPolicy` (`MCCaseRisk`).
`MCEvidence` instantiates what a decision rests on (documents, callbacks, policy,
trail) and `MCAccess` what stands between a client and the data (keys, creation,
consent, sessions, rate limit, erasure); their components share no variable but
the time, so a behaviour moves one of them, the `subject`, while the others rest.

Left: the rotation of a webhook's signing secret; creation of a case together
with the delivery of its event (the jobs of a request that loses the race for
its key); callbacks and documents as refinements of the reporters of `CaseRisk`.

## 3. Modules

All modules speak of one tenant: every query filters by it. Names, texts,
hashes and payloads are model values, and an identifier stands for its row. A
transaction is modelled at the grain at which others can interfere: an action
per statement whose result is used later, per flush that locks, and for the
commit. Operators marked "Mutant" in a comment belong to no specification: each
is a plausible slip in the definition after it, and the property it is listed
with in `PROJECT.json` fails when the one replaces the other.

**WebhookDelivery** (`services/events.py`, `services/webhooks.py`,
`tasks/webhooks.py`, `queue.py`, `cli/replay_webhooks.py`). `row` and `logged`
are the committed tables, `jobs` the RQ registry, `request`, `worker` and
`replay` what each process holds in memory. `EmitFlush` selects the active
subscribed endpoints, `EmitEnqueue` schedules the jobs before `EmitCommit`;
`WorkerLoad`, `WorkerPost`, `WorkerRecord` (commit) and `WorkerReschedule` are
`process_delivery` and the job around it; `ReplaySelect`, `ReplayReset` and
`ReplayCommit` the replay command, `TestPost` and `TestCommit` the test send.
`Flushed` is the ORM's rule that only changed columns are written. The delay before
the first dispatch is a guard of `Take` for the jobs of a request, which
`LateCommits` lifts for a commit that takes longer. The jobs of a replay have no
delay: they may start before its commit. `early`, which no action reads, records
the deliveries of which a worker loaded the row while an uncommitted replay held
it. Backoff times are left out.

**DeliveryContract** promises: the deliveries of an event appear together, an
open one stays open until the receiver has acknowledged it or it is given up,
delivered is final, only an operator reopens one that was given up, and none
stays open for ever, unless the job of its replay overtook the replay (`raced`):
that one gets its attempt, and may then stay open. `WebhookDelivery!Contract` is
the mapping: `Abstract(d)` reads the state from the row and from `early`.

**RiskPolicy** (`risk/engine.py` `decide`, `risk/policies/v1.py`,
`risk/calculators.py`) is the policy as functions of a list of signals; its state
machine grows a list, one signal at a time. **CaseRisk**
(`risk/engine.py` `recompute_case_risk`, `services/risk.py`,
`services/review.py`) takes `Verdict` and `Calculated` as constants.
`recompute[r]` is what a recomputation has loaded, listed, selected and flushed;
`Load`, `List`, `Select`, `FlushDecision`, `QueueTask` and `Commit` are its
statements. Callbacks, uploads, consents and submissions commit between them.
`overlapped`, which no action reads, records that a recomputation was started
while another was at work: the code promises more of those that run in turn.

**ConsentLedger** (`services/consent.py`, `routers/consent.py`,
`routers/notices.py`, the gate in `services/cases.py`). Admin requests check or
load, select siblings and commit; a receipt is built with its timestamp and
committed later; a submission passes the gate and commits later. `clock` is the
shared time: the clocks of the replicas are taken to agree.

**DocumentPipeline** (`routers/documents.py`, `services/documents.py`,
`tasks/documents.py`). `Store`, `Flush`, the three commits and `Enqueue` are the
upload, `Take`, `Extract`, `Redact` and `CommitProcessed` the worker.
`HandlerFails` and `WorkerFails` happen between any two of them. `earlier`, which
no action reads, keeps the rows that were committed when an upload began.

**VerificationCallbacks** (`services/verification.py`,
`verification/persona.py`, `routers/verification.py`). A callback request holds
its event loop from `Receive` to `Return`; `Flush` waits for the row lock on the
loop; `RaiseSignal` is `add_signal`; `Close` needs the loop to be free, and only
then does a thread `Commit`. `Changes` and `Written` are the columns that differ
from the row as loaded. `Raise` is an exception, `Crash` the death of a replica.

**ClientRequests** (`deps.py`, `services/api_keys.py`, `routers/api_keys.py`,
`services/idempotency.py`, `routers/cases.py`). `Check` reads the key, `Admit`
flushes `last_used_at` and so locks its row; `Lookup`, `Create`, `Store` and
`Commit` are `create_case`; `Respond` is the answer, which leaves after the commit
of `get_db` or, once the handler is done, before it, and may be lost. Creation,
rotation and revocation load, flush and commit.

**Sessions** (`services/auth.py`, `routers/auth.py`, `security.py`). `Mint`,
`StoreJti` and `Answer` are the login after the password check; `expiry` is the
allowlist. `Check` is a refresh up to the allowlist and `Issue` the rest of it;
`Receive`, `Revoke` and `LogoutEnds` the logout. `now` is the time of Redis, and
`Clocks` what a replica may show, ahead of it by `MaxSkew` at most; `Decodes` is
PyJWT's test of `iat` and `exp`. `Sendable` is what clients send to log out: the
API takes any token, and the dashboard sends none. Redis is taken to keep what it
acknowledged.

**RateLimit** (`rate_limit.py`) is one counter: `Incr`, `Expire` and `Decide` of
each call, with `Die` between them. `Live` is the expiry of a Redis key, which
INCR keeps.

**RetentionRequests** (`services/retention.py`, `routers/retention.py`) is one
request. `Load` reads and checks, `Flush` takes the row lock, `Commit` writes the
columns that were set (`Written`) and the audit event.

**AuditTrail** (`services/audit.py`, `deps.py`, `db.py`). A request moves through
stages, some on one of the framework's threads, some with a connection of the
pool, one (`recording`) with two. `Timeout` is the pool's; the framework closes
`get_db` on a thread of another limiter. The sizes (40 threads; 5 and 10
connections, 30 s) are the defaults of Starlette and SQLAlchemy, which the code
does not change.

## 4. Runs

| Run | Instance | Shows |
|---|---|---|
| `webhook_storm` | 1 event, 2 endpoints, 2 workers, 2 replay commands, 2 attempts, 2 replays, 1 crash; requests may commit after their jobs start | delivered means acknowledged; nothing leaves for a rolled-back event; counters never run ahead of what was sent |
| `webhook_fair` | 1 event and 1 test event, 2 endpoints, 2 workers, 1 replay whose jobs start at any time, no crash, requests commit within the delay; fairness | one carrier per open delivery, attempts bounded, delivered is final, everything settles, the contract is kept; for a delivery whose replay was overtaken by its job: one attempt above the limit and then no carrier |
| `webhook_crash` | 1 event and 1 test event, 1 endpoint, 1 crash | *violation*: a delivery is stranded |
| `webhook_replay` | the same, 1 replay, no crash | *violation*: a delivery is open above the limit, and nobody works on it |
| `case_risk` | 2 recomputers, 3 recomputations, 1 report, 2 changes | overlapping or in turn: never harsher than the record, review has a task, duplicates bounded by the processes; in turn: one decision and one task, reasons, decision and case agree, decisions only harden |
| `risk_torn_decision` | 2 recomputers, 3 recomputations, 2 reports, 1 change | *violation*: verdict and reasons of different computations |
| `consent_two_active` | 2 versions, 2 admins, 4 changes | *violation*: two notices active |
| `evidence` | documents: 3 (one file of two applicants, a PDF), 2 uploads at a time, 2 workers, 2 failures; callbacks: 2 steps, 6 bodies, 2 requests on 2 replicas; policy: all lists of up to 4 of the 10 signals; trail: a change, two forbidden requests, a failing login, 2 threads, 2 connections | objects stored, copies of what was on record flagged; signals match what was applied, once per step; the decision changes exactly at the thresholds, order and repetition of signals do not matter, more never soften; answered denials and changes are on the trail; all of it ends |
| `duplicate_race` | documents as above | *violation*: two uploads of one file that overlap are both left unflagged |
| `verification_freeze` | callbacks as above, both requests on one replica | *violation*: a callback never ends |
| `access` | creation: 2 API keys, 1 user, 2 idempotency keys, 3 requests with 1 admin, or 1 with 2; notices: 2 versions, 1 admin, 4 changes; receipts: 1 notice, 2 recorders, 1 submitter, 4 receipts; sessions: 1 login, 2 refreshes, 2 logouts, life 2, skew 1; rate limit: 5 calls, limit 2, window 2, 4 ticks; retention: 3 admins, 4 updates | one case per key, answers hold whether they come before or after the commit, conflicts take two credentials, revoked for good; one active notice, withdrawals stand, no intake without receipts; a logout is final, no session forgotten early; windows end, bursts bounded; nothing erased unapproved |
| `session_end` | 1 login, 1 refresh, 1 logout that sends an empty token | *violation*: a token that was used, and whose client logged out, still refreshes |

Why the bounds suffice for the questions asked: the races are between two
processes over one row, so there are two of each process that races and, where
it matters, a third request that comes late. Two attempts are one retry and one
limit; two replays overlap or follow each other. Two recomputations overlap, and a
third meets what they left. Four receipts let a party
withdraw, grant and withdraw again around another's commit. One token suffices
for the sessions, since no step reads another's entry. Five calls with a limit
of two fill two windows and exceed them. Two denials that hold two connections
wait for each other. Four signals reach
every rule and every threshold of the policy together with a repetition, and
two rows of one code. The theorems below have no such bounds.

Two reductions are made by hand in `MCAccess`. Receipts need of the notices only
that there is one, so notices change in one subject and receipts follow a single
creation in the other; and three clients meet one administrator of keys or one
of them two, because a client's steps touch the administrators' only through the
row of its key. Calls of the rate limit are numbered in the order they begin.

Deadlock is not checked: requests, receipts, reports and replays are bounded
inputs, and the system stops when they are used up. A process that waits for
ever shows in the liveness properties instead.

**Fairness.** `webhook_fair` assumes that a worker, a replay command and an
emitting request that have work go on (`WF` on their steps): RQ workers poll,
processes run, PostgreSQL and the receiver's HTTP timeout answer. Its instance
takes the dispatch delay of a request as long enough, which the code relies on
(`services/events.py:64-65`) and does not ensure; see section 5. `evidence` and
`verification_freeze` assume the same of uploads, workers and each callback
(`Go`: the loop runs what is ready, threads and the database answer), and of each
request of `AuditTrail` (`Proceed`). There weak fairness is enough although
threads and connections are contended: the requests are finitely many, one that
has what it needs goes on, and one that waits for a connection times out. Nothing
is assumed of the environment: clients need not call, providers need not report, no
failure need happen, and no particular outcome of a post or an extraction is fair.

## 5. Findings

Each is a run that ends in a violation.

- `webhook_crash`: a worker that dies during an attempt, or after its commit and
  before it enqueues the next one, leaves the delivery pending or retrying with
  no job. RQ has no retry configured and the replay command selects only failed
  deliveries. `docs/security.md:104` says "No silent drops".
- `webhook_replay`: the replay command enqueues each job without delay inside its
  loop and commits once after it (`cli/replay_webhooks.py:24-27`), so a job may
  start first. Its worker loads the row that was given up, counts attempt
  `MaxAttempts + 1`, finds the limit reached, and leaves `status` unwritten since
  it loaded `failed`: after the replay's commit the row is pending, above the
  limit, without a job, and not failed, so no further replay selects it.
  `services/webhooks.py:4-5` says that failures retry "up to WEBHOOK_MAX_ATTEMPTS,
  then terminate as failed". One replay and no death are enough.
- `risk_torn_decision`: two overlapping recomputations flush different columns
  of one decision row; its verdict does not follow from its reasons.
- `consent_two_active`: two overlapping activations each see no active sibling;
  `models/consent.py:27` says activation is exclusive.
- `duplicate_race`: the duplicate check reads committed rows in the transaction
  that inserts its own. Of two uploads that overlap neither sees the other;
  `services/documents.py:5-6` says a duplicate across applicants raises a signal.
- `verification_freeze`: a second callback of a step blocks the event loop on
  the row lock of the first, whose commit waits for that loop. No lock timeout is
  set; the replica stops serving until the liveness probe of
  `infra/k8s/api-deployment.yaml` has it restarted, which rolls both back.
- `session_end`, two findings in one behaviour. A refresh leaves its token as it is
  on the allowlist (`routers/auth.py:92`), where `docs/security.md:50` claims
  rotation and `:123` "Refresh tokens cannot be reused". And `logout` of
  `src/apps/web/lib/api.ts` posts an empty refresh token, which
  `routers/auth.py:118-120` answers with 204 without deleting anything;
  `tests/security/test_auth.py:76` says "Logout revokes the refresh token." The
  property asks only that a token is dead after both.

Seen while modelling, without a run of their own:

- Overlapping first recomputations insert two decisions and two open review tasks,
  although `services/review.py:22-23` says that repeated recomputes "do not pile up
  duplicate tasks": `NoDuplicates` fails as soon as two overlap, and `NoPileUp`
  bounds the damage. Two steps of one case can both insert the same signal code.
  A calculated signal outlives its cause.
- A request that commits later than the dispatch delay: its job finds no row, ends
  as "missing", and the delivery stays pending without a job (`NothingStranded`
  fails with `LateCommits`, without a crash or a replay). A test event that fails
  stays in `retrying` without a job. Two replay commands race on the attempt counter.
- An approval and a rejection of one retention request that overlap are both
  committed (`services/retention.py:80` reads and checks without a lock), and what
  was rejected can then be completed: `FinalStays` of `RetentionRequests` holds with
  one administrator only. A completion still takes an approval (`ErasureApproved`).
- A case whose answer left before a commit that then fails does not exist, and the
  repeated request gets another one. `AnswersHold` says exactly which answers agree.
- Consent that is withdrawn between the gate of a submission and its commit does not
  stop it: `SubmittedWithReceipts` asks for a grant, at some time before.
- A redaction that raises, or an `enqueue` that fails, leaves the document in
  `processing`. Neither `dead_letter` nor `recompute_case_risk_task` is ever used.
- A retry that overlaps the first request with another credential gets an error
  instead of the first case. Requests with one API key run one after the other,
  because of the lock on `last_used_at`. A request that read its key before the
  revocation commits after it.
- Overlapping callbacks of one step can leave a row whose status, payload and
  hash come from different callbacks; a late callback overwrites a newer status;
  a callback that comes before the step's commit is refused.
- `routers/consent.py:133-136` says that document upload reuses the consent
  gate, which it does not.
- A logout with an access token, or at a replica whose clock is behind that of the
  one that minted the token, answers 204 and revokes nothing. An access token
  outlives the logout until it expires, as does one that a refresh in progress
  issues; a refresh does not look at `deleted_at`. The entry of a login whose
  transaction fails stays on the allowlist.
- Two windows of the rate limit that meet admit up to one call less than twice the
  limit in the time of one. A counter whose first call died before EXPIRE is never
  reset, and once past the limit refuses its address and e-mail for good.
- A denial takes a second connection while it holds its first, so enough of them
  at once wait for each other until the pool times out: then they are answered with
  500 and leave no event, although `deps.py:140-141` says it is persisted. Threads that
  wait for connections are not there for other requests.

## 6. Proofs

Every theorem is for all values of the constants under the named assumptions of
its module (`ConstantsAssumption`, `BoundsAssumption`: shapes and bounds in
`Nat`). Finiteness is assumed of the recomputers in `PileUpBounded` only, where
it is what is counted.

| Module | Theorems | Argument |
|---|---|---|
| `WebhookDelivery_proofs` | `TypeCorrect`, `AckedCorrect`, `NoPhantom`, `AccountsCorrect`; with `TameReplays` (none is run; or one at a time is, and no process dies) `NoDoubleWork`, `AttemptsBounded`, `DeliveredFinal`, `ContractImplemented`; in a `CalmEnvironment` (also without deaths and late commits of requests) `CustodyCorrect` | `AckInv` adds that what a worker is about to write was acknowledged. `AccountsInv` counts what `AttemptsAccounted` leaves out: the posts of a delivery that some worker or test request has made and not recorded (`Posted`, `Tested`) also fit into `sent`, and what a worker has loaded was on record. `CustodyInv` says where the one carrier of a delivery can be at each moment, and that a worker's copy is the row, or, once a replayed job was early, the row that was given up: that tells what the flush of changed columns writes. |
| `CaseRisk_proofs` | `TypeCorrect`, `NeverTooHarsh`, `ReasonsKept` (the reasons of decisions are on record), `NothingUnreviewed`, `PileUpBounded`, `Consistent`, `DecisionsHarden`; `PolicyInForce` | `EvidenceInv`: what a recomputation holds in memory is on record or will be with its own commit, and records only grow. `ReviewInv`: a task exists whenever a flushed verdict needs one. `PileInv`: rows plus the recomputations that are about to insert one are no more than the processes, and so for tasks. `SerialInv`: until two overlap at most one is at work, and its memory agrees with the rows. |
| `RiskPolicy_proofs` | `SignalsHarden`, `SignalsDecide`, `ThresholdsAgree`, `VerdictHardens`; `CodesDecide` and `AddedSignalsHarden` of the list that grows | See below. |
| `ConsentLedger_proofs` | `TypeCorrect`, `WithdrawalHonoured`, `NoIntakeWithoutReceipts`; with one admin request at a time `ExclusiveAlone` | `LedgerInv`: timestamps are unique and not ahead of the clock, and a withdrawal that must stand is newer than every grant of its party, committed or still in memory. `GateInv` covers a submission that passed the gate; `AdminInv` the siblings in memory. |
| `DocumentPipeline_proofs` | `TypeCorrect`, `NamedObjectsStored`, `CopiesFlagged` | `HandInv`: a request works on a stored object, a worker on a visible row, and after its redaction on a stored image. `LookedInv`: rows are not deleted, so what was committed when an upload began is seen by its look for duplicates, whatever other uploads do meanwhile. |
| `Sessions_proofs` | `TypeCorrect`, `LogoutIsFinal`, `SessionsLast` | `LogoutInv`: a logout is of a token that was handed out, and only a login that has not answered writes an entry, so a deleted one stays deleted. `HeldInv`: a token ends at most skew and life after its minting, hence at most the skew after its entry. `HeldUsable` leaves out used tokens, of which the documents promise the opposite (`session_end`). |
| `Evidence_proofs`, on `VerificationCallbacks` | `TypeCorrect`, `SignalsExact`, `RaisedOncePerStep`, `RepeatAddsNothing` | `LockExclusive`: one transaction holds a step's row. `HashApplied`: a stored hash is that of an applied body, so a callback that finds nothing to change, and takes no lock, has nothing to raise either (`Covered`). `RaisedFresh`, `RaisedFirst`: an uncommitted signal is of a code that no applied callback of its step had. |
| on `AuditTrail` | `AllAudited` | `TrailInv`: a denial about to be answered has its event, and a change is never on the way of a denial. |
| on the composition | `EvidenceImplements`, `EvidenceTypes`, `NamedObjectsStored`, `AllAudited`, `CopiesFlagged`, `CodesDecide`, `ThresholdsAgree`, `AddedSignalsHarden` | `EvidenceStep`: a step of the composition is a step of each component or leaves it alone. |
| `Access_proofs`, on `ClientRequests` | `TypeCorrect`, `OneCase`, `ConflictCorrect`, `RevocationFinal`, `AnswersCorrect` | `RequestInv`: a key names its case and a look-up stays true; `AnswerInv`: an answer is what the handler returned, before the commit or after it. `RowsHeldOnce` and `ConflictInv`: the row of an API key is locked from before the look-up to the commit, so a case that the look-up missed was created with another credential. `AdminInv`: a key about to be inserted is absent, so it is never a revoked one. |
| on `RateLimit` | `WindowsEnd`, `BurstsBounded` | `RateInv` knows a window by the call that opened it: two openers are a window apart, and two calls with the same number have an opener between them. So at most one opener falls into a stretch as long as a window: the calls before it have different numbers from 2 to the limit, it and those after it from 1 to the limit, which makes `2 * Limit - 1`. |
| on `RetentionRequests` | `NoErasureUnapproved`; with one administrator (`Alone`) `FinalForOne` | `ApprovalInv`: `approved_by` is never set back, and is set before a completion is even loaded. `TableInv`: with one administrator what was loaded is still a transition of the row. |
| on the composition | `AccessImplements`, `AccessTypes`, `WithdrawalHonoured`, `NoIntakeWithoutReceipts`, `LogoutIsFinal`, `SessionsLast`, `WindowsEnd`, `BurstsBounded`, `NoErasureUnapproved`; with one editor of notices `ExclusiveAlone` | `AccessStep`, as above. |

`ReviewQueued`, `SignalsMatchTrail`, `OneCasePerKey`, `AttemptsAccounted` and the
like are not inductive: each speaks of committed rows, while the danger is in
what an open transaction or a worker has read or sent. The strengthenings all say
how that memory relates to the rows now.

**Compositions.** The runs `evidence` and `access` check specifications that
instantiate several components. `EvidenceImplements` and `AccessImplements` prove
that each of these implements its components' specifications, so the theorems
about a component hold of the composition, under the names of the run's
properties. A component whose proofs are in a module of their own is instantiated
a second time there (`DocumentProofs`, `PolicyProofs`, `ConsentProofs`,
`UserProofs`); lemmas `Same...` show that the two instances are the same formulas.

**Replays.** Without the replay command, workers that die and jobs that overtake
their request's commit can only strand a delivery (`webhook_crash`), never attempt
it twice at a time, beyond the limit or after it was delivered. With the command
two things are needed: it runs once at a time, and nothing dies, for else a failed
row keeps a job and a later replay adds another. That its jobs overtake its commit
is not excluded, since it is their normal timing. The theorems say what it costs: a
delivery in `early` gets one attempt above the limit, and may then be open with no
carrier (`webhook_replay`); it still has at most one carrier, and delivered is final.

**The policy.** `Score` sums the weights of the codes on record with
`MapThenSumSet`, a recursive function that picks elements with CHOOSE. What it
computes is proved by induction on the size of the set, in the form of a least
counterexample: `WFMin` of the library takes a set, not an operator, and so can
be cited (`LeastNatural`, `Induction`). `TotalRecursion` unfolds the sum at any
element, `TotalRemove` makes it independent of the order, `TotalInjection`
compares two sums along an injection. From there, lists with more codes sum to
more (`SumGrows`), are no less severe (`SeverityGrows`) and meet every rule that
the shorter one meets (`SignalsHarden`), and lists with the same signals give the
same result (`SignalsDecide`), the order of reasons included since it is a
function of the set. `CaseRisk` assumes of its policy that it decides and never
gets milder when a code is added (`MonotoneAssumption`); `PolicyInForce` proves
both of the policy in force, whichever of its codes are in use.

Only model-checked: liveness (`EventuallySettled`, `EventuallyProcessed`,
`Answered`, `EveryRequestEnds`) and with it the fairness of `ContractKept`, whose
safety part is `ContractImplemented`. Where a theorem has a hypothesis (tame
replays, a calm environment, one editor of notices, one administrator of a
retention request), or a property an exception (`early`, `overlapped`, `earlier`),
no more is claimed. `webhook_crash`, `webhook_replay`, `risk_torn_decision`,
`consent_two_active` and `duplicate_race` show what happens outside; section 5
describes it for late commits and for retention.

## 7. Not modelled

- The rotation of a webhook's signing secret: one more row update, which an
  attempt reads once when it signs. Deliveries in flight carry the old signature.
- Loss by Redis of what it acknowledged (a failover): sessions would end early,
  jobs would be lost like those of a dead worker.
- Tenants and applicants: single insertions and reads.
- The arithmetic of dates: a birthday is an action of `ConsentLedger`, the day on
  which it falls is not computed.
- What OCR, redaction, hashing and the S3 client compute, and the endpoints that
  only read: pure functions and I/O. The models take their outcomes as inputs.
- Wiring, logging, metrics, health probes, seed data, the migrations, and the web
  front end beyond its logout: they keep no state that the protocols depend on.
  The unique constraints of the migrations, and the absence of others, are in the
  models.
