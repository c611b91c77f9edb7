------------------------------- MODULE CaseRisk -------------------------------
(***************************************************************************)
(* The risk of one onboarding case: the signals on record, the decision    *)
(* that recompute_case_risk derives from them, the review task it queues    *)
(* and the state and score it writes to the case.  A recomputation is one   *)
(* transaction of several statements; consent records, provider callbacks,  *)
(* uploads, submissions and other recomputations commit between them.       *)
(*                                                                         *)
(* Rows become visible when their transaction commits.  An UPDATE writes    *)
(* only the columns that differ from those loaded and holds the row until   *)
(* the commit.  No unique constraint protects signals, decisions or tasks.  *)
(***************************************************************************)
EXTENDS Naturals, FiniteSets

CONSTANTS
  Code,           \* signal codes
  Reports,        \* sets of codes that one callback or upload adds
  Party,          \* who may consent: the applicant and a guardian
  Required,       \* whose consent the case needs
  Calculated,     \* run_calculators: consents and velocity to codes
  Verdict,        \* decide, not blocked: set of codes to decision
  Recomputers,    \* API handlers and workers that recompute the risk
  Reporters,      \* callbacks and uploads that add signals
  MaxRecomputes,  \* bound: recomputations
  MaxReports,     \* bound: callbacks and uploads
  MaxChanges      \* bound: consent records and submissions

Facts == [consent : SUBSET Party, velocity : BOOLEAN]

\* Decisions by strength, the mildest first.
Strength == [v \in {"approved", "manual_review", "rejected", "blocked_dependency"} |->
               CASE v = "approved" -> 0 [] v = "manual_review" -> 1
                 [] v = "rejected" -> 2 [] OTHER -> 3]

ASSUME ConstantsAssumption ==
  /\ Reports \subseteq SUBSET Code
  /\ Required \subseteq Party
  /\ Calculated \in [Facts -> SUBSET Code]
  /\ Verdict \in [SUBSET Code -> {"approved", "manual_review", "rejected"}]
  /\ MaxRecomputes \in Nat
  /\ MaxReports \in Nat
  /\ MaxChanges \in Nat

\* The policy never gets milder when a signal is added.
ASSUME MonotoneAssumption ==
  \A S, T \in SUBSET Code :
    S \subseteq T => Strength[Verdict[S]] <= Strength[Verdict[T]]

VARIABLES
  facts,      \* consents in force, and whether the applicant has many cases
  blocked,    \* has a verification step status dependency_not_configured?
  signals,    \* risk_signals: number of rows of each code
  decisions,  \* risk_decisions, by the start of the transaction that made them
  tasks,      \* review_tasks that are open
  case,       \* state of the case, is it scored, and from which codes
  recompute,  \* what each recomputation has read and flushed so far
  reporter,   \* the codes each callback or upload is about to insert
  submit,     \* the case state a submission in progress has read
  started,    \* recomputations so far
  reports,    \* callbacks and uploads so far
  changes,    \* consent records and submissions so far
  overlapped  \* history: has one been started while another was at work?

vars == <<facts, blocked, signals, decisions, tasks, case, recompute,
          reporter, submit, started, reports, changes, overlapped>>

-----------------------------------------------------------------------------
CaseState == {"created", "documents_pending", "in_review", "approved", "rejected"}

Decided == {"approved", "manual_review", "rejected", "blocked_dependency"}

\* codes stands for the columns computed from the signals: score, severity,
\* reason_codes and explanation.
Decision == [verdict : Decided, codes : SUBSET Code]

NoDecision == [verdict |-> "none", codes |-> {}]

Case == [state : CaseState, scored : BOOLEAN, codes : SUBSET Code]

Order == 1 .. MaxRecomputes

\* n: its place in the order of starts; seen, calc, stuck: the case row, the
\* calculated codes and the blocking steps as loaded; own: codes it inserted;
\* codes: codes it listed; row: the decision row it selected (0: none) and
\* was, that row's columns then; task: did it insert a task?
Running == [pc : {"loaded", "listed", "selected", "flushed", "queued"},
            n : Order, seen : Case, calc : SUBSET Code, stuck : BOOLEAN,
            own : SUBSET Code, codes : SUBSET Code,
            row : 0 .. MaxRecomputes, was : Decision \cup {NoDecision},
            task : BOOLEAN]

Idle == [pc |-> "idle"]

NoSubmit == "none"

Recorded == {c \in Code : signals[c] > 0}

Rows == {k \in Order : decisions[k] # NoDecision}

\* add_signal, deduplicating: the codes for which a row is inserted.
Missing(codes) == {c \in codes : signals[c] = 0}

Insert(codes) == [c \in Code |-> IF c \in codes THEN signals[c] + 1 ELSE signals[c]]

Init ==
  /\ facts = [consent |-> {}, velocity |-> FALSE]
  /\ blocked = FALSE
  /\ signals = [c \in Code |-> 0]
  /\ decisions = [k \in Order |-> NoDecision]
  /\ tasks = 0
  /\ case = [state |-> "created", scored |-> FALSE, codes |-> {}]
  /\ recompute = [r \in Recomputers |-> Idle]
  /\ reporter = [p \in Reporters |-> {}]
  /\ submit = NoSubmit
  /\ started = 0
  /\ reports = 0
  /\ changes = 0
  /\ overlapped = FALSE

-----------------------------------------------------------------------------
(* What other requests change.                                             *)

\* A consent record: the latest one of a party is in force.  Withdrawals of a
\* guardian's consent are recorded through the same route as grants.
RecordConsent(p, granted) ==
  /\ changes < MaxChanges
  /\ facts' = [facts EXCEPT !.consent = IF granted THEN @ \cup {p} ELSE @ \ {p}]
  /\ changes' = changes + 1
  /\ UNCHANGED <<blocked, signals, decisions, tasks, case, recompute, reporter,
                 submit, started, reports, overlapped>>

\* The applicant gets a third case; cases are not deleted.
ThirdCase ==
  /\ ~facts.velocity
  /\ facts' = [facts EXCEPT !.velocity = TRUE]
  /\ UNCHANGED <<blocked, signals, decisions, tasks, case, recompute, reporter,
                 submit, started, reports, changes, overlapped>>

\* An upload while OCR is not configured; its step keeps that status.
OcrNotConfigured ==
  /\ ~blocked
  /\ blocked' = TRUE
  /\ UNCHANGED <<facts, signals, decisions, tasks, case, recompute, reporter,
                 submit, started, reports, changes, overlapped>>

\* A callback or an upload looks which of its codes are on record ...
ReportSelect(p, codes) ==
  /\ reporter[p] = {}
  /\ reports < MaxReports
  /\ Missing(codes) # {}
  /\ reporter' = [reporter EXCEPT ![p] = Missing(codes)]
  /\ reports' = reports + 1
  /\ UNCHANGED <<facts, blocked, signals, decisions, tasks, case, recompute,
                 submit, started, changes, overlapped>>

\* ... and inserts the others.
ReportCommit(p) ==
  /\ reporter[p] # {}
  /\ signals' = Insert(reporter[p])
  /\ reporter' = [reporter EXCEPT ![p] = {}]
  /\ UNCHANGED <<facts, blocked, decisions, tasks, case, recompute, submit,
                 started, reports, changes, overlapped>>

\* submit_case: the gate, on the case as loaded ...
SubmitCheck ==
  /\ submit = NoSubmit
  /\ changes < MaxChanges
  /\ Required \subseteq facts.consent
  /\ submit' = case.state
  /\ changes' = changes + 1
  /\ UNCHANGED <<facts, blocked, signals, decisions, tasks, case, recompute,
                 reporter, started, reports, overlapped>>

\* ... and the new state, whatever the state is now; a case that was loaded as
\* submitted is not written.
SubmitCommit ==
  /\ submit # NoSubmit
  /\ case' = IF submit = "documents_pending" THEN case
             ELSE [case EXCEPT !.state = "documents_pending"]
  /\ submit' = NoSubmit
  /\ UNCHANGED <<facts, blocked, signals, decisions, tasks, recompute, reporter,
                 started, reports, changes, overlapped>>

-----------------------------------------------------------------------------
(* recompute_case_risk.                                                    *)

\* The case, its consents and steps are loaded and the calculators run.
Load(r) ==
  /\ recompute[r] = Idle
  /\ started < MaxRecomputes
  /\ started' = started + 1
  /\ recompute' = [recompute EXCEPT ![r] =
       [pc |-> "loaded", n |-> started + 1, seen |-> case,
        calc |-> Calculated[facts], stuck |-> blocked, own |-> {}, codes |-> {},
        row |-> 0, was |-> NoDecision, task |-> FALSE]]
  /\ overlapped' = (overlapped \/ \E s \in Recomputers \ {r} : recompute[s] # Idle)
  /\ UNCHANGED <<facts, blocked, signals, decisions, tasks, case, reporter,
                 submit, reports, changes>>

\* Mutant: the calculated signals are listed but never inserted.
ListUnsaved(r) ==
  /\ recompute[r].pc = "loaded"
  /\ recompute' = [recompute EXCEPT ![r] =
       [@ EXCEPT !.pc = "listed", !.own = {},
                 !.codes = Recorded \cup recompute[r].calc]]
  /\ UNCHANGED <<facts, blocked, signals, decisions, tasks, case, reporter,
                 submit, started, reports, changes, overlapped>>

\* Mutant: only the calculated signals are considered.
ListCalculated(r) ==
  /\ recompute[r].pc = "loaded"
  /\ recompute' = [recompute EXCEPT ![r] =
       [@ EXCEPT !.pc = "listed", !.own = Missing(recompute[r].calc),
                 !.codes = recompute[r].calc]]
  /\ UNCHANGED <<facts, blocked, signals, decisions, tasks, case, reporter,
                 submit, started, reports, changes, overlapped>>

\* add_signal for the calculated codes, then list_signals.
List(r) ==
  /\ recompute[r].pc = "loaded"
  /\ recompute' = [recompute EXCEPT ![r] =
       [@ EXCEPT !.pc = "listed", !.own = Missing(recompute[r].calc),
                 !.codes = Recorded \cup recompute[r].calc]]
  /\ UNCHANGED <<facts, blocked, signals, decisions, tasks, case, reporter,
                 submit, started, reports, changes, overlapped>>

\* Mutant: the decision is inserted without looking for one.
SelectNone(r) ==
  /\ recompute[r].pc = "listed"
  /\ recompute' = [recompute EXCEPT ![r] = [@ EXCEPT !.pc = "selected"]]
  /\ UNCHANGED <<facts, blocked, signals, decisions, tasks, case, reporter,
                 submit, started, reports, changes, overlapped>>

\* The decision of this policy version: some row, if there is one.
Select(r) ==
  /\ recompute[r].pc = "listed"
  /\ \E k \in IF Rows = {} THEN {0} ELSE Rows :
       recompute' = [recompute EXCEPT ![r] =
         [@ EXCEPT !.pc = "selected", !.row = k,
                   !.was = IF k = 0 THEN NoDecision ELSE decisions[k]]]
  /\ UNCHANGED <<facts, blocked, signals, decisions, tasks, case, reporter,
                 submit, started, reports, changes, overlapped>>

\* What it decides from what it read.
Outcome(r) ==
  [verdict |-> IF recompute[r].stuck THEN "blocked_dependency"
               ELSE Verdict[recompute[r].codes],
   codes |-> recompute[r].codes]

\* Does another recomputation hold the decision row it has to update?
RowLocked(r) ==
  /\ recompute[r].row # 0
  /\ Outcome(r) # recompute[r].was
  /\ \E s \in Recomputers \ {r} :
       /\ recompute[s].pc \in {"flushed", "queued"}
       /\ recompute[s].row = recompute[r].row
       /\ Outcome(s) # recompute[s].was

FlushDecision(r) ==
  /\ recompute[r].pc = "selected"
  /\ ~RowLocked(r)
  /\ recompute' = [recompute EXCEPT ![r] = [@ EXCEPT !.pc = "flushed"]]
  /\ UNCHANGED <<facts, blocked, signals, decisions, tasks, case, reporter,
                 submit, started, reports, changes, overlapped>>

\* Mutant: a task is queued with a new decision only.
QueueTaskOnce(r) ==
  /\ recompute[r].pc = "flushed"
  /\ recompute' = [recompute EXCEPT ![r] =
       [@ EXCEPT !.pc = "queued",
                 !.task = /\ Outcome(r).verdict = "manual_review"
                          /\ recompute[r].row = 0]]
  /\ UNCHANGED <<facts, blocked, signals, decisions, tasks, case, reporter,
                 submit, started, reports, changes, overlapped>>

\* ensure_open_review_task.
QueueTask(r) ==
  /\ recompute[r].pc = "flushed"
  /\ recompute' = [recompute EXCEPT ![r] =
       [@ EXCEPT !.pc = "queued",
                 !.task = /\ Outcome(r).verdict = "manual_review"
                          /\ tasks = 0]]
  /\ UNCHANGED <<facts, blocked, signals, decisions, tasks, case, reporter,
                 submit, started, reports, changes, overlapped>>

\* The columns that differ from those loaded, applied to a decision row.
Updated(current, was, new) ==
  [verdict |-> IF new.verdict # was.verdict THEN new.verdict ELSE current.verdict,
   codes   |-> IF new.codes # was.codes THEN new.codes ELSE current.codes]

\* Mutant: a blocked case keeps what it showed before, score included.
CaseAfterUnlessBlocked(r) ==
  LET new == Outcome(r)
      shown == CASE new.verdict = "approved" -> "approved"
                 [] new.verdict = "rejected" -> "rejected"
                 [] new.verdict = "manual_review" -> "in_review"
                 [] OTHER -> recompute[r].seen.state
  IN  IF new.verdict = "blocked_dependency" THEN case
      ELSE [state |-> IF shown # recompute[r].seen.state THEN shown ELSE case.state,
            scored |-> TRUE, codes |-> new.codes]

\* Mutant: the decision itself is written as the state of the case.
CaseAfterUnmapped(r) ==
  [state |-> Outcome(r).verdict, scored |-> TRUE, codes |-> Outcome(r).codes]

\* _apply_case_state and the score: a blocked case keeps its state.
CaseAfter(r) ==
  LET seen == recompute[r].seen
      new == Outcome(r)
      shown == CASE new.verdict = "approved" -> "approved"
                 [] new.verdict = "rejected" -> "rejected"
                 [] new.verdict = "manual_review" -> "in_review"
                 [] OTHER -> seen.state
  IN  [state |-> IF shown # seen.state THEN shown ELSE case.state,
       scored |-> TRUE,
       codes |-> IF seen.scored /\ new.codes = seen.codes THEN case.codes
                                                          ELSE new.codes]

\* The case is flushed, the event emitted and the transaction committed.
Commit(r) ==
  /\ recompute[r].pc = "queued"
  /\ signals' = Insert(recompute[r].own)
  /\ decisions' = IF recompute[r].row = 0
                  THEN [decisions EXCEPT ![recompute[r].n] = Outcome(r)]
                  ELSE [decisions EXCEPT ![recompute[r].row] =
                          Updated(@, recompute[r].was, Outcome(r))]
  /\ tasks' = IF recompute[r].task THEN tasks + 1 ELSE tasks
  /\ case' = CaseAfter(r)
  /\ recompute' = [recompute EXCEPT ![r] = Idle]
  /\ UNCHANGED <<facts, blocked, reporter, submit, started, reports, changes,
                 overlapped>>

\* An exception or a crash: nothing of it remains.
Rollback(r) ==
  /\ recompute[r] # Idle
  /\ recompute' = [recompute EXCEPT ![r] = Idle]
  /\ UNCHANGED <<facts, blocked, signals, decisions, tasks, case, reporter,
                 submit, started, reports, changes, overlapped>>

-----------------------------------------------------------------------------
RecomputeStep(r) ==
  Load(r) \/ List(r) \/ Select(r) \/ FlushDecision(r) \/ QueueTask(r)
  \/ Commit(r) \/ Rollback(r)

Next ==
  \/ \E p \in Party, granted \in BOOLEAN : RecordConsent(p, granted)
  \/ ThirdCase
  \/ OcrNotConfigured
  \/ \E p \in Reporters :
       (\E codes \in Reports : ReportSelect(p, codes)) \/ ReportCommit(p)
  \/ SubmitCheck
  \/ SubmitCommit
  \/ \E r \in Recomputers : RecomputeStep(r)

Spec == Init /\ [][Next]_vars

-----------------------------------------------------------------------------
(* Properties.                                                             *)

\* Every variable has the shape the tables and handlers give it.
TypeOK ==
  /\ facts \in Facts
  /\ blocked \in BOOLEAN
  /\ signals \in [Code -> Nat]
  /\ decisions \in [Order -> Decision \cup {NoDecision}]
  /\ tasks \in Nat
  /\ case \in Case
  /\ recompute \in [Recomputers -> {Idle} \cup Running]
  /\ reporter \in [Reporters -> SUBSET Code]
  /\ submit \in CaseState \cup {NoSubmit}
  /\ started \in 0 .. MaxRecomputes
  /\ reports \in Nat
  /\ changes \in Nat
  /\ overlapped \in BOOLEAN

\* Neither a decision nor the case is ever harsher than the signals on record
\* justify, however recomputations interleave, roll back or overwrite columns
\* of each other.
Justified ==
  /\ \A k \in Rows : decisions[k].verdict # "blocked_dependency" =>
       Strength[decisions[k].verdict] <= Strength[Verdict[Recorded]]
  /\ case.state = "rejected" => Verdict[Recorded] = "rejected"
  /\ case.state = "in_review" => Verdict[Recorded] # "approved"

\* The reasons of a decision, and those behind the score of the case, are on
\* record as signals.
ReasonsOnRecord ==
  /\ \A k \in Rows : decisions[k].codes \subseteq Recorded
  /\ case.codes \subseteq Recorded

\* What needs a human has a task: a decision for manual review and a case in
\* review are never without one.
ReviewQueued ==
  \/ tasks > 0
  \/ /\ \A k \in Rows : decisions[k].verdict # "manual_review"
     /\ case.state # "in_review"

\* What the comments say of select-then-insert: a case has one decision row
\* under a policy version, and recomputing does not pile up open review tasks.
NoDuplicates == Cardinality(Rows) <= 1 /\ tasks <= 1

\* Recomputations in turn keep to that; once some overlap, there are no more
\* decision rows or open tasks than recomputations that can run at a time,
\* however many follow.
NoPileUp ==
  /\ overlapped \/ NoDuplicates
  /\ Cardinality(Rows) <= Cardinality(Recomputers)
  /\ tasks <= Cardinality(Recomputers)

\* A decision is the one its reasons give, unless a dependency blocks it.
DecisionReproducible ==
  \A k \in Rows : decisions[k].verdict # "blocked_dependency" =>
    decisions[k].verdict = Verdict[decisions[k].codes]

\* The case shows its decision: the score's reasons are the decision's, and
\* the state is that of the decision unless the case was submitted again.
CaseShowsDecision ==
  \A k \in Rows :
    /\ case.codes = decisions[k].codes
    /\ decisions[k].verdict = "approved" =>
         case.state \in {"approved", "documents_pending"}
    /\ decisions[k].verdict = "manual_review" =>
         case.state \in {"in_review", "documents_pending"}
    /\ decisions[k].verdict = "rejected" =>
         case.state \in {"rejected", "documents_pending"}

\* While recomputations run in turn reasons, decision and case agree, although
\* submissions write the case while a recomputation holds an older copy.  The
\* unconditional form is violated.
ConsistentInTurn == overlapped \/ (DecisionReproducible /\ CaseShowsDecision)

\* Decisions only harden: no recomputation turns one into a milder one.
Hardened ==
  \A k \in Rows :
    k \in Rows' /\ Strength[decisions[k].verdict] <= Strength[decisions'[k].verdict]

\* Recomputations in turn never soften a decision, though consents granted in
\* between remove what its signals were calculated from.
HardenInTurn == [][overlapped \/ Hardened]_vars

===============================================================================
