---------------------------- MODULE CaseRisk_proofs ----------------------------
(***************************************************************************)
(* Proofs about CaseRisk, for every set of codes, every monotone policy    *)
(* and any number of recomputations.  Last, that the policy in force is one *)
(* of those policies.                                                      *)
(***************************************************************************)
EXTENDS MCCaseRisk, FiniteSetTheorems, TLAPS

-----------------------------------------------------------------------------
(* What the operators return.                                              *)

LEMMA Strengths ==
  /\ Strength["approved"] = 0
  /\ Strength["manual_review"] = 1
  /\ Strength["rejected"] = 2
  /\ Strength["blocked_dependency"] = 3
BY DEF Strength

LEMMA RunningNotIdle == \A x \in Running : x # Idle
BY DEF Running, Idle

\* One more flushed statement: a recomputation only moves on.
LEMMA MovedOn ==
  ASSUME NEW x \in Running,
         NEW pc \in {"selected", "flushed", "queued"}
  PROVE  /\ [x EXCEPT !.pc = pc] \in Running
         /\ [x EXCEPT !.pc = pc] # Idle
         /\ [x EXCEPT !.pc = pc].pc = pc
         /\ [x EXCEPT !.pc = pc].seen = x.seen
         /\ [x EXCEPT !.pc = pc].stuck = x.stuck
         /\ [x EXCEPT !.pc = pc].own = x.own
         /\ [x EXCEPT !.pc = pc].codes = x.codes
         /\ [x EXCEPT !.pc = pc].row = x.row
         /\ [x EXCEPT !.pc = pc].was = x.was
         /\ [x EXCEPT !.pc = pc].task = x.task
BY DEF Running, Idle

\* The three statements that leave more than a new place.
Listed(x, own, codes) == [x EXCEPT !.pc = "listed", !.own = own, !.codes = codes]

Selected(x, row, was) == [x EXCEPT !.pc = "selected", !.row = row, !.was = was]

Queued(x, task) == [x EXCEPT !.pc = "queued", !.task = task]

LEMMA ListedForm ==
  ASSUME NEW x \in Running, NEW own \in SUBSET Code, NEW codes \in SUBSET Code,
         NEW y, y = Listed(x, own, codes)
  PROVE  /\ y \in Running /\ y # Idle
         /\ y.pc = "listed" /\ y.own = own /\ y.codes = codes
         /\ y.seen = x.seen /\ y.stuck = x.stuck /\ y.row = x.row
         /\ y.was = x.was /\ y.task = x.task
<1>1. y = [pc |-> "listed", n |-> x.n, seen |-> x.seen, calc |-> x.calc,
           stuck |-> x.stuck, own |-> own, codes |-> codes, row |-> x.row,
           was |-> x.was, task |-> x.task]
  BY DEF Running, Listed
<1> QED BY <1>1 DEF Running, Idle

LEMMA SelectedForm ==
  ASSUME NEW x \in Running, NEW row \in 0 .. MaxRecomputes,
         NEW was \in Decision \cup {NoDecision},
         NEW y, y = Selected(x, row, was)
  PROVE  /\ y \in Running /\ y # Idle
         /\ y.pc = "selected" /\ y.row = row /\ y.was = was
         /\ y.seen = x.seen /\ y.stuck = x.stuck /\ y.own = x.own
         /\ y.codes = x.codes /\ y.task = x.task
<1>1. y = [pc |-> "selected", n |-> x.n, seen |-> x.seen, calc |-> x.calc,
           stuck |-> x.stuck, own |-> x.own, codes |-> x.codes, row |-> row,
           was |-> was, task |-> x.task]
  BY DEF Running, Selected
<1> QED BY <1>1 DEF Running, Idle

LEMMA QueuedForm ==
  ASSUME NEW x \in Running, NEW task \in BOOLEAN,
         NEW y, y = Queued(x, task)
  PROVE  /\ y \in Running /\ y # Idle
         /\ y.pc = "queued" /\ y.task = task
         /\ y.seen = x.seen /\ y.stuck = x.stuck /\ y.own = x.own
         /\ y.codes = x.codes /\ y.row = x.row /\ y.was = x.was
<1>1. y = [pc |-> "queued", n |-> x.n, seen |-> x.seen, calc |-> x.calc,
           stuck |-> x.stuck, own |-> x.own, codes |-> x.codes, row |-> x.row,
           was |-> x.was, task |-> task]
  BY DEF Running, Queued
<1> QED BY <1>1 DEF Running, Idle

LEMMA OutcomeType ==
  ASSUME NEW r \in Recomputers, recompute[r] \in Running
  PROVE  /\ Outcome(r) \in Decision
         /\ Outcome(r).codes = recompute[r].codes
         /\ Outcome(r).verdict = IF recompute[r].stuck THEN "blocked_dependency"
                                 ELSE Verdict[recompute[r].codes]
BY ConstantsAssumption DEF Outcome, Decision, Decided, Running

\* The update keeps a decision a decision; each column is old or new.
LEMMA UpdatedType ==
  ASSUME NEW current \in Decision, NEW was, NEW new \in Decision
  PROVE  /\ Updated(current, was, new) \in Decision
         /\ Updated(current, was, new).verdict \in {current.verdict, new.verdict}
         /\ Updated(current, was, new).codes \in {current.codes, new.codes}
         /\ current = was => Updated(current, was, new) = new
BY DEF Updated, Decision

LEMMA NoDecisionIsNone == \A d \in Decision : d # NoDecision
BY DEF Decision, NoDecision, Decided

\* What a recomputation writes to the case comes from its decision, or stays.
LEMMA CaseAfterForm ==
  ASSUME NEW r \in Recomputers, recompute[r] \in Running, case \in Case
  PROVE  /\ CaseAfter(r) \in Case
         /\ CaseAfter(r).codes \in {case.codes, Outcome(r).codes}
         /\ CaseAfter(r).state = "rejected" =>
              case.state = "rejected" \/ Outcome(r).verdict = "rejected"
         /\ CaseAfter(r).state = "in_review" =>
              case.state = "in_review" \/ Outcome(r).verdict = "manual_review"
<1>1. /\ recompute[r].seen \in Case /\ Outcome(r) \in Decision
  BY OutcomeType DEF Running
<1> QED BY <1>1 DEF CaseAfter, Case, CaseState, Decision, Decided

-----------------------------------------------------------------------------
(* Types.                                                                  *)

\* A selected row stays in the table: decisions are not deleted.
RowsExist ==
  \A r \in Recomputers :
    recompute[r] # Idle /\ recompute[r].row # 0 => recompute[r].row \in Rows

TypeInv == TypeOK /\ RowsExist

\* What is on record.
LEMMA RecordedType == Recorded \in SUBSET Code
BY DEF Recorded

LEMMA InsertType ==
  ASSUME signals \in [Code -> Nat], NEW codes \in SUBSET Code
  PROVE  Insert(codes) \in [Code -> Nat]
BY DEF Insert

\* A recomputation that is under way, by its counter.
LEMMA RunningType ==
  ASSUME TypeOK, NEW r \in Recomputers, recompute[r] # Idle
  PROVE  recompute[r] \in Running
BY DEF TypeOK

\* The row that a commit writes, and that no other changes.
LEMMA CommitRows ==
  ASSUME TypeInv, NEW r \in Recomputers, Commit(r)
  PROVE  /\ recompute[r] \in Running /\ Outcome(r) \in Decision
         /\ \E k \in Order :
              /\ k = IF recompute[r].row = 0 THEN recompute[r].n ELSE recompute[r].row
              /\ decisions' = [decisions EXCEPT ![k] = decisions'[k]]
              /\ decisions'[k] \in Decision
              /\ recompute[r].row = 0 => decisions'[k] = Outcome(r)
              /\ recompute[r].row # 0 =>
                   /\ k \in Rows
                   /\ decisions[k] \in Decision
                   /\ decisions'[k] = Updated(decisions[k], recompute[r].was, Outcome(r))
<1>1. recompute[r] \in Running /\ recompute[r] # Idle
  BY DEF Commit, TypeInv, TypeOK, Idle
<1>2. Outcome(r) \in Decision
  BY <1>1, OutcomeType
<1>3. decisions \in [Order -> Decision \cup {NoDecision}]
  BY DEF TypeInv, TypeOK
<1>4. CASE recompute[r].row = 0
  <2>1. recompute[r].n \in Order
    BY <1>1 DEF Running
  <2>2. decisions' = [decisions EXCEPT ![recompute[r].n] = Outcome(r)]
    BY <1>4 DEF Commit
  <2> QED BY <1>1, <1>2, <1>3, <1>4, <2>1, <2>2
<1>5. CASE recompute[r].row # 0
  <2>1. recompute[r].row \in Rows
    BY <1>1, <1>5 DEF TypeInv, RowsExist
  <2>2. recompute[r].row \in Order /\ decisions[recompute[r].row] \in Decision
    BY <1>3, <2>1 DEF Rows
  <2>3. decisions' = [decisions EXCEPT ![recompute[r].row] =
           Updated(decisions[recompute[r].row], recompute[r].was, Outcome(r))]
    BY <1>5 DEF Commit
  <2>4. Updated(decisions[recompute[r].row], recompute[r].was, Outcome(r)) \in Decision
    BY <1>2, <2>2, UpdatedType
  <2> QED BY <1>1, <1>2, <1>3, <1>5, <2>1, <2>2, <2>3, <2>4
<1> QED BY <1>4, <1>5

LEMMA TypeInvStep == TypeInv /\ [Next]_vars => TypeInv'
<1> SUFFICES ASSUME TypeInv, [Next]_vars PROVE TypeInv'
  OBVIOUS
<1> USE ConstantsAssumption
<1>a. TypeOK
  BY DEF TypeInv
<1>1. ASSUME NEW p \in Party, NEW granted \in BOOLEAN, RecordConsent(p, granted)
      PROVE  TypeInv'
  <2>1. facts' \in Facts
    BY <1>a, <1>1 DEF RecordConsent, TypeOK, Facts
  <2> QED BY <1>1, <2>1 DEF RecordConsent, TypeInv, TypeOK, RowsExist, Rows
<1>2. ASSUME ThirdCase PROVE TypeInv'
  <2>1. facts' \in Facts
    BY <1>a, <1>2 DEF ThirdCase, TypeOK, Facts
  <2> QED BY <1>2, <2>1 DEF ThirdCase, TypeInv, TypeOK, RowsExist, Rows
<1>3. ASSUME OcrNotConfigured PROVE TypeInv'
  BY <1>3 DEF OcrNotConfigured, TypeInv, TypeOK, RowsExist, Rows
<1>4. ASSUME NEW p \in Reporters, NEW codes \in Reports, ReportSelect(p, codes)
      PROVE  TypeInv'
  <2>1. Missing(codes) \in SUBSET Code
    BY DEF Missing
  <2> QED BY <1>4, <2>1 DEF ReportSelect, TypeInv, TypeOK, RowsExist, Rows
<1>5. ASSUME NEW p \in Reporters, ReportCommit(p) PROVE TypeInv'
  <2>1. Insert(reporter[p]) \in [Code -> Nat]
    BY <1>a, InsertType DEF TypeOK
  <2> QED BY <1>5, <2>1 DEF ReportCommit, TypeInv, TypeOK, RowsExist, Rows
<1>6. ASSUME SubmitCheck PROVE TypeInv'
  BY <1>6 DEF SubmitCheck, TypeInv, TypeOK, RowsExist, Rows, Case
<1>7. ASSUME SubmitCommit PROVE TypeInv'
  <2>1. case' \in Case
    BY <1>a, <1>7 DEF SubmitCommit, TypeOK, Case, CaseState
  <2> QED BY <1>7, <2>1 DEF SubmitCommit, TypeInv, TypeOK, RowsExist, Rows
<1>8. ASSUME NEW r \in Recomputers, Load(r) PROVE TypeInv'
  <2> DEFINE x == [pc |-> "loaded", n |-> started + 1, seen |-> case,
                   calc |-> Calculated[facts], stuck |-> blocked, own |-> {},
                   codes |-> {}, row |-> 0, was |-> NoDecision, task |-> FALSE]
  <2>1. x \in Running
    <3>1. started + 1 \in Order /\ Calculated[facts] \in SUBSET Code
      BY <1>a, <1>8 DEF Load, TypeOK, Order
    <3> QED BY <1>a, <3>1 DEF Running, TypeOK
  <2>2. recompute' = [recompute EXCEPT ![r] = x]
    BY <1>8 DEF Load
  <2>3. x.row = 0
    OBVIOUS
  <2> HIDE DEF x
  <2>4. recompute' \in [Recomputers -> {Idle} \cup Running]
    BY <1>a, <2>1, <2>2 DEF TypeOK
  <2>5. started' \in 0 .. MaxRecomputes
    BY <1>a, <1>8 DEF Load, TypeOK
  <2>6. RowsExist'
    BY <1>8, <1>a, <2>2, <2>3 DEF Load, TypeInv, TypeOK, RowsExist, Rows
  <2> QED BY <1>8, <2>4, <2>5, <2>6 DEF Load, TypeInv, TypeOK
<1>9. ASSUME NEW r \in Recomputers, List(r) PROVE TypeInv'
  <2>1. recompute[r] \in Running /\ recompute[r] # Idle
    BY <1>9, <1>a DEF List, TypeOK, Idle
  <2>2. Missing(recompute[r].calc) \in SUBSET Code
    BY <2>1 DEF Missing, Running
  <2>3. Recorded \cup recompute[r].calc \in SUBSET Code
    BY <2>1, RecordedType DEF Running
  <2>4. PICK y : y = Listed(recompute[r], Missing(recompute[r].calc),
                           Recorded \cup recompute[r].calc)
    OBVIOUS
  <2>5. recompute' = [recompute EXCEPT ![r] = y]
    BY <1>9, <2>4 DEF List, Listed
  <2>6. y \in Running /\ y.row = recompute[r].row
    BY <2>1, <2>2, <2>3, <2>4, ListedForm
  <2>7. recompute' \in [Recomputers -> {Idle} \cup Running]
    BY <1>a, <2>5, <2>6 DEF TypeOK
  <2>8. RowsExist'
    BY <1>9, <1>a, <2>1, <2>5, <2>6 DEF List, TypeInv, TypeOK, RowsExist, Rows
  <2> QED BY <1>9, <2>7, <2>8 DEF List, TypeInv, TypeOK
<1>10. ASSUME NEW r \in Recomputers, Select(r) PROVE TypeInv'
  <2>1. recompute[r] \in Running /\ recompute[r] # Idle
    BY <1>10, <1>a DEF Select, TypeOK, Idle
  <2>2. PICK k \in IF Rows = {} THEN {0} ELSE Rows :
          recompute' = [recompute EXCEPT ![r] =
            [recompute[r] EXCEPT !.pc = "selected", !.row = k,
               !.was = IF k = 0 THEN NoDecision ELSE decisions[k]]]
    BY <1>10 DEF Select
  <2>3. k \in 0 .. MaxRecomputes /\ (k # 0 => k \in Rows)
    BY DEF Rows, Order
  <2>4. PICK was : was = IF k = 0 THEN NoDecision ELSE decisions[k]
    OBVIOUS
  <2>5. was \in Decision \cup {NoDecision}
    BY <1>a, <2>3, <2>4 DEF TypeOK, Rows
  <2>6. PICK y : y = Selected(recompute[r], k, was)
    OBVIOUS
  <2>7. recompute' = [recompute EXCEPT ![r] = y]
    BY <2>2, <2>4, <2>6 DEF Selected
  <2>8. y \in Running /\ y.row = k
    BY <2>1, <2>3, <2>5, <2>6, SelectedForm
  <2>9. recompute' \in [Recomputers -> {Idle} \cup Running]
    BY <1>a, <2>7, <2>8 DEF TypeOK
  <2>10. RowsExist'
    BY <1>10, <1>a, <2>3, <2>7, <2>8 DEF Select, TypeInv, TypeOK, RowsExist, Rows
  <2> QED BY <1>10, <2>9, <2>10 DEF Select, TypeInv, TypeOK
<1>11. ASSUME NEW r \in Recomputers, FlushDecision(r) PROVE TypeInv'
  <2>1. recompute[r] \in Running /\ recompute[r] # Idle
    BY <1>11, <1>a DEF FlushDecision, TypeOK, Idle
  <2>2. PICK y : y = [recompute[r] EXCEPT !.pc = "flushed"]
    OBVIOUS
  <2>3. recompute' = [recompute EXCEPT ![r] = y]
    BY <1>11, <2>2 DEF FlushDecision
  <2>4. y \in Running /\ y.row = recompute[r].row
    BY <2>1, <2>2, MovedOn
  <2>5. recompute' \in [Recomputers -> {Idle} \cup Running]
    BY <1>a, <2>3, <2>4 DEF TypeOK
  <2>6. RowsExist'
    BY <1>11, <1>a, <2>1, <2>3, <2>4 DEF FlushDecision, TypeInv, TypeOK, RowsExist, Rows
  <2> QED BY <1>11, <2>5, <2>6 DEF FlushDecision, TypeInv, TypeOK
<1>12. ASSUME NEW r \in Recomputers, QueueTask(r) PROVE TypeInv'
  <2>1. recompute[r] \in Running /\ recompute[r] # Idle
    BY <1>12, <1>a DEF QueueTask, TypeOK, Idle
  <2>2. PICK task \in BOOLEAN :
          task = (Outcome(r).verdict = "manual_review" /\ tasks = 0)
    OBVIOUS
  <2>3. PICK y : y = Queued(recompute[r], task)
    OBVIOUS
  <2>4. recompute' = [recompute EXCEPT ![r] = y]
    BY <1>12, <2>2, <2>3 DEF QueueTask, Queued
  <2>5. y \in Running /\ y.row = recompute[r].row
    BY <2>1, <2>3, QueuedForm
  <2>6. recompute' \in [Recomputers -> {Idle} \cup Running]
    BY <1>a, <2>4, <2>5 DEF TypeOK
  <2>7. RowsExist'
    BY <1>12, <1>a, <2>1, <2>4, <2>5 DEF QueueTask, TypeInv, TypeOK, RowsExist, Rows
  <2> QED BY <1>12, <2>6, <2>7 DEF QueueTask, TypeInv, TypeOK
<1>13. ASSUME NEW r \in Recomputers, Commit(r) PROVE TypeInv'
  <2>1. PICK k \in Order :
          /\ decisions' = [decisions EXCEPT ![k] = decisions'[k]]
          /\ decisions'[k] \in Decision
    BY <1>13, CommitRows
  <2>2. recompute[r] \in Running
    BY <1>13, CommitRows
  <2>3. decisions' \in [Order -> Decision \cup {NoDecision}]
    BY <1>a, <2>1 DEF TypeOK
  <2>4. signals' \in [Code -> Nat]
    BY <1>13, <1>a, <2>2, InsertType DEF Commit, TypeOK, Running
  <2>5. case' \in Case
    BY <1>13, <1>a, <2>2, CaseAfterForm DEF Commit, TypeOK
  <2>6. recompute' \in [Recomputers -> {Idle} \cup Running] /\ tasks' \in Nat
    BY <1>13, <1>a DEF Commit, TypeOK
  <2>7. Rows \subseteq Rows'
    BY <1>a, <2>1, NoDecisionIsNone DEF Rows, TypeOK
  <2>8. RowsExist'
    BY <1>13, <1>a, <2>7 DEF Commit, TypeInv, TypeOK, RowsExist
  <2> QED BY <1>13, <2>3, <2>4, <2>5, <2>6, <2>8 DEF Commit, TypeInv, TypeOK
<1>14. ASSUME NEW r \in Recomputers, Rollback(r) PROVE TypeInv'
  <2>1. recompute' \in [Recomputers -> {Idle} \cup Running]
    BY <1>14, <1>a DEF Rollback, TypeOK
  <2>2. RowsExist'
    BY <1>14, <1>a DEF Rollback, TypeInv, TypeOK, RowsExist, Rows
  <2> QED BY <1>14, <2>1, <2>2 DEF Rollback, TypeInv, TypeOK
<1>15. CASE UNCHANGED vars
  BY <1>15 DEF vars, TypeInv, TypeOK, RowsExist, Rows
<1> QED BY <1>1, <1>2, <1>3, <1>4, <1>5, <1>6, <1>7, <1>8, <1>9, <1>10, <1>11,
           <1>12, <1>13, <1>14, <1>15 DEF Next, RecomputeStep

LEMMA TypeInvInit == Init => TypeInv
<1> SUFFICES ASSUME Init PROVE TypeInv
  OBVIOUS
<1>1. RowsExist
  BY DEF Init, RowsExist
<1>2. facts \in Facts /\ blocked \in BOOLEAN /\ case \in Case
  BY DEF Init, Facts, Case, CaseState
<1>3. /\ signals \in [Code -> Nat]
      /\ decisions \in [Order -> Decision \cup {NoDecision}]
      /\ tasks \in Nat
  BY DEF Init
<1>4. /\ recompute \in [Recomputers -> {Idle} \cup Running]
      /\ reporter \in [Reporters -> SUBSET Code]
      /\ submit \in CaseState \cup {NoSubmit}
  BY DEF Init
<1>5. started \in 0 .. MaxRecomputes /\ reports \in Nat /\ changes \in Nat
  BY ConstantsAssumption DEF Init
<1>6. overlapped \in BOOLEAN
  BY DEF Init
<1> QED BY <1>1, <1>2, <1>3, <1>4, <1>5, <1>6 DEF TypeInv, TypeOK

LEMMA TypeInvAlways == Spec => []TypeInv
BY TypeInvInit, TypeInvStep, PTL DEF Spec

\* Every step keeps every variable in its type; a recomputation updates rows
\* that exist, so what it writes is a decision.
THEOREM TypeCorrect == Spec => []TypeOK
<1>1. TypeInv => TypeOK
  BY DEF TypeInv
<1> QED BY <1>1, TypeInvAlways, PTL

-----------------------------------------------------------------------------
(* Decisions and cases rest on the signals on record.                      *)

\* What a recomputation has listed is on record or among its own insertions.
ListedOnRecord ==
  \A r \in Recomputers :
    recompute[r].pc \in {"listed", "selected", "flushed", "queued"} =>
      recompute[r].codes \subseteq Recorded \cup recompute[r].own

EvidenceInv == TypeInv /\ Justified /\ ReasonsOnRecord /\ ListedOnRecord

\* The policy is monotone and has three outcomes.
LEMMA Harder ==
  ASSUME NEW S \in SUBSET Code, NEW T \in SUBSET Code, S \subseteq T
  PROVE  /\ Strength[Verdict[S]] <= Strength[Verdict[T]]
         /\ Verdict[S] \in {"approved", "manual_review", "rejected"}
         /\ Strength[Verdict[S]] \in 0 .. 2
         /\ Verdict[S] = "rejected" => Verdict[T] = "rejected"
         /\ Verdict[S] # "approved" => Verdict[T] # "approved"
<1>1. /\ Verdict[S] \in {"approved", "manual_review", "rejected"}
      /\ Verdict[T] \in {"approved", "manual_review", "rejected"}
  BY ConstantsAssumption
<1>2. Strength[Verdict[S]] <= Strength[Verdict[T]]
  BY MonotoneAssumption
<1> QED BY <1>1, <1>2, Strengths

\* Inserting rows adds their codes to those on record.
LEMMA InsertRecords ==
  ASSUME TypeOK, NEW codes \in SUBSET Code, signals' = Insert(codes)
  PROVE  Recorded' = Recorded \cup codes
BY DEF TypeOK, Insert, Recorded

\* Signals are never removed.
LEMMA RecordedGrows ==
  ASSUME TypeInv, [Next]_vars
  PROVE  Recorded \subseteq Recorded'
<1>a. TypeOK
  BY DEF TypeInv
<1>1. CASE signals' = signals
  BY <1>1 DEF Recorded
<1>2. ASSUME NEW p \in Reporters, ReportCommit(p) PROVE Recorded \subseteq Recorded'
  BY <1>a, <1>2, InsertRecords DEF ReportCommit, TypeOK
<1>3. ASSUME NEW r \in Recomputers, Commit(r) PROVE Recorded \subseteq Recorded'
  <2>1. recompute[r].own \in SUBSET Code
    BY <1>3, CommitRows DEF Running
  <2> QED BY <1>a, <1>3, <2>1, InsertRecords DEF Commit
<1> QED
  BY <1>1, <1>2, <1>3
     DEF Next, RecomputeStep, vars, RecordConsent, ThirdCase, OcrNotConfigured,
         ReportSelect, SubmitCheck, SubmitCommit, Load, List, Select,
         FlushDecision, QueueTask, Rollback

\* New signals, and a submission of the case, leave the rest justified.
LEMMA EvidenceKept ==
  ASSUME TypeOK, Justified, ReasonsOnRecord, Recorded \subseteq Recorded',
         decisions' = decisions, case'.codes = case.codes,
         case'.state = case.state \/ case'.state = "documents_pending"
  PROVE  Justified' /\ ReasonsOnRecord'
<1>1. Recorded \in SUBSET Code /\ Recorded' \in SUBSET Code
  BY DEF Recorded
<1>2. Rows' = Rows
  BY DEF Rows
<1>3. ReasonsOnRecord'
  BY <1>2 DEF ReasonsOnRecord
<1>4. /\ Strength[Verdict[Recorded]] <= Strength[Verdict[Recorded']]
      /\ Strength[Verdict[Recorded]] \in 0 .. 2
      /\ Strength[Verdict[Recorded']] \in 0 .. 2
      /\ Verdict[Recorded] = "rejected" => Verdict[Recorded'] = "rejected"
      /\ Verdict[Recorded] # "approved" => Verdict[Recorded'] # "approved"
  BY <1>1, Harder
<1>5. ASSUME NEW k \in Rows', decisions'[k].verdict # "blocked_dependency"
      PROVE  Strength[decisions'[k].verdict] <= Strength[Verdict[Recorded']]
  <2>1. Strength[decisions[k].verdict] <= Strength[Verdict[Recorded]]
    BY <1>2, <1>5 DEF Justified
  <2>2. decisions[k].verdict \in Decided
    BY <1>2, <1>5 DEF TypeOK, Rows, Decision
  <2>3. Strength[decisions[k].verdict] \in 0 .. 3
    BY <2>2, Strengths DEF Decided
  <2> QED BY <1>4, <2>1, <2>3
<1>6. /\ case'.state = "rejected" => Verdict[Recorded'] = "rejected"
      /\ case'.state = "in_review" => Verdict[Recorded'] # "approved"
  BY <1>4 DEF Justified
<1> QED BY <1>3, <1>5, <1>6 DEF Justified

\* The commit of a recomputation leaves only what its codes justify, and puts
\* these on record.
LEMMA EvidenceCommitted ==
  ASSUME EvidenceInv, NEW r \in Recomputers, Commit(r), TypeInv'
  PROVE  Justified' /\ ReasonsOnRecord'
<1>a. TypeOK /\ TypeInv /\ Justified /\ ReasonsOnRecord
  BY DEF EvidenceInv, TypeInv
<1>1. /\ recompute[r] \in Running /\ Outcome(r) \in Decision
      /\ recompute[r].pc = "queued"
  BY <1>a, CommitRows DEF Commit
<1>2. recompute[r].codes \in SUBSET Code /\ recompute[r].own \in SUBSET Code
  BY <1>1 DEF Running
<1>3. Recorded' = Recorded \cup recompute[r].own
  BY <1>a, <1>2, InsertRecords DEF Commit
<1>4. recompute[r].codes \subseteq Recorded'
  BY <1>1, <1>3 DEF EvidenceInv, ListedOnRecord
<1>5. Recorded \in SUBSET Code /\ Recorded' \in SUBSET Code
  BY DEF Recorded
<1>6. /\ Strength[Verdict[Recorded]] <= Strength[Verdict[Recorded']]
      /\ Strength[Verdict[Recorded]] \in 0 .. 2
      /\ Strength[Verdict[Recorded']] \in 0 .. 2
      /\ Verdict[Recorded] = "rejected" => Verdict[Recorded'] = "rejected"
      /\ Verdict[Recorded] # "approved" => Verdict[Recorded'] # "approved"
  BY <1>3, <1>5, Harder
<1>7. /\ Strength[Verdict[recompute[r].codes]] <= Strength[Verdict[Recorded']]
      /\ Verdict[recompute[r].codes] = "rejected" => Verdict[Recorded'] = "rejected"
      /\ Verdict[recompute[r].codes] # "approved" => Verdict[Recorded'] # "approved"
  BY <1>2, <1>4, <1>5, Harder
<1>8. /\ Outcome(r).codes = recompute[r].codes
      /\ Outcome(r).verdict # "blocked_dependency" =>
           Outcome(r).verdict = Verdict[recompute[r].codes]
  BY <1>1, OutcomeType
<1>9. PICK n \in Order :
        /\ n = IF recompute[r].row = 0 THEN recompute[r].n ELSE recompute[r].row
        /\ decisions' = [decisions EXCEPT ![n] = decisions'[n]]
        /\ decisions'[n] \in Decision
        /\ recompute[r].row = 0 => decisions'[n] = Outcome(r)
        /\ recompute[r].row # 0 =>
             /\ n \in Rows
             /\ decisions[n] \in Decision
             /\ decisions'[n] = Updated(decisions[n], recompute[r].was, Outcome(r))
  BY <1>a, CommitRows
<1>10. ASSUME NEW k \in Rows'
       PROVE  /\ decisions'[k].codes \subseteq Recorded'
              /\ decisions'[k].verdict # "blocked_dependency" =>
                   Strength[decisions'[k].verdict] <= Strength[Verdict[Recorded']]
  <2>1. ASSUME k \in Rows
        PROVE  /\ decisions[k].codes \subseteq Recorded'
               /\ decisions[k].verdict # "blocked_dependency" =>
                    Strength[decisions[k].verdict] <= Strength[Verdict[Recorded']]
    <3>1. decisions[k].codes \subseteq Recorded
      BY <1>a, <2>1 DEF ReasonsOnRecord
    <3>2. decisions[k].verdict # "blocked_dependency" =>
            Strength[decisions[k].verdict] <= Strength[Verdict[Recorded]]
      BY <1>a, <2>1 DEF Justified
    <3>3. decisions[k].verdict \in Decided
      BY <1>a, <2>1 DEF TypeOK, Rows, Decision
    <3>4. Strength[decisions[k].verdict] \in 0 .. 3
      BY <3>3, Strengths DEF Decided
    <3> QED BY <1>3, <1>6, <3>1, <3>2, <3>4
  <2>2. CASE k # n
    <3>1. decisions'[k] = decisions[k] /\ k \in Rows
      BY <1>9, <1>a, <2>2 DEF Rows, TypeOK
    <3> QED BY <2>1, <3>1
  <2>3. CASE k = n /\ recompute[r].row = 0
    BY <1>4, <1>7, <1>8, <1>9, <2>3
  <2>4. CASE k = n /\ recompute[r].row # 0
    <3>1. /\ decisions'[k].verdict \in {decisions[k].verdict, Outcome(r).verdict}
          /\ decisions'[k].codes \in {decisions[k].codes, Outcome(r).codes}
          /\ k \in Rows
      BY <1>1, <1>9, <2>4, UpdatedType
    <3> QED BY <1>4, <1>7, <1>8, <2>1, <3>1
  <2> QED BY <2>2, <2>3, <2>4
<1>11. /\ case'.codes \subseteq Recorded'
       /\ case'.state = "rejected" => Verdict[Recorded'] = "rejected"
       /\ case'.state = "in_review" => Verdict[Recorded'] # "approved"
  <2>1. case' = CaseAfter(r)
    BY DEF Commit
  <2>2. /\ CaseAfter(r).codes \in {case.codes, Outcome(r).codes}
        /\ CaseAfter(r).state = "rejected" =>
             case.state = "rejected" \/ Outcome(r).verdict = "rejected"
        /\ CaseAfter(r).state = "in_review" =>
             case.state = "in_review" \/ Outcome(r).verdict = "manual_review"
    BY <1>1, <1>a, CaseAfterForm DEF TypeOK
  <2>3. case.codes \subseteq Recorded
    BY <1>a DEF ReasonsOnRecord
  <2>4. /\ case.state = "rejected" => Verdict[Recorded] = "rejected"
        /\ case.state = "in_review" => Verdict[Recorded] # "approved"
    BY <1>a DEF Justified
  <2> QED BY <1>3, <1>4, <1>6, <1>7, <1>8, <2>1, <2>2, <2>3, <2>4
<1> QED BY <1>10, <1>11 DEF Justified, ReasonsOnRecord

LEMMA EvidenceInvStep == EvidenceInv /\ [Next]_vars => EvidenceInv'
<1> SUFFICES ASSUME EvidenceInv, [Next]_vars PROVE EvidenceInv'
  OBVIOUS
<1>a. TypeOK /\ TypeInv /\ Justified /\ ReasonsOnRecord /\ ListedOnRecord
  BY DEF EvidenceInv, TypeInv
<1>b. TypeInv' /\ Recorded \subseteq Recorded'
  BY <1>a, TypeInvStep, RecordedGrows
\* A step that leaves the recomputations alone, or moves one of them.
<1>c. ASSUME recompute' = recompute PROVE ListedOnRecord'
  BY <1>a, <1>b, <1>c DEF ListedOnRecord
<1>d. ASSUME NEW r \in Recomputers, NEW y, recompute' = [recompute EXCEPT ![r] = y],
             y.pc \in {"listed", "selected", "flushed", "queued"} =>
               y.codes \subseteq Recorded' \cup y.own
      PROVE  ListedOnRecord'
  BY <1>a, <1>b, <1>d DEF ListedOnRecord, TypeOK
<1>e. ASSUME decisions' = decisions, case' = case
      PROVE  Justified' /\ ReasonsOnRecord'
  BY <1>a, <1>b, <1>e, EvidenceKept
<1>1. ASSUME NEW p \in Party, NEW granted \in BOOLEAN, RecordConsent(p, granted)
      PROVE  EvidenceInv'
  BY <1>1, <1>b, <1>c, <1>e DEF RecordConsent, EvidenceInv
<1>2. ASSUME ThirdCase PROVE EvidenceInv'
  BY <1>2, <1>b, <1>c, <1>e DEF ThirdCase, EvidenceInv
<1>3. ASSUME OcrNotConfigured PROVE EvidenceInv'
  BY <1>3, <1>b, <1>c, <1>e DEF OcrNotConfigured, EvidenceInv
<1>4. ASSUME NEW p \in Reporters, NEW codes \in Reports, ReportSelect(p, codes)
      PROVE  EvidenceInv'
  BY <1>4, <1>b, <1>c, <1>e DEF ReportSelect, EvidenceInv
<1>5. ASSUME NEW p \in Reporters, ReportCommit(p) PROVE EvidenceInv'
  BY <1>5, <1>b, <1>c, <1>e DEF ReportCommit, EvidenceInv
<1>6. ASSUME SubmitCheck PROVE EvidenceInv'
  BY <1>6, <1>b, <1>c, <1>e DEF SubmitCheck, EvidenceInv
<1>7. ASSUME SubmitCommit PROVE EvidenceInv'
  <2>1. /\ case'.codes = case.codes
        /\ case'.state = case.state \/ case'.state = "documents_pending"
    BY <1>a, <1>7 DEF SubmitCommit, TypeOK, Case
  <2>2. decisions' = decisions /\ recompute' = recompute
    BY <1>7 DEF SubmitCommit
  <2> QED BY <1>a, <1>b, <1>c, <2>1, <2>2, EvidenceKept DEF EvidenceInv
<1>8. ASSUME NEW r \in Recomputers, Load(r) PROVE EvidenceInv'
  <2>1. ListedOnRecord'
    <3>1. PICK y : y = [pc |-> "loaded", n |-> started + 1, seen |-> case,
                   calc |-> Calculated[facts], stuck |-> blocked, own |-> {},
                   codes |-> {}, row |-> 0, was |-> NoDecision, task |-> FALSE]
      OBVIOUS
    <3>2. recompute' = [recompute EXCEPT ![r] = y] /\ y.pc = "loaded"
      BY <1>8, <3>1 DEF Load
    <3> QED BY <1>d, <3>2
  <2> QED BY <1>8, <1>b, <1>e, <2>1 DEF Load, EvidenceInv
<1>9. ASSUME NEW r \in Recomputers, List(r) PROVE EvidenceInv'
  <2>1. recompute[r] \in Running
    BY <1>9, <1>a DEF List, TypeOK, Idle
  <2>2. PICK y : y = Listed(recompute[r], Missing(recompute[r].calc),
                            Recorded \cup recompute[r].calc)
    OBVIOUS
  <2>3. recompute' = [recompute EXCEPT ![r] = y]
    BY <1>9, <2>2 DEF List, Listed
  <2>4. /\ Missing(recompute[r].calc) \in SUBSET Code
        /\ Recorded \cup recompute[r].calc \in SUBSET Code
    BY <2>1, RecordedType DEF Missing, Running
  <2>5. /\ y.own = Missing(recompute[r].calc)
        /\ y.codes = Recorded \cup recompute[r].calc
    BY <2>1, <2>2, <2>4, ListedForm
  <2>6. recompute[r].calc \subseteq Recorded \cup Missing(recompute[r].calc)
    BY <1>a, <2>1 DEF Recorded, Missing, Running, TypeOK
  <2>7. y.codes \subseteq Recorded' \cup y.own
    BY <1>b, <2>5, <2>6
  <2> QED BY <1>9, <1>b, <1>d, <1>e, <2>3, <2>7 DEF List, EvidenceInv
<1>10. ASSUME NEW r \in Recomputers, Select(r) PROVE EvidenceInv'
  <2>1. recompute[r] \in Running /\ recompute[r].pc = "listed"
    BY <1>10, <1>a DEF Select, TypeOK, Idle
  <2>2. PICK k \in IF Rows = {} THEN {0} ELSE Rows :
          recompute' = [recompute EXCEPT ![r] = Selected(recompute[r], k,
             IF k = 0 THEN NoDecision ELSE decisions[k])]
    BY <1>10 DEF Select, Selected
  <2>3. PICK was : was = IF k = 0 THEN NoDecision ELSE decisions[k]
    OBVIOUS
  <2>4. k \in 0 .. MaxRecomputes /\ was \in Decision \cup {NoDecision}
    BY <1>a, <2>3, ConstantsAssumption DEF TypeOK, Rows, Order
  <2>5. PICK y : y = Selected(recompute[r], k, was)
    OBVIOUS
  <2>6. y.own = recompute[r].own /\ y.codes = recompute[r].codes
    BY <2>1, <2>4, <2>5, SelectedForm
  <2>7. recompute' = [recompute EXCEPT ![r] = y]
    BY <2>2, <2>3, <2>5
  <2>8. y.codes \subseteq Recorded' \cup y.own
    BY <1>a, <1>b, <2>1, <2>6 DEF ListedOnRecord
  <2> QED BY <1>10, <1>b, <1>d, <1>e, <2>7, <2>8 DEF Select, EvidenceInv
<1>11. ASSUME NEW r \in Recomputers, FlushDecision(r) PROVE EvidenceInv'
  <2>1. recompute[r] \in Running /\ recompute[r].pc = "selected"
    BY <1>11, <1>a DEF FlushDecision, TypeOK, Idle
  <2>2. PICK y : y = [recompute[r] EXCEPT !.pc = "flushed"]
    OBVIOUS
  <2>3. recompute' = [recompute EXCEPT ![r] = y]
    BY <1>11, <2>2 DEF FlushDecision
  <2>4. y.own = recompute[r].own /\ y.codes = recompute[r].codes
    BY <2>1, <2>2, MovedOn
  <2>5. y.codes \subseteq Recorded' \cup y.own
    BY <1>a, <1>b, <2>1, <2>4 DEF ListedOnRecord
  <2> QED BY <1>11, <1>b, <1>d, <1>e, <2>3, <2>5 DEF FlushDecision, EvidenceInv
<1>12. ASSUME NEW r \in Recomputers, QueueTask(r) PROVE EvidenceInv'
  <2>1. recompute[r] \in Running /\ recompute[r].pc = "flushed"
    BY <1>12, <1>a DEF QueueTask, TypeOK, Idle
  <2>2. PICK task \in BOOLEAN :
          task = (Outcome(r).verdict = "manual_review" /\ tasks = 0)
    OBVIOUS
  <2>3. PICK y : y = Queued(recompute[r], task)
    OBVIOUS
  <2>4. recompute' = [recompute EXCEPT ![r] = y]
    BY <1>12, <2>2, <2>3 DEF QueueTask, Queued
  <2>5. y.own = recompute[r].own /\ y.codes = recompute[r].codes
    BY <2>1, <2>3, QueuedForm
  <2>6. y.codes \subseteq Recorded' \cup y.own
    BY <1>a, <1>b, <2>1, <2>5 DEF ListedOnRecord
  <2> QED BY <1>12, <1>b, <1>d, <1>e, <2>4, <2>6 DEF QueueTask, EvidenceInv
<1>13. ASSUME NEW r \in Recomputers, Commit(r) PROVE EvidenceInv'
  <2>1. Justified' /\ ReasonsOnRecord'
    BY <1>13, <1>b, EvidenceCommitted
  <2>2. recompute' = [recompute EXCEPT ![r] = Idle] /\ Idle.pc = "idle"
    BY <1>13 DEF Commit, Idle
  <2>3. ListedOnRecord'
    BY <1>d, <2>2
  <2> QED BY <1>b, <2>1, <2>3 DEF EvidenceInv
<1>14. ASSUME NEW r \in Recomputers, Rollback(r) PROVE EvidenceInv'
  <2>1. recompute' = [recompute EXCEPT ![r] = Idle] /\ Idle.pc = "idle"
    BY <1>14 DEF Rollback, Idle
  <2> QED BY <1>14, <1>b, <1>d, <1>e, <2>1 DEF Rollback, EvidenceInv
<1>15. CASE UNCHANGED vars
  BY <1>15, <1>b, <1>c, <1>e DEF vars, EvidenceInv
<1> QED BY <1>1, <1>2, <1>3, <1>4, <1>5, <1>6, <1>7, <1>8, <1>9, <1>10, <1>11,
           <1>12, <1>13, <1>14, <1>15 DEF Next, RecomputeStep

LEMMA EvidenceInvInit == Init => EvidenceInv
<1> SUFFICES ASSUME Init PROVE EvidenceInv
  OBVIOUS
<1>1. Rows = {} /\ case.codes = {} /\ case.state = "created"
  BY DEF Init, Rows
<1>2. ListedOnRecord
  BY DEF Init, ListedOnRecord, Idle
<1> QED BY <1>1, <1>2, TypeInvInit DEF EvidenceInv, Justified, ReasonsOnRecord

LEMMA EvidenceInvAlways == Spec => []EvidenceInv
BY EvidenceInvInit, EvidenceInvStep, PTL DEF Spec

\* Whatever overlaps and whatever rolls back, no decision and no state of the
\* case is harsher than the signals on record justify.
THEOREM NeverTooHarsh == Spec => []Justified
<1>1. EvidenceInv => Justified
  BY DEF EvidenceInv
<1> QED BY <1>1, EvidenceInvAlways, PTL

\* The reasons of every decision, and those of the case's score, are on record
\* as signals at every moment.
THEOREM ReasonsKept == Spec => []ReasonsOnRecord
<1>1. EvidenceInv => ReasonsOnRecord
  BY DEF EvidenceInv
<1> QED BY <1>1, EvidenceInvAlways, PTL

-----------------------------------------------------------------------------
(* What needs a human has a task.                                          *)

\* Once the task is looked up, a decision for manual review has one or brings
\* one; open tasks are never closed.
TaskDecided ==
  \A r \in Recomputers :
    /\ recompute[r].pc = "queued"
    /\ ~recompute[r].stuck
    /\ Verdict[recompute[r].codes] = "manual_review"
    => tasks > 0 \/ recompute[r].task

ReviewInv == TypeInv /\ ReviewQueued /\ TaskDecided

LEMMA ReviewInvStep == ReviewInv /\ [Next]_vars => ReviewInv'
<1> SUFFICES ASSUME ReviewInv, [Next]_vars PROVE ReviewInv'
  OBVIOUS
<1>a. TypeOK /\ TypeInv /\ ReviewQueued /\ TaskDecided
  BY DEF ReviewInv, TypeInv
<1>b. TypeInv'
  BY <1>a, TypeInvStep
<1>c. ASSUME decisions' = decisions, case' = case, tasks' = tasks
      PROVE  ReviewQueued'
  BY <1>a, <1>c DEF ReviewQueued, Rows
<1>d. ASSUME recompute' = recompute, tasks' = tasks PROVE TaskDecided'
  BY <1>a, <1>d DEF TaskDecided
<1>e. ASSUME NEW r \in Recomputers, NEW y, recompute' = [recompute EXCEPT ![r] = y],
             tasks' >= tasks, tasks' \in Nat,
             y.pc = "queued" => \/ y.stuck \/ Verdict[y.codes] # "manual_review"
                                \/ tasks' > 0 \/ y.task
      PROVE  TaskDecided'
  BY <1>a, <1>e DEF TaskDecided, TypeOK
<1>f. ASSUME NEW r \in Recomputers, NEW y, recompute' = [recompute EXCEPT ![r] = y],
             tasks' = tasks, y.pc # "queued"
      PROVE  TaskDecided'
  BY <1>a, <1>f DEF TaskDecided, TypeOK
<1>1. ASSUME NEW p \in Party, NEW granted \in BOOLEAN, RecordConsent(p, granted)
      PROVE  ReviewInv'
  BY <1>1, <1>b, <1>c, <1>d DEF RecordConsent, ReviewInv
<1>2. ASSUME ThirdCase PROVE ReviewInv'
  BY <1>2, <1>b, <1>c, <1>d DEF ThirdCase, ReviewInv
<1>3. ASSUME OcrNotConfigured PROVE ReviewInv'
  BY <1>3, <1>b, <1>c, <1>d DEF OcrNotConfigured, ReviewInv
<1>4. ASSUME NEW p \in Reporters, NEW codes \in Reports, ReportSelect(p, codes)
      PROVE  ReviewInv'
  BY <1>4, <1>b, <1>c, <1>d DEF ReportSelect, ReviewInv
<1>5. ASSUME NEW p \in Reporters, ReportCommit(p) PROVE ReviewInv'
  BY <1>5, <1>b, <1>c, <1>d DEF ReportCommit, ReviewInv
<1>6. ASSUME SubmitCheck PROVE ReviewInv'
  BY <1>6, <1>b, <1>c, <1>d DEF SubmitCheck, ReviewInv
<1>7. ASSUME SubmitCommit PROVE ReviewInv'
  <2>1. case'.state = case.state \/ case'.state = "documents_pending"
    BY <1>a, <1>7 DEF SubmitCommit, TypeOK, Case
  <2>2. decisions' = decisions /\ tasks' = tasks /\ recompute' = recompute
    BY <1>7 DEF SubmitCommit
  <2>3. ReviewQueued'
    BY <1>a, <2>1, <2>2 DEF ReviewQueued, Rows
  <2> QED BY <1>b, <1>d, <2>2, <2>3 DEF ReviewInv
<1>8. ASSUME NEW r \in Recomputers, Load(r) PROVE ReviewInv'
  <2>1. PICK y : y = [pc |-> "loaded", n |-> started + 1, seen |-> case,
                   calc |-> Calculated[facts], stuck |-> blocked, own |-> {},
                   codes |-> {}, row |-> 0, was |-> NoDecision, task |-> FALSE]
    OBVIOUS
  <2>2. recompute' = [recompute EXCEPT ![r] = y] /\ y.pc = "loaded"
    BY <1>8, <2>1 DEF Load
  <2> QED BY <1>8, <1>a, <1>b, <1>c, <1>f, <2>2 DEF Load, ReviewInv
<1>9. ASSUME NEW r \in Recomputers, List(r) PROVE ReviewInv'
  <2>1. recompute[r] \in Running
    BY <1>9, <1>a DEF List, TypeOK, Idle
  <2>2. PICK y : y = Listed(recompute[r], Missing(recompute[r].calc),
                            Recorded \cup recompute[r].calc)
    OBVIOUS
  <2>3. recompute' = [recompute EXCEPT ![r] = y]
    BY <1>9, <2>2 DEF List, Listed
  <2>4. /\ Missing(recompute[r].calc) \in SUBSET Code
        /\ Recorded \cup recompute[r].calc \in SUBSET Code
    BY <2>1, RecordedType DEF Missing, Running
  <2>5. y.pc = "listed"
    BY <2>1, <2>2, <2>4, ListedForm
  <2> QED BY <1>9, <1>b, <1>c, <1>f, <2>3, <2>5 DEF List, ReviewInv
<1>10. ASSUME NEW r \in Recomputers, Select(r) PROVE ReviewInv'
  <2>1. recompute[r] \in Running
    BY <1>10, <1>a DEF Select, TypeOK, Idle
  <2>2. PICK k \in IF Rows = {} THEN {0} ELSE Rows :
          recompute' = [recompute EXCEPT ![r] = Selected(recompute[r], k,
             IF k = 0 THEN NoDecision ELSE decisions[k])]
    BY <1>10 DEF Select, Selected
  <2>3. PICK was : was = IF k = 0 THEN NoDecision ELSE decisions[k]
    OBVIOUS
  <2>4. k \in 0 .. MaxRecomputes /\ was \in Decision \cup {NoDecision}
    BY <1>a, <2>3, ConstantsAssumption DEF TypeOK, Rows, Order
  <2>5. PICK y : y = Selected(recompute[r], k, was)
    OBVIOUS
  <2>6. y.pc = "selected"
    BY <2>1, <2>4, <2>5, SelectedForm
  <2>7. recompute' = [recompute EXCEPT ![r] = y]
    BY <2>2, <2>3, <2>5
  <2> QED BY <1>10, <1>b, <1>c, <1>f, <2>6, <2>7 DEF Select, ReviewInv
<1>11. ASSUME NEW r \in Recomputers, FlushDecision(r) PROVE ReviewInv'
  <2>1. recompute[r] \in Running
    BY <1>11, <1>a DEF FlushDecision, TypeOK, Idle
  <2>2. PICK y : y = [recompute[r] EXCEPT !.pc = "flushed"]
    OBVIOUS
  <2>3. recompute' = [recompute EXCEPT ![r] = y] /\ y.pc = "flushed"
    BY <1>11, <2>1, <2>2, MovedOn DEF FlushDecision
  <2> QED BY <1>11, <1>b, <1>c, <1>f, <2>3 DEF FlushDecision, ReviewInv
<1>12. ASSUME NEW r \in Recomputers, QueueTask(r) PROVE ReviewInv'
  <2>1. recompute[r] \in Running
    BY <1>12, <1>a DEF QueueTask, TypeOK, Idle
  <2>2. PICK task \in BOOLEAN :
          task = (Outcome(r).verdict = "manual_review" /\ tasks = 0)
    OBVIOUS
  <2>3. PICK y : y = Queued(recompute[r], task)
    OBVIOUS
  <2>4. recompute' = [recompute EXCEPT ![r] = y] /\ tasks' = tasks
    BY <1>12, <2>2, <2>3 DEF QueueTask, Queued
  <2>5. y.task = task /\ y.stuck = recompute[r].stuck /\ y.codes = recompute[r].codes
    BY <2>1, <2>3, QueuedForm
  <2>6. ~y.stuck /\ Verdict[y.codes] = "manual_review" =>
          Outcome(r).verdict = "manual_review"
    BY <2>1, <2>5, OutcomeType
  <2>7. tasks = 0 \/ tasks > 0
    BY <1>a DEF TypeOK
  <2>8. \/ y.stuck \/ Verdict[y.codes] # "manual_review"
        \/ tasks > 0 \/ y.task
    BY <2>2, <2>5, <2>6, <2>7, Zenon
  <2>9. tasks' >= tasks /\ tasks' \in Nat
    BY <1>a, <2>4 DEF TypeOK
  <2>10. TaskDecided'
    BY <1>e, <2>4, <2>8, <2>9
  <2> QED BY <1>12, <1>b, <1>c, <2>10 DEF QueueTask, ReviewInv
<1>13. ASSUME NEW r \in Recomputers, Commit(r) PROVE ReviewInv'
  <2>1. /\ recompute[r] \in Running /\ Outcome(r) \in Decision
        /\ recompute[r].pc = "queued"
    BY <1>13, <1>a, CommitRows DEF Commit
  <2>2. tasks' = IF recompute[r].task THEN tasks + 1 ELSE tasks
    BY <1>13 DEF Commit
  <2>3. tasks' \in Nat /\ tasks' >= tasks
    BY <1>a, <2>2 DEF TypeOK
  <2>4. Outcome(r).verdict = "manual_review" => tasks' > 0
    <3>1. Outcome(r).verdict = "manual_review" => tasks > 0 \/ recompute[r].task
      BY <1>a, <2>1, OutcomeType DEF TaskDecided
    <3> QED BY <1>a, <2>2, <3>1 DEF TypeOK
  <2>5. PICK n \in Order :
          /\ decisions' = [decisions EXCEPT ![n] = decisions'[n]]
          /\ decisions'[n].verdict # Outcome(r).verdict =>
               n \in Rows /\ decisions'[n].verdict = decisions[n].verdict
    <3>1. PICK n \in Order :
            /\ decisions' = [decisions EXCEPT ![n] = decisions'[n]]
            /\ recompute[r].row = 0 => decisions'[n] = Outcome(r)
            /\ recompute[r].row # 0 =>
                 /\ n \in Rows
                 /\ decisions[n] \in Decision
                 /\ decisions'[n] = Updated(decisions[n], recompute[r].was, Outcome(r))
      BY <1>13, <1>a, CommitRows
    <3>2. recompute[r].row # 0 =>
            decisions'[n].verdict \in {decisions[n].verdict, Outcome(r).verdict}
      BY <2>1, <3>1, UpdatedType
    <3> QED BY <3>1, <3>2
  <2>6. ASSUME ~(tasks' > 0) PROVE ReviewQueued'
    <3>1. tasks = 0
      BY <1>a, <2>3, <2>6 DEF TypeOK
    <3>2. /\ \A k \in Rows : decisions[k].verdict # "manual_review"
          /\ case.state # "in_review"
      BY <1>a, <3>1 DEF ReviewQueued
    <3>3. \A k \in Rows' : decisions'[k].verdict # "manual_review"
      BY <1>a, <2>4, <2>5, <2>6, <3>2 DEF Rows, TypeOK
    <3>4. case'.state # "in_review"
      BY <1>13, <1>a, <2>1, <2>4, <2>6, <3>2, CaseAfterForm DEF Commit, TypeOK
    <3> QED BY <3>3, <3>4 DEF ReviewQueued
  <2>7. ReviewQueued'
    BY <2>6 DEF ReviewQueued
  <2>8. recompute' = [recompute EXCEPT ![r] = Idle] /\ Idle.pc = "idle"
    BY <1>13 DEF Commit, Idle
  <2>9. TaskDecided'
    BY <1>e, <2>3, <2>8
  <2> QED BY <1>b, <2>7, <2>9 DEF ReviewInv
<1>14. ASSUME NEW r \in Recomputers, Rollback(r) PROVE ReviewInv'
  <2>1. recompute' = [recompute EXCEPT ![r] = Idle] /\ Idle.pc = "idle"
    BY <1>14 DEF Rollback, Idle
  <2> QED BY <1>14, <1>b, <1>c, <1>f, <2>1 DEF Rollback, ReviewInv
<1>15. CASE UNCHANGED vars
  BY <1>15, <1>b, <1>c, <1>d DEF vars, ReviewInv
<1> QED BY <1>1, <1>2, <1>3, <1>4, <1>5, <1>6, <1>7, <1>8, <1>9, <1>10, <1>11,
           <1>12, <1>13, <1>14, <1>15 DEF Next, RecomputeStep

LEMMA ReviewInvInit == Init => ReviewInv
<1> SUFFICES ASSUME Init PROVE ReviewInv
  OBVIOUS
<1>1. Rows = {} /\ case.state = "created"
  BY DEF Init, Rows
<1>2. TaskDecided
  BY DEF Init, TaskDecided, Idle
<1> QED BY <1>1, <1>2, TypeInvInit DEF ReviewInv, ReviewQueued

\* A decision for manual review, and a case in review, always has an open
\* review task, whatever overlaps and whatever rolls back.
THEOREM NothingUnreviewed == Spec => []ReviewQueued
<1>1. ReviewInv => ReviewQueued
  BY DEF ReviewInv
<1> QED BY <1>1, ReviewInvInit, ReviewInvStep, PTL DEF Spec

-----------------------------------------------------------------------------
(* What can pile up.                                                       *)

\* The recomputations that will insert a decision, and those that bring a task.
Inserting ==
  {r \in Recomputers : /\ recompute[r].pc \in {"selected", "flushed", "queued"}
                       /\ recompute[r].row = 0}

Tasked == {r \in Recomputers : recompute[r].pc = "queued" /\ recompute[r].task}

\* What is inserted and what is about to be fits into the number of processes.
PileBound ==
  /\ Cardinality(Rows) + Cardinality(Inserting) <= Cardinality(Recomputers)
  /\ tasks + Cardinality(Tasked) <= Cardinality(Recomputers)

PileInv == TypeInv /\ PileBound

LEMMA PartOfFinite ==
  ASSUME NEW S, IsFiniteSet(S), NEW T, T \subseteq S
  PROVE  /\ IsFiniteSet(T) /\ Cardinality(T) \in Nat /\ Cardinality(S) \in Nat
         /\ Cardinality(T) <= Cardinality(S)
BY FS_Subset, FS_CardinalityType

LEMMA PileFinite ==
  ASSUME IsFiniteSet(Recomputers)
  PROVE  /\ IsFiniteSet(Rows) /\ Cardinality(Rows) \in Nat
         /\ IsFiniteSet(Inserting) /\ Cardinality(Inserting) \in Nat
         /\ IsFiniteSet(Tasked) /\ Cardinality(Tasked) \in Nat
         /\ Cardinality(Recomputers) \in Nat
<1>1. IsFiniteSet(Order)
  BY FS_Interval, ConstantsAssumption DEF Order
<1>2. Rows \subseteq Order /\ Inserting \subseteq Recomputers /\ Tasked \subseteq Recomputers
  BY DEF Rows, Inserting, Tasked
<1> QED BY <1>1, <1>2, PartOfFinite, FS_CardinalityType

\* A step that inserts nothing, and after which no more is about to be.
LEMMA PileKept ==
  ASSUME IsFiniteSet(Recomputers), TypeOK, PileBound,
         decisions' = decisions, tasks' = tasks,
         Inserting' \subseteq Inserting, Tasked' \subseteq Tasked
  PROVE  PileBound'
<1>1. Rows' = Rows
  BY DEF Rows
<1>2. PICK I, T : I = Inserting' /\ T = Tasked'
  OBVIOUS
<1>3. /\ Cardinality(I) \in Nat /\ Cardinality(I) <= Cardinality(Inserting)
      /\ Cardinality(T) \in Nat /\ Cardinality(T) <= Cardinality(Tasked)
  BY <1>2, PileFinite, PartOfFinite
<1> QED BY <1>1, <1>2, <1>3, PileFinite DEF PileBound, TypeOK

\* One recomputation moves: what is about to be inserted by the others stays.
LEMMA OneMoves ==
  ASSUME TypeOK, NEW r \in Recomputers, NEW y,
         recompute' = [recompute EXCEPT ![r] = y]
  PROVE  /\ Inserting' = IF y.pc \in {"selected", "flushed", "queued"} /\ y.row = 0
                         THEN Inserting \cup {r} ELSE Inserting \ {r}
         /\ Tasked' = IF y.pc = "queued" /\ y.task
                      THEN Tasked \cup {r} ELSE Tasked \ {r}
<1>1. \A s \in Recomputers : recompute'[s] = IF s = r THEN y ELSE recompute[s]
  BY DEF TypeOK
<1> QED BY <1>1 DEF Inserting, Tasked

LEMMA PileInvStep ==
  ASSUME IsFiniteSet(Recomputers), PileInv, [Next]_vars
  PROVE  PileInv'
<1>a. TypeOK /\ TypeInv /\ PileBound
  BY DEF PileInv, TypeInv
<1>b. TypeInv'
  BY <1>a, TypeInvStep
<1>c. ASSUME decisions' = decisions, tasks' = tasks, recompute' = recompute
      PROVE  PileInv'
  <2>1. Inserting' = Inserting /\ Tasked' = Tasked
    BY <1>c DEF Inserting, Tasked
  <2> QED BY <1>a, <1>b, <1>c, <2>1, PileKept DEF PileInv
<1>d. ASSUME NEW r \in Recomputers, NEW y, recompute' = [recompute EXCEPT ![r] = y],
             decisions' = decisions, tasks' = tasks, y.pc # "queued" \/ ~y.task,
             \/ y.pc \notin {"selected", "flushed", "queued"} \/ y.row # 0
             \/ r \in Inserting
      PROVE  PileInv'
  <2>1. Inserting' \subseteq Inserting /\ Tasked' \subseteq Tasked
    BY <1>a, <1>d, OneMoves
  <2> QED BY <1>a, <1>b, <1>d, <2>1, PileKept DEF PileInv
<1>1. ASSUME NEW p \in Party, NEW granted \in BOOLEAN, RecordConsent(p, granted)
      PROVE  PileInv'
  BY <1>1, <1>c DEF RecordConsent
<1>2. ASSUME ThirdCase PROVE PileInv'
  BY <1>2, <1>c DEF ThirdCase
<1>3. ASSUME OcrNotConfigured PROVE PileInv'
  BY <1>3, <1>c DEF OcrNotConfigured
<1>4. ASSUME NEW p \in Reporters, NEW codes \in Reports, ReportSelect(p, codes)
      PROVE  PileInv'
  BY <1>4, <1>c DEF ReportSelect
<1>5. ASSUME NEW p \in Reporters, ReportCommit(p) PROVE PileInv'
  BY <1>5, <1>c DEF ReportCommit
<1>6. ASSUME SubmitCheck \/ SubmitCommit PROVE PileInv'
  BY <1>6, <1>c DEF SubmitCheck, SubmitCommit
<1>7. ASSUME NEW r \in Recomputers, Load(r) PROVE PileInv'
  <2>1. PICK y : y = [pc |-> "loaded", n |-> started + 1, seen |-> case,
                   calc |-> Calculated[facts], stuck |-> blocked, own |-> {},
                   codes |-> {}, row |-> 0, was |-> NoDecision, task |-> FALSE]
    OBVIOUS
  <2>2. recompute' = [recompute EXCEPT ![r] = y] /\ y.pc = "loaded"
    BY <1>7, <2>1 DEF Load
  <2> QED BY <1>7, <1>d, <2>2 DEF Load
<1>8. ASSUME NEW r \in Recomputers, List(r) PROVE PileInv'
  <2>1. recompute[r] \in Running
    BY <1>8, <1>a DEF List, TypeOK, Idle
  <2>2. PICK y : y = Listed(recompute[r], Missing(recompute[r].calc),
                            Recorded \cup recompute[r].calc)
    OBVIOUS
  <2>3. recompute' = [recompute EXCEPT ![r] = y]
    BY <1>8, <2>2 DEF List, Listed
  <2>4. /\ Missing(recompute[r].calc) \in SUBSET Code
        /\ Recorded \cup recompute[r].calc \in SUBSET Code
    BY <2>1, RecordedType DEF Missing, Running
  <2>5. y.pc = "listed"
    BY <2>1, <2>2, <2>4, ListedForm
  <2> QED BY <1>8, <1>d, <2>3, <2>5 DEF List
<1>9. ASSUME NEW r \in Recomputers, Select(r) PROVE PileInv'
  <2>1. recompute[r] \in Running
    BY <1>9, <1>a DEF Select, TypeOK, Idle
  <2>2. PICK k \in IF Rows = {} THEN {0} ELSE Rows :
          recompute' = [recompute EXCEPT ![r] = Selected(recompute[r], k,
             IF k = 0 THEN NoDecision ELSE decisions[k])]
    BY <1>9 DEF Select, Selected
  <2>3. PICK was : was = IF k = 0 THEN NoDecision ELSE decisions[k]
    OBVIOUS
  <2>4. k \in 0 .. MaxRecomputes /\ was \in Decision \cup {NoDecision}
    BY <1>a, <2>3, ConstantsAssumption DEF TypeOK, Rows, Order
  <2>5. PICK y : y = Selected(recompute[r], k, was)
    OBVIOUS
  <2>6. y.pc = "selected" /\ y.row = k
    BY <2>1, <2>4, <2>5, SelectedForm
  <2>7. recompute' = [recompute EXCEPT ![r] = y] /\ decisions' = decisions /\ tasks' = tasks
    BY <1>9, <2>2, <2>3, <2>5 DEF Select
  <2>8. CASE Rows = {}
    <3>1. Rows' = {} /\ Cardinality({}) = 0
      BY <2>7, <2>8, FS_EmptySet DEF Rows
    <3>2. Inserting' \subseteq Recomputers /\ Tasked' \subseteq Tasked
      BY <1>a, <2>6, <2>7, OneMoves DEF Inserting
    <3>3. PICK I, T : I = Inserting' /\ T = Tasked'
      OBVIOUS
    <3>4. /\ Cardinality(I) \in Nat /\ Cardinality(I) <= Cardinality(Recomputers)
          /\ Cardinality(T) \in Nat /\ Cardinality(T) <= Cardinality(Tasked)
      BY <3>2, <3>3, PileFinite, PartOfFinite
    <3> QED BY <1>a, <1>b, <2>7, <3>1, <3>3, <3>4, PileFinite
            DEF PileInv, PileBound, TypeOK
  <2>9. CASE Rows # {}
    <3>1. k # 0
      BY <2>9, ConstantsAssumption DEF Rows, Order
    <3> QED BY <1>d, <2>6, <2>7, <3>1
  <2> QED BY <2>8, <2>9
<1>10. ASSUME NEW r \in Recomputers, FlushDecision(r) PROVE PileInv'
  <2>1. recompute[r] \in Running /\ recompute[r].pc = "selected"
    BY <1>10, <1>a DEF FlushDecision, TypeOK, Idle
  <2>2. PICK y : y = [recompute[r] EXCEPT !.pc = "flushed"]
    OBVIOUS
  <2>3. /\ recompute' = [recompute EXCEPT ![r] = y]
        /\ y.pc = "flushed" /\ y.row = recompute[r].row
    BY <1>10, <2>1, <2>2, MovedOn DEF FlushDecision
  <2>4. y.row # 0 \/ r \in Inserting
    BY <2>1, <2>3 DEF Inserting
  <2> QED BY <1>10, <1>d, <2>3, <2>4 DEF FlushDecision
<1>11. ASSUME NEW r \in Recomputers, QueueTask(r) PROVE PileInv'
  <2>1. recompute[r] \in Running /\ recompute[r].pc = "flushed"
    BY <1>11, <1>a DEF QueueTask, TypeOK, Idle
  <2>2. PICK task \in BOOLEAN :
          task = (Outcome(r).verdict = "manual_review" /\ tasks = 0)
    OBVIOUS
  <2>3. PICK y : y = Queued(recompute[r], task)
    OBVIOUS
  <2>4. /\ recompute' = [recompute EXCEPT ![r] = y]
        /\ tasks' = tasks /\ decisions' = decisions
    BY <1>11, <2>2, <2>3 DEF QueueTask, Queued
  <2>5. y.pc = "queued" /\ y.task = task /\ y.row = recompute[r].row
    BY <2>1, <2>3, QueuedForm
  <2>6. y.row # 0 \/ r \in Inserting
    BY <2>1, <2>5 DEF Inserting
  <2>7. CASE ~task
    BY <1>d, <2>4, <2>5, <2>6, <2>7
  <2>8. CASE task
    <3>1. tasks = 0
      BY <2>2, <2>8
    <3>2. Inserting' \subseteq Inserting /\ Tasked' \subseteq Recomputers
      BY <1>a, <2>4, <2>5, <2>6, OneMoves DEF Tasked
    <3>3. PICK I, T : I = Inserting' /\ T = Tasked'
      OBVIOUS
    <3>4. /\ Cardinality(I) \in Nat /\ Cardinality(I) <= Cardinality(Inserting)
          /\ Cardinality(T) \in Nat /\ Cardinality(T) <= Cardinality(Recomputers)
      BY <3>2, <3>3, PileFinite, PartOfFinite
    <3>5. Rows' = Rows
      BY <2>4 DEF Rows
    <3> QED BY <1>a, <1>b, <2>4, <3>1, <3>3, <3>4, <3>5, PileFinite
            DEF PileInv, PileBound
  <2> QED BY <2>7, <2>8
<1>12. ASSUME NEW r \in Recomputers, Commit(r) PROVE PileInv'
  <2>1. /\ recompute[r] \in Running /\ recompute[r].pc = "queued"
        /\ recompute[r] # Idle
    BY <1>12, <1>a, CommitRows, RunningNotIdle DEF Commit
  <2>2. PICK k \in Order :
          /\ k = IF recompute[r].row = 0 THEN recompute[r].n ELSE recompute[r].row
          /\ decisions' = [decisions EXCEPT ![k] = decisions'[k]]
          /\ recompute[r].row # 0 => k \in Rows
    BY <1>12, <1>a, CommitRows
  <2>3. recompute' = [recompute EXCEPT ![r] = Idle] /\ Idle.pc = "idle"
    BY <1>12 DEF Commit, Idle
  <2>4. Inserting' = Inserting \ {r} /\ Tasked' = Tasked \ {r}
    BY <1>a, <2>3, OneMoves
  <2>5. PICK I, T, R : I = Inserting' /\ T = Tasked' /\ R = Rows'
    OBVIOUS
  <2>6. R \subseteq Rows \cup {k}
    BY <1>a, <2>2, <2>5 DEF Rows, TypeOK
  <2>7. IsFiniteSet(Rows \cup {k}) /\ Cardinality(Rows \cup {k}) =
          IF k \in Rows THEN Cardinality(Rows) ELSE Cardinality(Rows) + 1
    BY PileFinite, FS_AddElement
  <2>8. Cardinality(R) \in Nat /\ Cardinality(R) <= Cardinality(Rows \cup {k})
    BY <2>6, <2>7, PartOfFinite
  <2>9. /\ Cardinality(I) = IF r \in Inserting THEN Cardinality(Inserting) - 1
                                               ELSE Cardinality(Inserting)
        /\ Cardinality(T) = IF r \in Tasked THEN Cardinality(Tasked) - 1
                                            ELSE Cardinality(Tasked)
    BY <2>4, <2>5, PileFinite, FS_RemoveElement
  <2>10. Cardinality(R) + Cardinality(I) <= Cardinality(Recomputers)
    <3>1. Cardinality(Rows) + Cardinality(Inserting) <= Cardinality(Recomputers)
      BY <1>a DEF PileBound
    <3>2. CASE recompute[r].row = 0
      <4>1. r \in Inserting
        BY <2>1, <3>2 DEF Inserting
      <4>2. /\ Cardinality(R) <= Cardinality(Rows) + 1
            /\ Cardinality(I) = Cardinality(Inserting) - 1
        BY <2>7, <2>8, <2>9, <4>1, PileFinite
      <4> QED BY <2>8, <3>1, <4>2, PileFinite
    <3>3. CASE recompute[r].row # 0
      <4>1. r \notin Inserting
        BY <3>3 DEF Inserting
      <4>2. Cardinality(R) <= Cardinality(Rows) /\ Cardinality(I) = Cardinality(Inserting)
        BY <2>2, <2>7, <2>8, <2>9, <3>3, <4>1
      <4> QED BY <2>8, <3>1, <4>2, PileFinite
    <3> QED BY <3>2, <3>3
  <2>11. tasks' + Cardinality(T) <= Cardinality(Recomputers)
    <3>1. tasks' = IF recompute[r].task THEN tasks + 1 ELSE tasks
      BY <1>12 DEF Commit
    <3>2. r \in Tasked <=> recompute[r].task
      BY <2>1 DEF Tasked
    <3> QED BY <1>a, <2>9, <3>1, <3>2, PileFinite DEF PileBound, TypeOK
  <2> QED BY <1>b, <2>5, <2>10, <2>11 DEF PileInv, PileBound
<1>13. ASSUME NEW r \in Recomputers, Rollback(r) PROVE PileInv'
  <2>1. recompute' = [recompute EXCEPT ![r] = Idle] /\ Idle.pc = "idle"
    BY <1>13 DEF Rollback, Idle
  <2> QED BY <1>13, <1>d, <2>1 DEF Rollback
<1>14. CASE UNCHANGED vars
  BY <1>14, <1>c DEF vars
<1> QED BY <1>1, <1>2, <1>3, <1>4, <1>5, <1>6, <1>7, <1>8, <1>9, <1>10, <1>11,
           <1>12, <1>13, <1>14 DEF Next, RecomputeStep

LEMMA PileInvInit == ASSUME IsFiniteSet(Recomputers), Init PROVE PileInv
<1>1. Rows = {} /\ Inserting = {} /\ Tasked = {} /\ tasks = 0
  BY DEF Init, Rows, Inserting, Tasked, Idle
<1>2. Cardinality({}) = 0
  BY FS_EmptySet
<1> QED BY <1>1, <1>2, PileFinite, TypeInvInit DEF PileInv, PileBound

-----------------------------------------------------------------------------
(* Recomputations in turn.                                                 *)

\* The decision, the task and the case agree.
Settled ==
  /\ \A j, k \in Rows : j = k
  /\ tasks <= 1
  /\ DecisionReproducible
  /\ CaseShowsDecision
  /\ \A k \in Rows : decisions[k].verdict = "blocked_dependency" => blocked

\* What a recomputation has read is still so when it writes.
Current(x) ==
  x # Idle =>
    /\ x.seen.codes = case.codes
    /\ case.state \in {x.seen.state, "documents_pending"}
    /\ x.stuck => blocked
    /\ \A k \in Rows : decisions[k].verdict = "blocked_dependency" => x.stuck
    /\ x.pc # "loaded" => \A k \in Rows : decisions[k].codes \subseteq x.codes
    /\ x.pc \in {"selected", "flushed", "queued"} =>
         /\ x.row = 0 => Rows = {}
         /\ x.row # 0 => x.was = decisions[x.row]
    /\ x.pc = "queued" /\ x.task => tasks = 0

\* So far no recomputation has been started while another was at work.
InTurn ==
  /\ \A r, s \in Recomputers : recompute[r] # Idle /\ recompute[s] # Idle => r = s
  /\ Settled
  /\ \A r \in Recomputers : Current(recompute[r])

SerialInv == EvidenceInv /\ (overlapped \/ InTurn)

\* The only recomputation replaces the decision, if there is one, by its own.
LEMMA OnlyDecision ==
  ASSUME EvidenceInv, InTurn, NEW r \in Recomputers, Commit(r)
  PROVE  \E n \in Order :
           /\ Rows' = {n} /\ Rows \subseteq {n}
           /\ decisions'[n] = Outcome(r)
<1>a. TypeOK /\ TypeInv /\ Settled /\ Current(recompute[r])
  BY DEF InTurn, EvidenceInv, TypeInv
<1>1. /\ recompute[r] \in Running /\ Outcome(r) \in Decision
      /\ recompute[r].pc = "queued" /\ recompute[r] # Idle
  BY <1>a, CommitRows, RunningNotIdle DEF Commit
<1>2. PICK n \in Order :
        /\ n = IF recompute[r].row = 0 THEN recompute[r].n ELSE recompute[r].row
        /\ decisions' = [decisions EXCEPT ![n] = decisions'[n]]
        /\ decisions'[n] \in Decision
        /\ recompute[r].row = 0 => decisions'[n] = Outcome(r)
        /\ recompute[r].row # 0 =>
             /\ n \in Rows
             /\ decisions[n] \in Decision
             /\ decisions'[n] = Updated(decisions[n], recompute[r].was, Outcome(r))
  BY <1>a, CommitRows
<1>3. CASE recompute[r].row = 0
  <2>1. Rows = {}
    BY <1>1, <1>3, <1>a DEF Current
  <2>2. Rows' = {n}
    BY <1>2, <1>a, <2>1, NoDecisionIsNone DEF Rows, TypeOK
  <2> QED BY <1>2, <1>3, <2>1, <2>2
<1>4. CASE recompute[r].row # 0
  <2>1. recompute[r].was = decisions[n]
    BY <1>1, <1>2, <1>4, <1>a DEF Current
  <2>2. decisions'[n] = Outcome(r)
    BY <1>1, <1>2, <1>4, <2>1, UpdatedType
  <2>3. Rows = {n}
    BY <1>2, <1>4, <1>a DEF Settled
  <2>4. Rows' = {n}
    BY <1>2, <1>a, <2>3, NoDecisionIsNone DEF Rows, TypeOK
  <2> QED BY <2>2, <2>3, <2>4
<1> QED BY <1>3, <1>4

\* The case written by the only recomputation shows its decision.
LEMMA CaseShowsOutcome ==
  ASSUME NEW r \in Recomputers, recompute[r] \in Running, case \in Case,
         Current(recompute[r])
  PROVE  /\ CaseAfter(r).codes = Outcome(r).codes
         /\ Outcome(r).verdict = "approved" =>
              CaseAfter(r).state \in {"approved", "documents_pending"}
         /\ Outcome(r).verdict = "manual_review" =>
              CaseAfter(r).state \in {"in_review", "documents_pending"}
         /\ Outcome(r).verdict = "rejected" =>
              CaseAfter(r).state \in {"rejected", "documents_pending"}
<1>1. recompute[r] # Idle
  BY DEF Running, Idle
<1>2. /\ recompute[r].seen.codes = case.codes
      /\ case.state \in {recompute[r].seen.state, "documents_pending"}
  BY <1>1 DEF Current
<1> QED BY <1>2 DEF CaseAfter

\* A step after which recomputations still ran in turn.
LEMMA InTurnStep ==
  ASSUME EvidenceInv, InTurn, ~overlapped', [Next]_vars
  PROVE  InTurn'
<1>a. /\ TypeOK /\ TypeInv /\ EvidenceInv /\ Settled
      /\ \A r \in Recomputers : Current(recompute[r])
      /\ \A r, s \in Recomputers : recompute[r] # Idle /\ recompute[s] # Idle => r = s
  BY DEF InTurn, EvidenceInv, TypeInv
\* A step of another request, and one of the recomputation before its commit.
<1>c. ASSUME decisions' = decisions, tasks' = tasks, blocked => blocked',
             case'.codes = case.codes,
             case'.state = case.state \/ case'.state = "documents_pending"
      PROVE  Settled'
  <2>1. Rows' = Rows
    BY <1>c DEF Rows
  <2>2. \A j, k \in Rows' : j = k
    BY <1>a, <2>1 DEF Settled
  <2>3. tasks' <= 1 /\ DecisionReproducible'
    BY <1>a, <1>c, <2>1 DEF Settled, DecisionReproducible
  <2>4. CaseShowsDecision'
    BY <1>a, <1>c, <2>1 DEF Settled, CaseShowsDecision
  <2>5. \A k \in Rows' : decisions'[k].verdict = "blocked_dependency" => blocked'
    BY <1>a, <1>c, <2>1 DEF Settled
  <2> QED BY <2>2, <2>3, <2>4, <2>5 DEF Settled
<1>d. ASSUME decisions' = decisions, tasks' = tasks, blocked => blocked',
             case'.codes = case.codes,
             case'.state = case.state \/ case'.state = "documents_pending",
             recompute' = recompute
      PROVE  InTurn'
  <2>1. Rows' = Rows
    BY <1>d DEF Rows
  <2>2. ASSUME NEW r \in Recomputers PROVE Current(recompute[r])'
    BY <1>a, <1>d, <2>1 DEF Current
  <2> QED BY <1>a, <1>c, <1>d, <2>2 DEF InTurn
<1>e. ASSUME decisions' = decisions, tasks' = tasks, blocked' = blocked, case' = case,
             NEW r \in Recomputers, NEW y, recompute' = [recompute EXCEPT ![r] = y],
             Current(y), \A s \in Recomputers \ {r} : recompute[s] = Idle
      PROVE  InTurn'
  <2>1. Rows' = Rows
    BY <1>e DEF Rows
  <2>2. Current(y)'
    BY <1>e, <2>1 DEF Current
  <2>3. ASSUME NEW s \in Recomputers PROVE Current(recompute[s])'
    <3>1. recompute'[s] = IF s = r THEN y ELSE Idle
      BY <1>a, <1>e DEF TypeOK
    <3> QED BY <2>2, <3>1 DEF Current
  <2>4. Settled'
    BY <1>c, <1>e
  <2>5. \A s, t \in Recomputers : recompute'[s] # Idle /\ recompute'[t] # Idle => s = t
    BY <1>a, <1>e DEF TypeOK
  <2> QED BY <2>3, <2>4, <2>5 DEF InTurn
<1>f. Current(Idle)
  BY DEF Current
\* Who is at work is alone; who starts must have found nobody at work.
<1>g. ASSUME NEW r \in Recomputers, recompute[r] # Idle
      PROVE  \A s \in Recomputers \ {r} : recompute[s] = Idle
  BY <1>a, <1>g
<1>1. ASSUME NEW p \in Party, NEW granted \in BOOLEAN, RecordConsent(p, granted)
      PROVE  InTurn'
  BY <1>1, <1>d DEF RecordConsent
<1>2. ASSUME ThirdCase PROVE InTurn'
  BY <1>2, <1>d DEF ThirdCase
<1>3. ASSUME OcrNotConfigured PROVE InTurn'
  <2>1. blocked => blocked'
    BY <1>3 DEF OcrNotConfigured
  <2> QED BY <1>3, <1>d, <2>1 DEF OcrNotConfigured
<1>4. ASSUME NEW p \in Reporters, NEW codes \in Reports, ReportSelect(p, codes)
      PROVE  InTurn'
  BY <1>4, <1>d DEF ReportSelect
<1>5. ASSUME NEW p \in Reporters, ReportCommit(p) PROVE InTurn'
  BY <1>5, <1>d DEF ReportCommit
<1>6. ASSUME SubmitCheck PROVE InTurn'
  BY <1>6, <1>d DEF SubmitCheck
<1>7. ASSUME SubmitCommit PROVE InTurn'
  <2>1. /\ case'.codes = case.codes
        /\ case'.state = case.state \/ case'.state = "documents_pending"
    BY <1>a, <1>7 DEF SubmitCommit, TypeOK, Case
  <2> QED BY <1>7, <1>d, <2>1 DEF SubmitCommit
<1>8. ASSUME NEW r \in Recomputers, Load(r) PROVE InTurn'
  <2>1. PICK y : y = [pc |-> "loaded", n |-> started + 1, seen |-> case,
                   calc |-> Calculated[facts], stuck |-> blocked, own |-> {},
                   codes |-> {}, row |-> 0, was |-> NoDecision, task |-> FALSE]
    OBVIOUS
  <2>2. recompute' = [recompute EXCEPT ![r] = y]
    BY <1>8, <2>1 DEF Load
  <2>3. y.pc = "loaded" /\ y.seen = case /\ y.stuck = blocked /\ y.task = FALSE
    BY <2>1
  <2>4. \A k \in Rows : decisions[k].verdict = "blocked_dependency" => blocked
    BY <1>a DEF Settled
  <2>5. Current(y)
    BY <2>3, <2>4 DEF Current
  <2>6. \A s \in Recomputers \ {r} : recompute[s] = Idle
    BY <1>8 DEF Load
  <2> QED BY <1>8, <1>e, <2>2, <2>5, <2>6 DEF Load
<1>9. ASSUME NEW r \in Recomputers, List(r) PROVE InTurn'
  <2>1. recompute[r] \in Running /\ recompute[r] # Idle
    BY <1>9, <1>a DEF List, TypeOK, Idle
  <2>2. PICK y : y = Listed(recompute[r], Missing(recompute[r].calc),
                            Recorded \cup recompute[r].calc)
    OBVIOUS
  <2>3. recompute' = [recompute EXCEPT ![r] = y]
    BY <1>9, <2>2 DEF List, Listed
  <2>4. /\ Missing(recompute[r].calc) \in SUBSET Code
        /\ Recorded \cup recompute[r].calc \in SUBSET Code
    BY <2>1, RecordedType DEF Missing, Running
  <2>5. /\ y.pc = "listed" /\ y.seen = recompute[r].seen
        /\ y.stuck = recompute[r].stuck
        /\ y.codes = Recorded \cup recompute[r].calc
    BY <2>1, <2>2, <2>4, ListedForm
  <2>6. \A k \in Rows : decisions[k].codes \subseteq y.codes
    BY <1>a, <2>5 DEF EvidenceInv, ReasonsOnRecord
  <2>7. Current(y)
    BY <1>a, <2>1, <2>5, <2>6 DEF Current
  <2> QED BY <1>9, <1>e, <1>g, <2>1, <2>3, <2>7 DEF List
<1>10. ASSUME NEW r \in Recomputers, Select(r) PROVE InTurn'
  <2>1. recompute[r] \in Running /\ recompute[r] # Idle /\ recompute[r].pc = "listed"
    BY <1>10, <1>a DEF Select, TypeOK, Idle
  <2>2. PICK k \in IF Rows = {} THEN {0} ELSE Rows :
          recompute' = [recompute EXCEPT ![r] = Selected(recompute[r], k,
             IF k = 0 THEN NoDecision ELSE decisions[k])]
    BY <1>10 DEF Select, Selected
  <2>3. PICK was : was = IF k = 0 THEN NoDecision ELSE decisions[k]
    OBVIOUS
  <2>4. /\ k \in 0 .. MaxRecomputes /\ was \in Decision \cup {NoDecision}
        /\ k = 0 => Rows = {}
    BY <1>a, <2>3, ConstantsAssumption DEF TypeOK, Rows, Order
  <2>5. PICK y : y = Selected(recompute[r], k, was)
    OBVIOUS
  <2>6. /\ y.pc = "selected" /\ y.seen = recompute[r].seen
        /\ y.stuck = recompute[r].stuck /\ y.codes = recompute[r].codes
        /\ y.row = k /\ y.was = was
    BY <2>1, <2>4, <2>5, SelectedForm
  <2>7. recompute' = [recompute EXCEPT ![r] = y]
    BY <2>2, <2>3, <2>5
  <2>8. Current(y)
    BY <1>a, <2>1, <2>3, <2>4, <2>6 DEF Current
  <2> QED BY <1>10, <1>e, <1>g, <2>1, <2>7, <2>8 DEF Select
<1>11. ASSUME NEW r \in Recomputers, FlushDecision(r) PROVE InTurn'
  <2>1. /\ recompute[r] \in Running /\ recompute[r] # Idle
        /\ recompute[r].pc = "selected"
    BY <1>11, <1>a DEF FlushDecision, TypeOK, Idle
  <2>2. PICK y : y = [recompute[r] EXCEPT !.pc = "flushed"]
    OBVIOUS
  <2>3. recompute' = [recompute EXCEPT ![r] = y]
    BY <1>11, <2>2 DEF FlushDecision
  <2>4. /\ y.pc = "flushed" /\ y.seen = recompute[r].seen
        /\ y.stuck = recompute[r].stuck /\ y.codes = recompute[r].codes
        /\ y.row = recompute[r].row /\ y.was = recompute[r].was
    BY <2>1, <2>2, MovedOn
  <2>5. Current(y)
    BY <1>a, <2>1, <2>4 DEF Current
  <2> QED BY <1>11, <1>e, <1>g, <2>1, <2>3, <2>5 DEF FlushDecision
<1>12. ASSUME NEW r \in Recomputers, QueueTask(r) PROVE InTurn'
  <2>1. /\ recompute[r] \in Running /\ recompute[r] # Idle
        /\ recompute[r].pc = "flushed"
    BY <1>12, <1>a DEF QueueTask, TypeOK, Idle
  <2>2. PICK task \in BOOLEAN :
          task = (Outcome(r).verdict = "manual_review" /\ tasks = 0)
    OBVIOUS
  <2>3. PICK y : y = Queued(recompute[r], task)
    OBVIOUS
  <2>4. recompute' = [recompute EXCEPT ![r] = y]
    BY <1>12, <2>2, <2>3 DEF QueueTask, Queued
  <2>5. /\ y.pc = "queued" /\ y.seen = recompute[r].seen
        /\ y.stuck = recompute[r].stuck /\ y.codes = recompute[r].codes
        /\ y.row = recompute[r].row /\ y.was = recompute[r].was
        /\ y.task = task
    BY <2>1, <2>3, QueuedForm
  <2>6. y.task => tasks = 0
    BY <2>2, <2>5, Zenon
  <2>7. Current(y)
    BY <1>a, <2>1, <2>5, <2>6 DEF Current
  <2> QED BY <1>12, <1>e, <1>g, <2>1, <2>4, <2>7 DEF QueueTask
<1>13. ASSUME NEW r \in Recomputers, Commit(r) PROVE InTurn'
  <2>1. /\ recompute[r] \in Running /\ recompute[r].pc = "queued"
        /\ recompute[r] # Idle /\ Current(recompute[r])
    BY <1>13, <1>a, CommitRows, RunningNotIdle DEF Commit
  <2>2. PICK n \in Order : Rows' = {n} /\ decisions'[n] = Outcome(r)
    BY <1>13, OnlyDecision
  <2>3. /\ Outcome(r).codes = recompute[r].codes
        /\ Outcome(r).verdict = IF recompute[r].stuck THEN "blocked_dependency"
                                ELSE Verdict[recompute[r].codes]
    BY <2>1, OutcomeType
  <2>4. tasks' <= 1
    BY <1>13, <1>a, <2>1 DEF Commit, Current, Settled, TypeOK
  <2>5. DecisionReproducible'
    BY <2>2, <2>3 DEF DecisionReproducible
  <2>6. case' = CaseAfter(r) /\ blocked' = blocked
    BY <1>13 DEF Commit
  <2>7. CaseShowsDecision'
    BY <1>a, <2>1, <2>2, <2>6, CaseShowsOutcome DEF CaseShowsDecision, TypeOK
  <2>8. \A k \in Rows' : decisions'[k].verdict = "blocked_dependency" => blocked'
    <3>1. Verdict[recompute[r].codes] # "blocked_dependency"
      BY <2>1, ConstantsAssumption DEF Running
    <3> QED BY <2>1, <2>2, <2>3, <2>6, <3>1 DEF Current
  <2>9. \A j, k \in Rows' : j = k
    BY <2>2
  <2>10. ASSUME NEW s \in Recomputers PROVE Current(recompute[s])'
    <3>1. recompute'[s] = Idle
      BY <1>13, <1>a, <1>g, <2>1 DEF Commit, TypeOK
    <3> QED BY <3>1 DEF Current
  <2>11. \A s, t \in Recomputers : recompute'[s] # Idle /\ recompute'[t] # Idle => s = t
    BY <1>13, <1>a, <1>g, <2>1 DEF Commit, TypeOK
  <2> QED BY <2>4, <2>5, <2>7, <2>8, <2>9, <2>10, <2>11 DEF InTurn, Settled
<1>14. ASSUME NEW r \in Recomputers, Rollback(r) PROVE InTurn'
  BY <1>14, <1>e, <1>f, <1>g DEF Rollback
<1>15. CASE UNCHANGED vars
  BY <1>15, <1>d DEF vars
<1> QED BY <1>1, <1>2, <1>3, <1>4, <1>5, <1>6, <1>7, <1>8, <1>9, <1>10, <1>11,
           <1>12, <1>13, <1>14, <1>15 DEF Next, RecomputeStep

\* An overlap is not forgotten.
LEMMA OverlapStays == overlapped /\ TypeOK /\ [Next]_vars => overlapped'
BY DEF TypeOK, Next, RecomputeStep, vars, RecordConsent, ThirdCase, OcrNotConfigured,
       ReportSelect, ReportCommit, SubmitCheck, SubmitCommit, Load, List, Select,
       FlushDecision, QueueTask, Commit, Rollback

LEMMA SerialInvStep == SerialInv /\ [Next]_vars => SerialInv'
<1> SUFFICES ASSUME SerialInv, [Next]_vars PROVE SerialInv'
  OBVIOUS
<1>1. EvidenceInv'
  BY EvidenceInvStep DEF SerialInv
<1>2. CASE overlapped'
  BY <1>1, <1>2 DEF SerialInv
<1>3. CASE ~overlapped'
  <2>1. ~overlapped
    BY <1>3, OverlapStays DEF SerialInv, EvidenceInv, TypeInv
  <2>2. InTurn'
    BY <1>3, <2>1, InTurnStep DEF SerialInv
  <2> QED BY <1>1, <2>2 DEF SerialInv
<1> QED BY <1>2, <1>3

LEMMA SerialInvInit == Init => SerialInv
<1> SUFFICES ASSUME Init PROVE SerialInv
  OBVIOUS
<1>1. Rows = {} /\ tasks = 0
  BY DEF Init, Rows
<1>2. Settled
  BY <1>1 DEF Settled, DecisionReproducible, CaseShowsDecision
<1>3. \A r \in Recomputers : Current(recompute[r])
  BY DEF Init, Current
<1>4. \A r, s \in Recomputers : recompute[r] # Idle /\ recompute[s] # Idle => r = s
  BY DEF Init
<1> QED BY <1>2, <1>3, <1>4, EvidenceInvInit DEF SerialInv, InTurn

LEMMA SerialInvAlways == Spec => []SerialInv
BY SerialInvInit, SerialInvStep, PTL DEF Spec

\* Without a unique constraint a case has one decision and one open task as long
\* as recomputations run in turn, and however they overlap and roll back never
\* more of either than there are processes that recompute its risk: what is
\* repeated does not pile up.
THEOREM PileUpBounded ==
  ASSUME IsFiniteSet(Recomputers)
  PROVE  Spec => []NoPileUp
<1>1. Init => PileInv
  BY PileInvInit
<1>2. PileInv /\ [Next]_vars => PileInv'
  BY PileInvStep
<1>3. SerialInv /\ PileInv => NoPileUp
  <2> SUFFICES ASSUME SerialInv, PileInv PROVE NoPileUp
    OBVIOUS
  <2>1. /\ Cardinality(Rows) <= Cardinality(Recomputers)
        /\ tasks <= Cardinality(Recomputers)
    BY PileFinite DEF PileInv, PileBound, TypeInv, TypeOK
  <2>2. overlapped \/ NoDuplicates
    <3>1. CASE overlapped
      BY <3>1
    <3>2. CASE ~overlapped
      <4>1. tasks <= 1 /\ \A j, k \in Rows : j = k
        BY <3>2 DEF SerialInv, InTurn, Settled
      <4>2. CASE Rows = {}
        BY <4>1, <4>2, FS_EmptySet DEF NoDuplicates
      <4>3. CASE Rows # {}
        <5>1. PICK k : Rows = {k}
          BY <4>1, <4>3
        <5> QED BY <4>1, <5>1, FS_Singleton DEF NoDuplicates
      <4> QED BY <4>2, <4>3
    <3> QED BY <3>1, <3>2
  <2> QED BY <2>1, <2>2 DEF NoPileUp
<1> QED BY <1>1, <1>2, <1>3, SerialInvAlways, PTL DEF Spec

\* While recomputations run in turn every decision is the one its reasons give,
\* whatever commits between their statements, and the score and state of the case
\* are those of its decision.
THEOREM Consistent == Spec => []ConsistentInTurn
<1>1. SerialInv => ConsistentInTurn
  BY DEF SerialInv, InTurn, Settled, ConsistentInTurn
<1> QED BY <1>1, SerialInvAlways, PTL

\* While recomputations run in turn decisions only harden: what was decided is
\* never turned into something milder.
THEOREM DecisionsHarden == Spec => HardenInTurn
<1>1. SerialInv /\ [Next]_vars => [overlapped \/ Hardened]_vars
  <2> SUFFICES ASSUME EvidenceInv, InTurn, [Next]_vars, NEW k \in Rows
               PROVE  /\ k \in Rows'
                      /\ Strength[decisions[k].verdict] <=
                           Strength[decisions'[k].verdict]
    BY DEF SerialInv, Hardened
  <2>a. TypeOK /\ TypeInv /\ Settled
    BY DEF InTurn, EvidenceInv, TypeInv
  <2>b. decisions[k] \in Decision
    BY <2>a DEF Rows, TypeOK
  <2>c. Strength[decisions[k].verdict] \in 0 .. 3
    BY <2>b, Strengths DEF Decision, Decided
  <2>1. CASE decisions' = decisions
    BY <2>1, <2>c DEF Rows
  <2>2. ASSUME NEW r \in Recomputers, Commit(r)
        PROVE  /\ k \in Rows'
               /\ Strength[decisions[k].verdict] <= Strength[decisions'[k].verdict]
    <3>1. /\ recompute[r] \in Running /\ recompute[r].pc = "queued"
          /\ recompute[r] # Idle /\ Current(recompute[r])
      BY <2>2, <2>a, CommitRows, RunningNotIdle DEF Commit, InTurn
    <3>2. k \in Rows' /\ decisions'[k] = Outcome(r)
      BY <2>2, OnlyDecision
    <3>3. /\ decisions[k].codes \subseteq recompute[r].codes
          /\ decisions[k].verdict = "blocked_dependency" => recompute[r].stuck
      BY <3>1 DEF Current
    <3>4. Outcome(r).verdict = IF recompute[r].stuck THEN "blocked_dependency"
                               ELSE Verdict[recompute[r].codes]
      BY <3>1, OutcomeType
    <3>5. CASE recompute[r].stuck
      BY <3>2, <3>4, <3>5, <2>c, Strengths
    <3>6. CASE ~recompute[r].stuck
      <4>1. decisions[k].verdict = Verdict[decisions[k].codes]
        BY <2>a, <3>3, <3>6 DEF Settled, DecisionReproducible
      <4>2. decisions[k].codes \in SUBSET Code /\ recompute[r].codes \in SUBSET Code
        BY <2>b, <3>1 DEF Decision, Running
      <4>3. Strength[Verdict[decisions[k].codes]] <=
              Strength[Verdict[recompute[r].codes]]
        BY <3>3, <4>2, MonotoneAssumption
      <4> QED BY <3>2, <3>4, <3>6, <4>1, <4>3
    <3> QED BY <3>2, <3>5, <3>6
  <2> QED
    BY <2>1, <2>2
       DEF Next, RecomputeStep, vars, RecordConsent, ThirdCase, OcrNotConfigured,
           ReportSelect, ReportCommit, SubmitCheck, SubmitCommit, Load, List,
           Select, FlushDecision, QueueTask, Rollback
<1> QED BY <1>1, SerialInvAlways, PTL DEF Spec, HardenInTurn

-----------------------------------------------------------------------------
(* The policy in force.                                                    *)

PolicyProofs == INSTANCE RiskPolicy_proofs WITH signals <- <<>>, MaxSignals <- 0

\* The instance above and that of MCCaseRisk are of the same module.
LEMMA SamePolicy ==
  /\ {s.code : s \in PolicyProofs!AllSignals} = {s.code : s \in Policy!AllSignals}
  /\ \A c : PolicyProofs!SignalOf(c) = Policy!SignalOf(c)
  /\ \A C : PolicyProofs!SetToSeq(C) = Policy!SetToSeq(C)
  /\ \A l : PolicyProofs!Decision(l, FALSE) = Policy!Decision(l, FALSE)
<1>1. PolicyProofs!AllSignals = Policy!AllSignals
  BY DEF PolicyProofs!AllSignals, PolicyProofs!CaseSignals,
     PolicyProofs!ProviderSignals,
         PolicyProofs!Signal, Policy!AllSignals, Policy!CaseSignals,
         Policy!ProviderSignals, Policy!Signal
<1>2. ASSUME NEW c PROVE PolicyProofs!SignalOf(c) = Policy!SignalOf(c)
  BY <1>1 DEF PolicyProofs!SignalOf, Policy!SignalOf
<1>3. ASSUME NEW C PROVE PolicyProofs!SetToSeq(C) = Policy!SetToSeq(C)
  BY DEF PolicyProofs!SetToSeq, PolicyProofs!IsInjective, PolicyProofs!Cardinality,
         Policy!SetToSeq, Policy!IsInjective, Policy!Cardinality
<1>4. ASSUME NEW l PROVE PolicyProofs!Decision(l, FALSE) = Policy!Decision(l, FALSE)
  <2>1. PolicyProofs!MapThenSumSet(LAMBDA i : l[i].weight, PolicyProofs!ByCode(l))
        = Policy!MapThenSumSet(LAMBDA i : l[i].weight, Policy!ByCode(l))
    BY DEF PolicyProofs!MapThenSumSet, PolicyProofs!MapThenFoldSet, PolicyProofs!ByCode,
           Policy!MapThenSumSet, Policy!MapThenFoldSet, Policy!ByCode
  <2>2. PolicyProofs!Score(l) = Policy!Score(l)
    BY <2>1 DEF PolicyProofs!Score, PolicyProofs!Min, Policy!Score, Policy!Min
  <2> QED
    BY <2>2
       DEF PolicyProofs!Decision, PolicyProofs!ToSet, PolicyProofs!hard_reject_codes,
           PolicyProofs!hard_review_codes, PolicyProofs!reject_at,
           PolicyProofs!approve_below, Policy!Decision, Policy!ToSet,
           Policy!hard_reject_codes, Policy!hard_review_codes, Policy!reject_at,
           Policy!approve_below
<1> QED BY <1>1, <1>2, <1>3, <1>4

\* The policy in force is one that the assumptions allow, whichever of its codes
\* are in use: ConstantsAssumption and MonotoneAssumption hold of it.
THEOREM PolicyInForce ==
  ASSUME Code \subseteq {s.code : s \in Policy!AllSignals}
  PROVE  /\ VerdictInForce \in [SUBSET Code -> {"approved", "manual_review", "rejected"}]
         /\ \A S, T \in SUBSET Code :
              S \subseteq T => Strength[VerdictInForce[S]] <= Strength[VerdictInForce[T]]
<1> DEFINE Of(C) ==
             Policy!Decision(Policy!SetToSeq({Policy!SignalOf(c) : c \in C}), FALSE)
<1>1. ASSUME NEW S \in SUBSET Code, NEW T \in SUBSET Code, S \subseteq T
      PROVE  /\ Of(S) \in {"approved", "manual_review", "rejected"}
             /\ PolicyProofs!Strength(Of(S)) <= PolicyProofs!Strength(Of(T))
  <2>1. T \subseteq {s.code : s \in PolicyProofs!AllSignals}
    BY SamePolicy
  <2>2. \A C : {PolicyProofs!SignalOf(c) : c \in C} = {Policy!SignalOf(c) : c \in C}
    BY SamePolicy
  <2>3. \A C : Of(C) = PolicyProofs!Decision(PolicyProofs!SetToSeq(
                         {PolicyProofs!SignalOf(c) : c \in C}), FALSE)
    BY <2>2, SamePolicy
  <2> HIDE DEF Of
  <2> QED BY <1>1, <2>1, <2>3, PolicyProofs!VerdictHardens
<1>2. \A S \in SUBSET Code : VerdictInForce[S] = Of(S)
  BY DEF VerdictInForce
<1>3. \A v \in {"approved", "manual_review", "rejected"} :
        Strength[v] = PolicyProofs!Strength(v)
  BY DEF Strength, PolicyProofs!Strength
<1>4. VerdictInForce \in [SUBSET Code -> {"approved", "manual_review", "rejected"}]
  BY <1>1 DEF VerdictInForce
<1> HIDE DEF Of
<1> QED BY <1>1, <1>2, <1>3, <1>4

===============================================================================
