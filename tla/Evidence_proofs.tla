----------------------------- MODULE Evidence_proofs -----------------------------
(***************************************************************************)
(* Proofs about what a decision on a case rests on, for any numbers of      *)
(* callbacks, documents and requests.                                       *)
(*                                                                         *)
(* First VerificationCallbacks, with the lock of a step's row as the core   *)
(* of the argument.  Then AuditTrail.  Last the composition: MCEvidence     *)
(* implements each of its components, whose theorems, those about the       *)
(* documents and the policy included, thereby hold of it.                   *)
(***************************************************************************)
EXTENDS MCEvidence, TLAPS

\* A callback whose row is known has been read by a step that is recorded.
RowKnown ==
  \A d \in Deliveries :
    pc[d] \notin {"idle", "refused"} => seen[d] \in Row /\ row[StepOf(d)] \in Row

-----------------------------------------------------------------------------
(* The functions a body is read with.                                      *)

LEMMA ReportForm ==
  ASSUME NEW b \in Reports
  PROVE  Content[b].step \in Steps /\ StatusOf(b) \in Status /\ CodesOf(b) \in SUBSET Code
<1>1. Content[b] \in ParsedCallback
  BY ConstantsAssumption
<1>2. Content[b].step \in Steps /\ Content[b].raw \in RawStatus
  BY <1>1 DEF ParsedCallback
<1>3. \A raw \in RawStatus : MapStatus[raw] \in Status
  BY DEF MapStatus, RawStatus, Status
<1>4. StatusOf(b) \in Status
  BY <1>2, <1>3 DEF StatusOf
<1>5. \A s \in Status : OutcomeCodes[s] \in SUBSET Code
  BY DEF OutcomeCodes, Status, Code
<1>6. CodesOf(b) \in SUBSET Code
  BY <1>4, <1>5 DEF CodesOf, Code
<1> QED BY <1>2, <1>4, <1>6

LEMMA WrittenForm ==
  ASSUME NEW d \in Deliveries, NEW r \in Row, report[d] \in Reports
  PROVE  Written(d, r) \in Row
<1>1. StatusOf(report[d]) \in Status
  BY ReportForm
<1> QED BY <1>1 DEF Written, Row

-----------------------------------------------------------------------------
(* Types.                                                                  *)

LEMMA TypeInit == Init => TypeOK /\ RowKnown
BY DEF Init, TypeOK, RowKnown, Phase

LEMMA TypeStep == TypeOK /\ RowKnown /\ [Next]_vars => TypeOK' /\ RowKnown'
<1> SUFFICES ASSUME TypeOK, RowKnown, [Next]_vars PROVE TypeOK' /\ RowKnown'
  OBVIOUS
<1> USE DEF tables
<1>0. /\ NoRow \notin Row
      /\ \A d \in Deliveries : StepOf(d) \in Steps
  BY ReportForm DEF TypeOK, NoRow, Row, Status, StepOf
<1>a. ASSUME UNCHANGED <<row, signals, report, seen, todo, raised>>,
             phase' \in [Steps -> {"none", "open", "recorded", "lost"}],
             pc' \in [Deliveries -> Phase],
             \A d \in Deliveries : pc[d] \in {"idle", "refused"} => pc'[d] = pc[d]
      PROVE  TypeOK' /\ RowKnown'
  BY <1>a DEF TypeOK, RowKnown, StepOf
<1>1. ASSUME NEW s \in Steps, OpenSession(s) \/ LoseStep(s) PROVE TypeOK' /\ RowKnown'
  BY <1>1, <1>a DEF OpenSession, LoseStep, TypeOK
<1>2. ASSUME NEW s \in Steps, RecordStep(s) PROVE TypeOK' /\ RowKnown'
  <2>1. PICK raw \in {"processing", "missing"} :
          row' = [row EXCEPT ![s] = [status |-> MapStatus[raw], shown |-> "session",
                                     hash |-> "session", completed |-> FALSE]]
    BY <1>2 DEF RecordStep
  <2>2. MapStatus[raw] \in Status
    BY DEF MapStatus, RawStatus, Status
  <2>3. [status |-> MapStatus[raw], shown |-> "session", hash |-> "session",
         completed |-> FALSE] \in Row
    BY <2>2 DEF Row
  <2>4. TypeOK'
    BY <1>2, <2>1, <2>3 DEF RecordStep, TypeOK
  <2>5. RowKnown'
    BY <1>0, <1>2, <2>1, <2>3 DEF RecordStep, TypeOK, RowKnown, StepOf
  <2> QED BY <2>4, <2>5
<1>3. ASSUME NEW d \in Deliveries, Receive(d) PROVE TypeOK' /\ RowKnown'
  <2>1. row[StepOf(d)] \in Row \cup {NoRow}
    BY <1>0 DEF TypeOK
  <2>2. TypeOK'
    BY <1>3, <2>1 DEF Receive, Advance, TypeOK, Phase
  <2>3. RowKnown'
    BY <1>0, <1>3, <2>1 DEF Receive, Advance, TypeOK, RowKnown, StepOf
  <2> QED BY <2>2, <2>3
<1>4. ASSUME NEW d \in Deliveries, Flush(d) PROVE TypeOK' /\ RowKnown'
  <2>1. CodesOf(report[d]) \in SUBSET Code
    BY ReportForm DEF TypeOK
  <2> QED BY <1>4, <2>1 DEF Flush, Advance, TypeOK, RowKnown, Phase, StepOf
<1>5. ASSUME NEW d \in Deliveries, RaiseSignal(d) PROVE TypeOK' /\ RowKnown'
  <2>1. PICK c \in todo[d] :
          /\ todo' = [todo EXCEPT ![d] = @ \ {c}]
          /\ raised' = IF \E x \in signals : x.code = c THEN raised
                       ELSE [raised EXCEPT ![d] = @ \cup {[code |-> c, by |-> d]}]
    BY <1>5 DEF RaiseSignal
  <2>2. [code |-> c, by |-> d] \in Signal
    BY DEF TypeOK, Signal
  <2>3. TypeOK'
    BY <1>5, <2>1, <2>2 DEF RaiseSignal, TypeOK
  <2> QED BY <1>5, <2>3 DEF RaiseSignal, RowKnown, StepOf
<1>6. ASSUME NEW d \in Deliveries, Return(d) \/ Raise(d) \/ Close(d) \/ Rollback(d)
      PROVE  TypeOK' /\ RowKnown'
  BY <1>6, <1>a DEF Return, Raise, Close, Rollback, Advance, OnLoop, TypeOK, Phase
<1>7. ASSUME NEW d \in Deliveries, Commit(d) PROVE TypeOK' /\ RowKnown'
  <2>1. row[StepOf(d)] \in Row
    BY <1>7 DEF Commit, RowKnown
  <2>2. PICK y : y = Written(d, row[StepOf(d)])
    OBVIOUS
  <2>3. y \in Row
    BY <2>1, <2>2, WrittenForm DEF TypeOK
  <2>4. row' = [row EXCEPT ![StepOf(d)] = y]
    BY <1>7, <2>2 DEF Commit
  <2>5. TypeOK'
    BY <1>7, <2>3, <2>4 DEF Commit, Advance, TypeOK, Phase
  <2>6. RowKnown'
    BY <1>0, <1>7, <2>3, <2>4 DEF Commit, Advance, TypeOK, RowKnown, StepOf
  <2> QED BY <2>5, <2>6
<1>8. ASSUME NEW p \in Replicas, Crash(p) PROVE TypeOK' /\ RowKnown'
  BY <1>8, <1>a DEF Crash, TypeOK, Phase
<1>9. CASE UNCHANGED vars
  BY <1>9 DEF vars, TypeOK, RowKnown, StepOf
<1> QED BY <1>1, <1>2, <1>3, <1>4, <1>5, <1>6, <1>7, <1>8, <1>9 DEF Next, Go

\* Every variable keeps its shape, whatever the provider sends and however the
\* callbacks overlap and fail.
THEOREM TypeCorrect == Spec => []TypeOK
<1>1. Spec => [](TypeOK /\ RowKnown)
  BY TypeInit, TypeStep, PTL DEF Spec
<1> QED BY <1>1, PTL

-----------------------------------------------------------------------------
(* The invariant behind the safety properties.                             *)

\* The case has the risk code.
Has(c) == \E x \in signals : x.code = c

\* Some callback that was applied brought this body.
Applied(b) == \E d \in Deliveries : pc[d] = "committed" /\ report[d] = b

\* The requests that looked, look, or may still commit.
Looking == {"flushed", "returned", "closing"}

LockExclusive ==
  \A d, e \in Deliveries : Locks(d) /\ Locks(e) /\ StepOf(d) = StepOf(e) => d = e

\* A hash that a request finds in the row is that of a body that was applied.
HashApplied ==
  /\ \A s \in Steps : row[s].hash \in Reports => row[s] = NoRow \/ Applied(row[s].hash)
  /\ \A d \in Deliveries :
       pc[d] \notin {"idle", "refused"} /\ seen[d].hash \in Reports => Applied(seen[d].hash)

\* What a request raises is its own, and comes from its report.
RaisedOwn ==
  \A d \in Deliveries :
    /\ \A x \in raised[d] : x.by = d /\ x.code \in CodesOf(report[d])
    /\ pc[d] \in {"idle", "loaded", "refused"} => raised[d] = {}
    /\ pc[d] = "flushed" => todo[d] \subseteq CodesOf(report[d])

\* Every code of the report is on record, raised, or still to be looked at.
Covered ==
  \A d \in Deliveries : pc[d] \in Looking =>
    \A c \in CodesOf(report[d]) :
      \/ Has(c)
      \/ \E x \in raised[d] : x.code = c
      \/ pc[d] = "flushed" /\ c \in todo[d]

\* A request that raises a signal holds the row of its step, and no other
\* callback of this step has raised it.
RaisedFresh ==
  \A d \in Deliveries : pc[d] \in Looking =>
    \A x \in raised[d] :
      Locks(d) /\ \A y \in signals : y.code = x.code => StepOf(y.by) # StepOf(d)

\* ... and no callback of the step that was applied has reported it.
RaisedFirst ==
  \A d, e \in Deliveries :
    pc[d] \in Looking /\ pc[e] = "committed" /\ StepOf(e) = StepOf(d) =>
      \A x \in raised[d] : x.code \notin CodesOf(report[e])

Inv == /\ LockExclusive /\ HashApplied /\ RaisedOwn /\ Covered /\ RaisedFresh
       /\ RaisedFirst /\ SignalsMatchTrail /\ OncePerStep

-----------------------------------------------------------------------------
\* The steps that neither read a row, look for a signal nor commit.
Quiet ==
  /\ UNCHANGED <<signals, report, seen, todo, raised>>
  /\ \A s \in Steps : row'[s] = row[s] \/ row'[s].hash = "session"
  /\ \A d \in Deliveries :
       \/ pc'[d] = pc[d]
       \/ pc[d] \notin {"idle", "refused", "committed"} /\ pc'[d] = "failed"
       \/ pc[d] = "flushed" /\ pc'[d] = "raised"
       \/ pc[d] = "raised" /\ pc'[d] = "unwinding"
       \/ pc[d] = "flushed" /\ todo[d] = {} /\ pc'[d] = "returned"
       \/ pc[d] = "returned" /\ pc'[d] = "closing"

LEMMA StepCases ==
  ASSUME TypeOK, [Next]_vars
  PROVE  \/ Quiet
         \/ \E d \in Deliveries : Receive(d) \/ Flush(d) \/ RaiseSignal(d) \/ Commit(d)
<1> USE DEF tables
<1>1. ASSUME NEW s \in Steps, OpenSession(s) \/ LoseStep(s) PROVE Quiet
  BY <1>1 DEF OpenSession, LoseStep, Quiet
<1>2. ASSUME NEW s \in Steps, RecordStep(s) PROVE Quiet
  <2>1. PICK raw \in {"processing", "missing"} :
          row' = [row EXCEPT ![s] = [status |-> MapStatus[raw], shown |-> "session",
                                     hash |-> "session", completed |-> FALSE]]
    BY <1>2 DEF RecordStep
  <2>2. \A t \in Steps : row'[t] = row[t] \/ row'[t].hash = "session"
    BY <2>1 DEF TypeOK
  <2> QED BY <1>2, <2>2 DEF RecordStep, Quiet
<1>3. ASSUME NEW d \in Deliveries, Return(d) \/ Raise(d) \/ Close(d) \/ Rollback(d)
      PROVE  Quiet
  BY <1>3 DEF Return, Raise, Close, Rollback, Advance, OnLoop, Quiet, TypeOK
<1>4. ASSUME NEW p \in Replicas, Crash(p) PROVE Quiet
  BY <1>4 DEF Crash, Quiet, TypeOK
<1>5. CASE UNCHANGED vars
  BY <1>5 DEF vars, Quiet
<1> QED BY <1>1, <1>2, <1>3, <1>4, <1>5 DEF Next, Go

\* What a step leaves alone.
LEMMA Rigid ==
  ASSUME NEW d \in Deliveries, report' = report
  PROVE  StepOf(d)' = StepOf(d) /\ (seen'[d] = seen[d] => Changes(d)' = Changes(d))
BY DEF StepOf, Changes

LEMMA InvInit == Init => Inv
<1> SUFFICES ASSUME Init PROVE Inv
  OBVIOUS
<1> USE DEF Init
<1>1. LockExclusive
  BY DEF LockExclusive, Locks
<1>2. HashApplied
  BY DEF HashApplied
<1>3. RaisedOwn
  BY DEF RaisedOwn
<1>4. Covered /\ RaisedFresh /\ RaisedFirst
  BY DEF Covered, RaisedFresh, RaisedFirst, Looking
<1>5. SignalsMatchTrail /\ OncePerStep
  BY DEF SignalsMatchTrail, OncePerStep
<1> QED BY <1>1, <1>2, <1>3, <1>4, <1>5 DEF Inv

LEMMA QuietStep ==
  ASSUME TypeOK, RowKnown, Inv, Quiet
  PROVE  Inv'
<1>1. /\ \A d \in Deliveries : StepOf(d)' = StepOf(d) /\ Changes(d)' = Changes(d)
      /\ \A x \in signals : StepOf(x.by)' = StepOf(x.by)
  BY DEF Quiet, StepOf, Changes
<1>2. \A d \in Deliveries : Locks(d)' => Locks(d)
  BY <1>1 DEF Quiet, Locks
<1>3. \A d \in Deliveries : pc'[d] = "committed" <=> pc[d] = "committed"
  BY DEF Quiet
<1>5. LockExclusive'
  BY <1>1, <1>2 DEF Inv, LockExclusive
<1>6. HashApplied'
  <2>1. ASSUME NEW s \in Steps, row'[s].hash \in Reports
        PROVE  row'[s] = NoRow \/ Applied(row[s].hash)'
    BY <1>3, <2>1, ConstantsAssumption DEF Inv, HashApplied, Applied, Quiet
  <2>2. ASSUME NEW d \in Deliveries, pc'[d] \notin {"idle", "refused"},
               seen'[d].hash \in Reports
        PROVE  Applied(seen[d].hash)'
    BY <1>3, <2>2 DEF Inv, HashApplied, Applied, Quiet
  <2> QED BY <2>1, <2>2 DEF HashApplied
<1>7. RaisedOwn'
  <2>2. ASSUME NEW d \in Deliveries
        PROVE  /\ \A x \in raised'[d] : x.by = d /\ x.code \in CodesOf(report'[d])
               /\ pc'[d] \in {"idle", "loaded", "refused"} => raised'[d] = {}
               /\ pc'[d] = "flushed" => todo'[d] \subseteq CodesOf(report'[d])
    BY DEF Inv, RaisedOwn, Quiet
  <2> QED BY <2>2 DEF RaisedOwn, CodesOf, StatusOf
<1>8. Covered'
  <2>1. ASSUME NEW d \in Deliveries, pc'[d] \in Looking, NEW c \in CodesOf(report[d])
        PROVE  \/ Has(c)
               \/ \E x \in raised[d] : x.code = c
               \/ pc'[d] = "flushed" /\ c \in todo[d]
    BY <2>1 DEF Inv, Covered, Quiet, Looking
  <2> QED BY <2>1 DEF Covered, Quiet, Has, Looking, CodesOf, StatusOf
<1>9. RaisedFresh'
  <2>1. ASSUME NEW d \in Deliveries, pc'[d] \in Looking, NEW x \in raised[d]
        PROVE  /\ Locks(d)'
               /\ \A y \in signals : y.code = x.code => StepOf(y.by) # StepOf(d)
    <3>1. pc[d] \in Looking
      BY <2>1 DEF Quiet, Looking
    <3>2. Locks(d)
      BY <3>1 DEF Inv, RaisedFresh
    <3>3. Locks(d)'
      BY <1>1, <2>1, <3>2 DEF Locks, Looking
    <3> QED BY <3>1, <3>3 DEF Inv, RaisedFresh
  <2> QED BY <1>1, <2>1 DEF RaisedFresh, Quiet, Looking
<1>10. SignalsMatchTrail'
  BY <1>3 DEF Inv, SignalsMatchTrail, Quiet, CodesOf, StatusOf
<1>11. OncePerStep'
  BY <1>1 DEF Inv, OncePerStep, Quiet
<1>12. RaisedFirst'
  <2>1. \A d \in Deliveries : pc'[d] \in Looking => pc[d] \in Looking
    BY DEF Quiet, Looking
  <2> QED BY <1>1, <1>3, <2>1 DEF Inv, RaisedFirst, Quiet, Looking, CodesOf, StatusOf
<1> QED BY <1>5, <1>6, <1>7, <1>8, <1>9, <1>10, <1>11, <1>12 DEF Inv

LEMMA ReceiveStep ==
  ASSUME TypeOK, RowKnown, Inv, NEW d \in Deliveries, Receive(d)
  PROVE  Inv'
<1> USE DEF tables
<1>1. /\ \A e \in Deliveries : StepOf(e)' = StepOf(e)
      /\ \A x \in signals : StepOf(x.by)' = StepOf(x.by)
  BY DEF Receive, StepOf
<1>2. /\ pc[d] = "idle" /\ pc'[d] \in {"refused", "loaded"}
      /\ \A e \in Deliveries \ {d} : pc'[e] = pc[e] /\ seen'[e] = seen[e]
      /\ seen'[d] = row[StepOf(d)]
      /\ pc'[d] = "loaded" => row[StepOf(d)] # NoRow
      /\ UNCHANGED <<row, signals, report, todo, raised>>
  BY DEF Receive, Advance, TypeOK
<1>3. \A e \in Deliveries : Locks(e)' => e # d /\ Locks(e)
  BY <1>2 DEF Locks, Changes
<1>4. \A e \in Deliveries \ {d} : Locks(e) => Locks(e)'
  BY <1>2 DEF Locks, Changes
<1>5. \A e \in Deliveries : pc'[e] = "committed" <=> pc[e] = "committed"
  BY <1>2
<1>6. LockExclusive'
  BY <1>1, <1>3 DEF Inv, LockExclusive
<1>7. HashApplied'
  <2>1. ASSUME NEW s \in Steps, row'[s].hash \in Reports
        PROVE  row'[s] = NoRow \/ Applied(row[s].hash)'
    BY <1>2, <1>5, <2>1 DEF Inv, HashApplied, Applied
  <2>2. ASSUME NEW e \in Deliveries, pc'[e] \notin {"idle", "refused"},
               seen'[e].hash \in Reports
        PROVE  Applied(seen[e].hash)'
    <3>1. CASE e = d
      <4>1. StepOf(d) \in Steps
        BY ReportForm DEF TypeOK, StepOf
      <4> QED BY <1>2, <1>5, <2>2, <3>1, <4>1 DEF Inv, HashApplied, Applied
    <3>2. CASE e # d
      BY <1>2, <1>5, <2>2, <3>2 DEF Inv, HashApplied, Applied
    <3> QED BY <3>1, <3>2
  <2> QED BY <2>1, <2>2 DEF HashApplied
<1>8. RaisedOwn'
  BY <1>2 DEF Inv, RaisedOwn, CodesOf, StatusOf
<1>9. Covered'
  BY <1>2 DEF Inv, Covered, Has, Looking, CodesOf, StatusOf
<1>10. RaisedFresh'
  <2>1. ASSUME NEW e \in Deliveries, pc'[e] \in Looking, NEW x \in raised[e]
        PROVE  /\ Locks(e)'
               /\ \A y \in signals : y.code = x.code => StepOf(y.by) # StepOf(e)
    BY <1>2, <1>4, <2>1 DEF Inv, RaisedFresh, Looking
  <2> QED BY <1>1, <1>2, <2>1 DEF RaisedFresh, Looking
<1>11. SignalsMatchTrail'
  BY <1>2, <1>5 DEF Inv, SignalsMatchTrail, CodesOf, StatusOf
<1>12. OncePerStep'
  BY <1>1, <1>2 DEF Inv, OncePerStep
<1>13. RaisedFirst'
  BY <1>1, <1>2, <1>5 DEF Inv, RaisedFirst, Looking, CodesOf, StatusOf
<1> QED BY <1>6, <1>7, <1>8, <1>9, <1>10, <1>11, <1>12, <1>13 DEF Inv

LEMMA FlushStep ==
  ASSUME TypeOK, RowKnown, Inv, NEW d \in Deliveries, Flush(d)
  PROVE  Inv'
<1> USE DEF tables
<1>1. /\ \A e \in Deliveries : StepOf(e)' = StepOf(e) /\ Changes(e)' = Changes(e)
      /\ \A x \in signals : StepOf(x.by)' = StepOf(x.by)
  BY DEF Flush, StepOf, Changes
<1>2. /\ pc[d] = "loaded" /\ pc'[d] = "flushed"
      /\ todo'[d] = CodesOf(report[d])
      /\ \A e \in Deliveries \ {d} : pc'[e] = pc[e] /\ todo'[e] = todo[e]
      /\ UNCHANGED <<row, signals, report, seen, raised>>
  BY DEF Flush, Advance, TypeOK
<1>3. \A e \in Deliveries \ {d} : Locks(e)' <=> Locks(e)
  BY <1>1, <1>2 DEF Locks
<1>4. Locks(d)' => \A e \in Deliveries \ {d} : ~(Locks(e) /\ StepOf(e) = StepOf(d))
  BY <1>1 DEF Flush, Locks
<1>5. \A e \in Deliveries : pc'[e] = "committed" <=> pc[e] = "committed"
  BY <1>2
<1>6. LockExclusive'
  BY <1>1, <1>3, <1>4 DEF Inv, LockExclusive
<1>7. HashApplied'
  BY <1>2, <1>5 DEF Inv, HashApplied, Applied
<1>8. raised[d] = {}
  BY <1>2 DEF Inv, RaisedOwn
<1>9. RaisedOwn'
  BY <1>2, <1>8 DEF Inv, RaisedOwn, CodesOf, StatusOf
<1>10. Covered'
  BY <1>2 DEF Inv, Covered, Has, Looking, CodesOf, StatusOf
<1>11. RaisedFresh'
  <2>1. ASSUME NEW e \in Deliveries, pc'[e] \in Looking, NEW x \in raised[e]
        PROVE  /\ Locks(e)'
               /\ \A y \in signals : y.code = x.code => StepOf(y.by) # StepOf(e)
    BY <1>2, <1>3, <1>8, <2>1 DEF Inv, RaisedFresh, Looking
  <2> QED BY <1>1, <1>2, <2>1 DEF RaisedFresh, Looking
<1>12. SignalsMatchTrail'
  BY <1>2, <1>5 DEF Inv, SignalsMatchTrail, CodesOf, StatusOf
<1>13. OncePerStep'
  BY <1>1, <1>2 DEF Inv, OncePerStep
<1>14. RaisedFirst'
  BY <1>1, <1>2, <1>5, <1>8 DEF Inv, RaisedFirst, Looking, CodesOf, StatusOf
<1> QED BY <1>6, <1>7, <1>9, <1>10, <1>11, <1>12, <1>13, <1>14 DEF Inv

\* A request that has nothing to write brings a body that was applied before:
\* every code of it is on record.
LEMMA NothingNew ==
  ASSUME TypeOK, RowKnown, Inv, NEW d \in Deliveries, pc[d] = "flushed",
         Changes(d) = {}, NEW c \in CodesOf(report[d])
  PROVE  Has(c)
<1>1. seen[d].hash = report[d] /\ report[d] \in Reports
  BY DEF Changes, TypeOK
<1>2. PICK e \in Deliveries : pc[e] = "committed" /\ report[e] = report[d]
  BY <1>1 DEF Inv, HashApplied, Applied
<1>3. c \in Code
  BY <1>1, ReportForm
<1> QED BY <1>2, <1>3 DEF Inv, SignalsMatchTrail, Has

LEMMA RaiseStep ==
  ASSUME TypeOK, RowKnown, Inv, NEW d \in Deliveries, RaiseSignal(d)
  PROVE  Inv'
<1> USE DEF tables
<1>1. /\ \A e \in Deliveries : /\ StepOf(e)' = StepOf(e) /\ Changes(e)' = Changes(e)
                               /\ Locks(e)' <=> Locks(e)
      /\ \A x \in signals : StepOf(x.by)' = StepOf(x.by)
  BY DEF RaiseSignal, StepOf, Changes, Locks
<1>2. PICK c \in todo[d] :
        /\ todo' = [todo EXCEPT ![d] = @ \ {c}]
        /\ raised' = IF Has(c) THEN raised
                     ELSE [raised EXCEPT ![d] = @ \cup {[code |-> c, by |-> d]}]
  BY DEF RaiseSignal, Has
<1>3. /\ pc[d] = "flushed"
      /\ UNCHANGED <<row, signals, pc, report, seen>>
  BY DEF RaiseSignal
<1>4. PICK new : new = [code |-> c, by |-> d]
  OBVIOUS
<1>5. new.code = c /\ new.by = d
  BY <1>4
<1>6. /\ todo'[d] = todo[d] \ {c}
      /\ raised'[d] = IF Has(c) THEN raised[d] ELSE raised[d] \cup {new}
      /\ \A e \in Deliveries \ {d} : todo'[e] = todo[e] /\ raised'[e] = raised[e]
  BY <1>2, <1>4 DEF TypeOK
<1>7. c \in CodesOf(report[d])
  BY <1>2, <1>3 DEF Inv, RaisedOwn
<1>8. ~Has(c) => Locks(d)
  BY <1>3, <1>7, NothingNew DEF Locks
<1>9. LockExclusive'
  BY <1>1 DEF Inv, LockExclusive
<1>10. HashApplied'
  BY <1>3 DEF Inv, HashApplied, Applied
<1>11. RaisedOwn'
  BY <1>3, <1>5, <1>6, <1>7 DEF Inv, RaisedOwn, CodesOf, StatusOf
<1>12. Covered'
  <2>1. ASSUME NEW e \in Deliveries, pc[e] \in Looking, NEW k \in CodesOf(report[e])
        PROVE  \/ Has(k)
               \/ \E x \in raised'[e] : x.code = k
               \/ pc[e] = "flushed" /\ k \in todo'[e]
    BY <1>5, <1>6, <2>1 DEF Inv, Covered
  <2> QED BY <1>3, <2>1 DEF Covered, Has, Looking, CodesOf, StatusOf
<1>13. RaisedFresh'
  <2>1. ASSUME NEW e \in Deliveries, pc[e] \in Looking, NEW x \in raised'[e]
        PROVE  /\ Locks(e)
               /\ \A y \in signals : y.code = x.code => StepOf(y.by) # StepOf(e)
    <3>1. CASE x \in raised[e]
      BY <2>1, <3>1 DEF Inv, RaisedFresh
    <3>2. CASE x \notin raised[e]
      <4>1. e = d /\ ~Has(c) /\ x = new
        BY <1>6, <2>1, <3>2
      <4> QED BY <1>5, <1>8, <4>1 DEF Has
    <3> QED BY <3>1, <3>2
  <2> QED BY <1>1, <1>3, <2>1 DEF RaisedFresh, Looking
<1>14. SignalsMatchTrail'
  BY <1>3 DEF Inv, SignalsMatchTrail, CodesOf, StatusOf
<1>15. OncePerStep'
  BY <1>1, <1>3 DEF Inv, OncePerStep
<1>16. RaisedFirst'
  <2>1. ASSUME NEW a \in Deliveries, NEW e \in Deliveries, pc[a] \in Looking,
               pc[e] = "committed", StepOf(e) = StepOf(a), NEW x \in raised'[a]
        PROVE  x.code \notin CodesOf(report[e])
    <3>1. CASE x \in raised[a]
      BY <2>1, <3>1 DEF Inv, RaisedFirst
    <3>2. CASE x \notin raised[a]
      <4>1. ~Has(c) /\ x.code = c
        BY <1>5, <1>6, <2>1, <3>2
      <4>2. c \in Code
        BY <1>2 DEF TypeOK
      <4> QED BY <2>1, <4>1, <4>2 DEF Inv, SignalsMatchTrail, Has
    <3> QED BY <3>1, <3>2
  <2> QED BY <1>1, <1>3, <2>1 DEF RaisedFirst, Looking, CodesOf, StatusOf
<1> QED BY <1>9, <1>10, <1>11, <1>12, <1>13, <1>14, <1>15, <1>16 DEF Inv

LEMMA CommitStep ==
  ASSUME TypeOK, RowKnown, Inv, NEW d \in Deliveries, Commit(d)
  PROVE  Inv'
<1> USE DEF tables
<1>1. /\ pc[d] = "closing" /\ pc'[d] = "committed"
      /\ \A e \in Deliveries \ {d} : pc'[e] = pc[e]
      /\ signals' = signals \cup raised[d]
      /\ UNCHANGED <<phase, report, seen, todo, raised>>
  BY DEF Commit, Advance, TypeOK
<1>2. \A e \in Deliveries : StepOf(e)' = StepOf(e) /\ Changes(e)' = Changes(e)
  BY <1>1 DEF StepOf, Changes
<1>3. \A e \in Deliveries : Locks(e)' <=> e # d /\ Locks(e)
  BY <1>1, <1>2 DEF Locks
<1>4. /\ \A x \in signals : x.by \in Deliveries
      /\ \A x \in raised[d] : /\ x.by = d /\ x.code \in CodesOf(report[d])
                              /\ x = [code |-> x.code, by |-> d]
  <2>1. \A x \in signals \cup raised[d] :
          x \in Signal /\ x.by \in Deliveries /\ x = [code |-> x.code, by |-> x.by]
    BY DEF TypeOK, Signal
  <2> QED BY <2>1 DEF Inv, RaisedOwn
<1>5. \A x \in signals' : StepOf(x.by)' = StepOf(x.by)
  BY <1>1, <1>2, <1>4
<1>6. LockExclusive'
  BY <1>2, <1>3 DEF Inv, LockExclusive
<1>7. HashApplied'
  <2>1. PICK y : y = Written(d, row[StepOf(d)])
    OBVIOUS
  <2>2. y.hash = report[d] \/ y.hash = row[StepOf(d)].hash
    BY <2>1 DEF Written
  <2>3. row' = [row EXCEPT ![StepOf(d)] = y] /\ StepOf(d) \in Steps
    BY <2>1, ReportForm DEF Commit, StepOf, TypeOK
  <2>4. row[StepOf(d)] # NoRow
    BY <1>1 DEF RowKnown, Row, NoRow, Status
  <2>5. ASSUME NEW s \in Steps, row'[s].hash \in Reports
        PROVE  row'[s] = NoRow \/ Applied(row[s].hash)'
    <3>1. CASE s = StepOf(d)
      <4>1. row'[s].hash = report[d] \/ row'[s].hash = row[s].hash
        BY <2>2, <2>3, <3>1 DEF TypeOK
      <4>2. CASE row'[s].hash = report[d]
        BY <1>1, <4>2 DEF Applied
      <4>3. CASE row'[s].hash = row[s].hash
        BY <1>1, <2>4, <2>5, <3>1, <4>3 DEF Inv, HashApplied, Applied
      <4> QED BY <4>1, <4>2, <4>3
    <3>2. CASE s # StepOf(d)
      <4>1. row'[s] = row[s]
        BY <2>3, <3>2 DEF TypeOK
      <4> QED BY <1>1, <2>5, <4>1 DEF Inv, HashApplied, Applied
    <3> QED BY <3>1, <3>2
  <2>6. ASSUME NEW e \in Deliveries, pc'[e] \notin {"idle", "refused"},
               seen'[e].hash \in Reports
        PROVE  Applied(seen[e].hash)'
    BY <1>1, <2>6 DEF Inv, HashApplied, Applied
  <2> QED BY <2>5, <2>6 DEF HashApplied
<1>8. RaisedOwn'
  BY <1>1 DEF Inv, RaisedOwn, CodesOf, StatusOf
<1>9. Covered'
  <2>1. ASSUME NEW e \in Deliveries, pc'[e] \in Looking, NEW c \in CodesOf(report[e])
        PROVE  \/ Has(c)
               \/ \E x \in raised[e] : x.code = c
               \/ pc[e] = "flushed" /\ c \in todo[e]
    BY <1>1, <2>1 DEF Inv, Covered, Looking
  <2> QED BY <1>1, <2>1 DEF Covered, Has, Looking, CodesOf, StatusOf
<1>10. RaisedFresh'
  <2>1. ASSUME NEW e \in Deliveries, pc'[e] \in Looking, NEW x \in raised[e]
        PROVE  /\ Locks(e)'
               /\ \A y \in signals' : y.code = x.code => StepOf(y.by) # StepOf(e)
    <3>1. e # d /\ pc[e] \in Looking
      BY <1>1, <2>1 DEF Looking
    <3>2. Locks(e) /\ \A y \in signals : y.code = x.code => StepOf(y.by) # StepOf(e)
      BY <2>1, <3>1 DEF Inv, RaisedFresh
    <3>3. ASSUME NEW y \in raised[d] PROVE StepOf(y.by) # StepOf(e)
      <4>1. y.by = d /\ Locks(d)
        BY <1>1, <1>4 DEF Inv, RaisedFresh, Looking
      <4> QED BY <3>1, <3>2, <4>1 DEF Inv, LockExclusive
    <3> QED BY <1>1, <1>3, <3>1, <3>2, <3>3
  <2> QED BY <1>1, <1>2, <1>5, <2>1 DEF RaisedFresh, Looking
<1>11. SignalsMatchTrail'
  <2>1. ASSUME NEW c \in Code, NEW x \in signals', x.code = c
        PROVE  \E e \in Deliveries : pc'[e] = "committed" /\ c \in CodesOf(report[e])
    <3>1. CASE x \in signals
      BY <1>1, <2>1, <3>1 DEF Inv, SignalsMatchTrail
    <3>2. CASE x \in raised[d]
      BY <1>1, <1>4, <2>1, <3>2
    <3> QED BY <1>1, <3>1, <3>2
  <2>2. ASSUME NEW c \in Code, NEW e \in Deliveries, pc'[e] = "committed",
               c \in CodesOf(report[e])
        PROVE  \E x \in signals' : x.code = c
    <3>1. CASE e = d
      BY <1>1, <2>2, <3>1 DEF Inv, Covered, Looking, Has
    <3>2. CASE e # d
      BY <1>1, <2>2, <3>2 DEF Inv, SignalsMatchTrail
    <3> QED BY <3>1, <3>2
  <2> QED BY <1>1, <2>1, <2>2 DEF SignalsMatchTrail, CodesOf, StatusOf
<1>12. OncePerStep'
  <2>1. ASSUME NEW x \in signals', NEW y \in signals',
               x.code = y.code, StepOf(x.by) = StepOf(y.by)
        PROVE  x = y
    <3>1. ASSUME NEW u \in raised[d], NEW v \in signals, u.code = v.code
          PROVE  StepOf(u.by) # StepOf(v.by)
      BY <1>1, <1>4, <3>1 DEF Inv, RaisedFresh, Looking
    <3>2. CASE x \in signals /\ y \in signals
      BY <2>1, <3>2 DEF Inv, OncePerStep
    <3>3. CASE x \in raised[d] /\ y \in raised[d]
      BY <1>4, <2>1, <3>3
    <3> QED BY <1>1, <2>1, <3>1, <3>2, <3>3
  <2> QED BY <1>5, <2>1 DEF OncePerStep
<1>13. RaisedFirst'
  <2>1. ASSUME NEW a \in Deliveries, NEW e \in Deliveries, pc'[a] \in Looking,
               pc'[e] = "committed", StepOf(e) = StepOf(a), NEW x \in raised[a]
        PROVE  x.code \notin CodesOf(report[e])
    <3>1. a # d /\ pc[a] \in Looking
      BY <1>1, <2>1 DEF Looking
    <3>2. CASE e # d
      BY <1>1, <2>1, <3>1, <3>2 DEF Inv, RaisedFirst
    <3>3. CASE e = d
      <4>1. ~Locks(d)
        BY <2>1, <3>1, <3>3 DEF Inv, RaisedFresh, LockExclusive
      <4>2. Changes(d) = {}
        BY <1>1, <4>1 DEF Locks
      <4>3. seen[d].hash = report[d] /\ report[d] \in Reports
        BY <4>2 DEF Changes, TypeOK
      <4>4. PICK f \in Deliveries : pc[f] = "committed" /\ report[f] = report[d]
        BY <1>1, <4>3 DEF Inv, HashApplied, Applied
      <4>5. StepOf(f) = StepOf(a)
        BY <2>1, <3>3, <4>4 DEF StepOf
      <4> QED BY <2>1, <3>1, <3>3, <4>4, <4>5 DEF Inv, RaisedFirst
    <3> QED BY <3>2, <3>3
  <2> QED BY <1>1, <1>2, <2>1 DEF RaisedFirst, Looking, CodesOf, StatusOf
<1> QED BY <1>6, <1>7, <1>8, <1>9, <1>10, <1>11, <1>12, <1>13 DEF Inv

-----------------------------------------------------------------------------
LEMMA Invariance == Spec => [](TypeOK /\ RowKnown /\ Inv)
<1>1. Init => TypeOK /\ RowKnown /\ Inv
  BY TypeInit, InvInit
<1>2. TypeOK /\ RowKnown /\ Inv /\ [Next]_vars => TypeOK' /\ RowKnown' /\ Inv'
  BY TypeStep, StepCases, QuietStep, ReceiveStep, FlushStep, RaiseStep, CommitStep
<1> QED BY <1>1, <1>2, PTL DEF Spec

\* However often reports are repeated, reordered, overlap or fail, the risk
\* codes of the case are exactly those of the callbacks that were applied.
THEOREM SignalsExact == Spec => []SignalsMatchTrail
BY Invariance, PTL DEF Inv

\* The row lock that the flush of the step takes makes the select and insert of
\* add_signal safe among the callbacks of one step.
THEOREM RaisedOncePerStep == Spec => []OncePerStep
BY Invariance, PTL DEF Inv

\* A callback whose body was applied before adds nothing to the record.
THEOREM RepeatAddsNothing ==
  Spec => [][\A d, e \in Deliveries :
               Commit(d) /\ pc[e] = "committed" /\ report[e] = report[d]
                 => signals' = signals]_vars
<1>1. TypeOK /\ RowKnown /\ Inv =>
        [\A d, e \in Deliveries :
           Commit(d) /\ pc[e] = "committed" /\ report[e] = report[d]
             => signals' = signals]_vars
  <2>1. ASSUME Inv, NEW d \in Deliveries, NEW e \in Deliveries, Commit(d),
               pc[e] = "committed", report[e] = report[d]
        PROVE  signals' = signals
    <3>1. signals' = signals \cup raised[d] /\ pc[d] \in Looking
      BY <2>1 DEF Commit, Looking
    <3>2. StepOf(e) = StepOf(d)
      BY <2>1 DEF StepOf
    <3>3. raised[d] = {}
      BY <2>1, <3>1, <3>2 DEF Inv, RaisedOwn, RaisedFirst
    <3> QED BY <3>1, <3>3
  <2> QED BY <2>1
<1> QED BY <1>1, Invariance, PTL

-----------------------------------------------------------------------------
(* AuditTrail.                                                             *)

LEMMA TrailTypeStep == Trail!TypeOK /\ [Trail!Next]_(Trail!vars) => Trail!TypeOK'
<1> SUFFICES ASSUME Trail!TypeOK, [Trail!Next]_(Trail!vars) PROVE Trail!TypeOK'
  OBVIOUS
<1>1. ASSUME NEW r \in Requests, NEW from \in Trail!Stage, NEW to \in Trail!Stage,
             Trail!Move(r, from, to)
      PROVE  stage' \in [Requests -> Trail!Stage]
  BY <1>1 DEF Trail!Move, Trail!TypeOK
<1> USE DEF Trail!Stage, Trail!OnThread, Trail!Connected, Trail!Ended
<1>2. ASSUME NEW r \in Requests,
             \/ Trail!Arrive(r) \/ Trail!Proceed(r) \/ Trail!DatabaseFails(r)
      PROVE  Trail!TypeOK'
  <2>1. stage' \in [Requests -> Trail!Stage]
    <3>1. \E from, to \in Trail!Stage : Trail!Move(r, from, to)
      BY <1>2 DEF Trail!Arrive, Trail!Proceed, Trail!DatabaseFails, Trail!Start,
           Trail!Authenticate, Trail!Authorize, Trail!Connect, Trail!Record,
           Trail!Handle, Trail!Close, Trail!Timeout
    <3> QED BY <1>1, <3>1
  <2>2. /\ effects' \in {effects, effects \cup {r}}
        /\ events' \in {events, events \cup {r}}
    BY <1>2 DEF Trail!Arrive, Trail!Proceed, Trail!DatabaseFails, Trail!Start,
         Trail!Authenticate, Trail!Authorize, Trail!Connect, Trail!Record,
         Trail!Handle, Trail!Close, Trail!Timeout
  <2> QED BY <2>1, <2>2 DEF Trail!TypeOK
<1>3. CASE Trail!Crash
  BY <1>3 DEF Trail!Crash, Trail!TypeOK
<1>4. CASE UNCHANGED Trail!vars
  BY <1>4 DEF Trail!vars, Trail!TypeOK
<1> QED BY <1>2, <1>3, <1>4 DEF Trail!Next

\* A change is never on the way of a denial, and a denial that is about to be
\* answered has its event.
TrailInv ==
  /\ Trail!AnswersAudited
  /\ \A r \in Requests :
       /\ stage[r] = "refused" => r \in events
       /\ Kind[r] = "change" => stage[r] \notin {"denied", "recording", "refused"}

LEMMA TrailInvStep ==
  Trail!TypeOK /\ TrailInv /\ [Trail!Next]_(Trail!vars) => TrailInv'
<1> SUFFICES ASSUME Trail!TypeOK, TrailInv, [Trail!Next]_(Trail!vars) PROVE TrailInv'
  OBVIOUS
<1> DEFINE Told(r) ==
      /\ stage[r] \in {"refused", "denial"} => r \in events
      /\ stage[r] = "ok" => r \in effects
      /\ r \in effects => stage[r] = "ok"
      /\ Kind[r] = "change" => /\ (r \in events <=> r \in effects)
                               /\ stage[r] \notin {"denied", "recording", "refused"}
<1>1. /\ TrailInv <=> \A r \in Requests : Told(r)
      /\ TrailInv' <=> \A r \in Requests : Told(r)'
  BY DEF TrailInv, Trail!AnswersAudited
<1>2. ASSUME NEW r \in Requests, NEW from, NEW to, Trail!Move(r, from, to),
             \A q \in Requests \ {r} : /\ q \in effects' <=> q \in effects
                                       /\ q \in events' <=> q \in events
      PROVE  /\ stage[r] = from /\ stage'[r] = to
             /\ \A q \in Requests \ {r} : Told(q)'
  BY <1>1, <1>2 DEF Trail!Move, Trail!TypeOK
<1>3. ASSUME NEW r \in Requests, Trail!Proceed(r) PROVE TrailInv'
  <2>1. CASE Trail!Start(r)
    BY <2>1, <1>1, <1>2 DEF Trail!Start
  <2>2. CASE Trail!Authenticate(r)
    BY <2>2, <1>1, <1>2 DEF Trail!Authenticate
  <2>3. CASE Trail!Authorize(r)
    BY <2>3, <1>1, <1>2 DEF Trail!Authorize
  <2>4. CASE Trail!Connect(r)
    BY <2>4, <1>1, <1>2 DEF Trail!Connect
  <2>5. CASE Trail!Record(r)
    BY <2>5, <1>1, <1>2 DEF Trail!Record
  <2>6. CASE Trail!Handle(r)
    BY <2>6, <1>1, <1>2 DEF Trail!Handle
  <2>7. CASE Trail!Close(r)
    BY <2>7, <1>1, <1>2 DEF Trail!Close
  <2>8. CASE Trail!Timeout(r)
    BY <2>8, <1>1, <1>2 DEF Trail!Timeout
  <2> QED BY <1>3, <2>1, <2>2, <2>3, <2>4, <2>5, <2>6, <2>7, <2>8 DEF Trail!Proceed
<1>4. ASSUME NEW r \in Requests, Trail!Arrive(r) PROVE TrailInv'
  BY <1>4, <1>1, <1>2 DEF Trail!Arrive
<1>5. ASSUME NEW r \in Requests, Trail!DatabaseFails(r) PROVE TrailInv'
  BY <1>5, <1>1, <1>2 DEF Trail!DatabaseFails
<1>6. CASE Trail!Crash
  BY <1>6, <1>1 DEF Trail!Crash, Trail!Ended
<1>7. CASE UNCHANGED Trail!vars
  BY <1>7, <1>1 DEF Trail!vars
<1> QED BY <1>3, <1>4, <1>5, <1>6, <1>7 DEF Trail!Next

LEMMA TrailInvariance ==
  Trail!Init /\ [][Trail!Next]_(Trail!vars) => [](Trail!TypeOK /\ TrailInv)
<1>1. Trail!Init => Trail!TypeOK /\ TrailInv
  BY DEF Trail!Init, Trail!TypeOK, Trail!Stage, TrailInv, Trail!AnswersAudited
<1> QED BY <1>1, TrailTypeStep, TrailInvStep, PTL

-----------------------------------------------------------------------------
(* The composition.                                                        *)

DocumentProofs == INSTANCE DocumentPipeline_proofs

\* The instance above and that of MCEvidence are of the same module.
LEMMA SameDocuments ==
  /\ Documents!BoundsAssumption <=> DocumentProofs!BoundsAssumption
  /\ Documents!Init <=> DocumentProofs!Init
  /\ [Documents!Next]_(Documents!vars) <=> [DocumentProofs!Next]_(DocumentProofs!vars)
  /\ Documents!TypeOK <=> DocumentProofs!TypeOK
  /\ Documents!ObjectsStored <=> DocumentProofs!ObjectsStored
  /\ Documents!DuplicateFlagged <=> DocumentProofs!DuplicateFlagged
BY DEF
     Documents!BoundsAssumption, Documents!Init, Documents!NoRow, Documents!Idle,
     Documents!Next, Documents!Store, Documents!HandlerStep, Documents!Flush,
     Documents!DuplicateOf, Documents!Visible, Documents!CommitUploaded,
     Documents!Insert, Documents!CommitUnconfigured, Documents!CommitProcessing,
     Documents!Enqueue, Documents!HandlerFails, Documents!WorkerStep,
     Documents!Take, Documents!ExtractFails, Documents!Finish, Documents!Extract,
     Documents!Redact, Documents!CommitProcessed, Documents!WorkerFails,
     Documents!vars, Documents!TypeOK, Documents!Row, Documents!StepStatus,
     Documents!Request, Documents!Work, Documents!ObjectsStored,
     Documents!DuplicateFlagged, DocumentProofs!BoundsAssumption,
     DocumentProofs!Init, DocumentProofs!NoRow, DocumentProofs!Idle,
     DocumentProofs!Next, DocumentProofs!Store, DocumentProofs!HandlerStep,
     DocumentProofs!Flush, DocumentProofs!DuplicateOf, DocumentProofs!Visible,
     DocumentProofs!CommitUploaded, DocumentProofs!Insert,
     DocumentProofs!CommitUnconfigured, DocumentProofs!CommitProcessing,
     DocumentProofs!Enqueue, DocumentProofs!HandlerFails,
     DocumentProofs!WorkerStep, DocumentProofs!Take, DocumentProofs!ExtractFails,
     DocumentProofs!Finish, DocumentProofs!Extract, DocumentProofs!Redact,
     DocumentProofs!CommitProcessed, DocumentProofs!WorkerFails,
     DocumentProofs!vars, DocumentProofs!TypeOK, DocumentProofs!Row,
     DocumentProofs!StepStatus, DocumentProofs!Request, DocumentProofs!Work,
     DocumentProofs!ObjectsStored, DocumentProofs!DuplicateFlagged,
     Documents!CopyOfEarlier, DocumentProofs!CopyOfEarlier

\* What moves is one component, which takes a step of its own; the others rest.
LEMMA EvidenceStep ==
  ASSUME [EvidenceNext]_allVars
  PROVE  /\ [Next]_vars
         /\ [Documents!Next]_(Documents!vars)
         /\ [Policy!Next]_list
         /\ [Trail!Next]_(Trail!vars)
<1>1. documentVars' = documentVars => UNCHANGED Documents!vars
  BY DEF documentVars, Documents!vars
<1>2. trailVars' = trailVars => UNCHANGED Trail!vars
  BY DEF trailVars, Trail!vars
<1>3. CASE UNCHANGED allVars
  BY <1>1, <1>2, <1>3 DEF allVars
<1>4. CASE EvidenceNext
  <2>1. CASE Documents!Next /\ UNCHANGED <<vars, list, trailVars>>
    BY <2>1, <1>2
  <2>2. CASE Next /\ UNCHANGED <<documentVars, list, trailVars>>
    BY <2>2, <1>1, <1>2
  <2>3. CASE Policy!Next /\ UNCHANGED <<vars, documentVars, trailVars>>
    BY <2>3, <1>1, <1>2
  <2>4. CASE Trail!Next /\ UNCHANGED <<vars, documentVars, list>>
    BY <2>4, <1>1
  <2> QED BY <1>4, <2>1, <2>2, <2>3, <2>4 DEF EvidenceNext
<1> QED BY <1>3, <1>4

\* The composition implements every component.
THEOREM EvidenceImplements ==
  EvidenceSpec => Spec /\ Documents!Spec /\ Policy!Spec /\ Trail!Spec
<1>1. EvidenceInit => Init /\ Documents!Init /\ Policy!Init /\ Trail!Init
  BY DEF EvidenceInit
<1> QED BY <1>1, EvidenceStep, PTL
        DEF EvidenceSpec, Spec, Documents!Spec, Policy!Spec, Trail!Spec

LEMMA DocumentSpecs == Documents!Spec => DocumentProofs!Spec
BY SameDocuments, PTL DEF Documents!Spec, DocumentProofs!Spec

\* Every component keeps its types.
THEOREM EvidenceTypes == EvidenceSpec => []TypesOK
<1>1. DocumentProofs!Spec => []DocumentProofs!TypeOK
  BY BoundsAssumption, SameDocuments, DocumentProofs!TypeCorrect
<1>2. TypeOK /\ DocumentProofs!TypeOK /\ Trail!TypeOK => TypesOK
  BY SameDocuments DEF TypesOK
<1> QED BY <1>1, <1>2, TypeCorrect, TrailInvariance, EvidenceImplements, DocumentSpecs,
           PTL DEF Trail!Spec

\* What a document's row names is in the object store, whoever fails when.
THEOREM NamedObjectsStored == EvidenceSpec => []ObjectsStored
<1>1. DocumentProofs!Spec => []DocumentProofs!ObjectsStored
  BY BoundsAssumption, SameDocuments, DocumentProofs!NamedObjectsStored
<1>2. DocumentProofs!ObjectsStored => ObjectsStored
  BY SameDocuments DEF ObjectsStored
<1> QED BY <1>1, <1>2, EvidenceImplements, DocumentSpecs, PTL

\* The copy of a file that another applicant had on record when its upload began
\* is flagged.
THEOREM CopiesFlagged == EvidenceSpec => []DuplicateFlagged
<1>1. DocumentProofs!Spec => []DocumentProofs!DuplicateFlagged
  BY BoundsAssumption, SameDocuments, DocumentProofs!CopiesFlagged
<1>2. DocumentProofs!DuplicateFlagged => DuplicateFlagged
  BY SameDocuments DEF DuplicateFlagged
<1> QED BY <1>1, <1>2, EvidenceImplements, DocumentSpecs, PTL

\* Denials that were answered, and changes that took effect, are on the trail,
\* for any number of threads and connections, failures and crashes.
THEOREM AllAudited == EvidenceSpec => []AnswersAudited
<1>1. TrailInv => AnswersAudited
  BY DEF TrailInv, AnswersAudited
<1> QED BY <1>1, TrailInvariance, EvidenceImplements, PTL DEF Trail!Spec

-----------------------------------------------------------------------------
(* The policy.                                                             *)

PolicyProofs == INSTANCE RiskPolicy_proofs WITH signals <- list

\* The instance above and that of MCEvidence are of the same module.
LEMMA SameEntries ==
  ASSUME NEW l
  PROVE  /\ Policy!ByCode(l) = PolicyProofs!ByCode(l)
         /\ Policy!Score(l) = PolicyProofs!Score(l)
         /\ Policy!ToSet(l) = PolicyProofs!ToSet(l)
<1>1. Policy!ByCode(l) = PolicyProofs!ByCode(l)
  BY DEF Policy!ByCode, PolicyProofs!ByCode
<1>2. Policy!MapThenSumSet(LAMBDA i : l[i].weight, Policy!ByCode(l))
      = PolicyProofs!MapThenSumSet(LAMBDA i : l[i].weight, Policy!ByCode(l))
  BY DEF Policy!MapThenSumSet, Policy!MapThenFoldSet,
         PolicyProofs!MapThenSumSet, PolicyProofs!MapThenFoldSet
<1>3. Policy!Score(l) = PolicyProofs!Score(l)
  BY <1>1, <1>2 DEF Policy!Score, Policy!Min, PolicyProofs!Score, PolicyProofs!Min
<1> QED BY <1>1, <1>3 DEF Policy!ToSet, PolicyProofs!ToSet

LEMMA SameVerdict ==
  ASSUME NEW l, NEW blocked
  PROVE  /\ Policy!Severity(l) = PolicyProofs!Severity(l)
         /\ Policy!Decision(l, blocked) = PolicyProofs!Decision(l, blocked)
         /\ Policy!ReasonCodes(l) = PolicyProofs!ReasonCodes(l)
         /\ Policy!decide(l, blocked) = PolicyProofs!decide(l, blocked)
<1>1. Policy!Severity(l) = PolicyProofs!Severity(l)
  BY SameEntries
     DEF Policy!Severity, Policy!Max, Policy!SeverityFromScore,
         PolicyProofs!Severity, PolicyProofs!Max, PolicyProofs!SeverityFromScore
<1>2. Policy!Decision(l, blocked) = PolicyProofs!Decision(l, blocked)
  BY SameEntries
     DEF Policy!Decision, Policy!hard_reject_codes, Policy!hard_review_codes,
         Policy!reject_at, Policy!approve_below, PolicyProofs!Decision,
         PolicyProofs!hard_reject_codes, PolicyProofs!hard_review_codes,
         PolicyProofs!reject_at, PolicyProofs!approve_below
<1>3. Policy!ReasonCodes(l) = PolicyProofs!ReasonCodes(l)
  BY DEF Policy!ReasonCodes, Policy!ByCode, Policy!SetToSortSeq, Policy!SetToSeq,
         Policy!IsInjective, Policy!Cardinality, Policy!Place, Policy!Alphabet,
         PolicyProofs!ReasonCodes, PolicyProofs!ByCode, PolicyProofs!SetToSortSeq,
         PolicyProofs!SetToSeq, PolicyProofs!IsInjective, PolicyProofs!Cardinality,
         PolicyProofs!Place, PolicyProofs!Alphabet
<1> QED BY SameEntries, <1>1, <1>2, <1>3 DEF Policy!decide, PolicyProofs!decide

LEMMA SamePolicy ==
  /\ Policy!Init <=> PolicyProofs!Init
  /\ [Policy!Next]_list <=> [PolicyProofs!Next]_list
  /\ Policy!DependsOnCodes <=> PolicyProofs!DependsOnCodes
<1>1. Policy!Init <=> PolicyProofs!Init
  BY DEF Policy!Init, PolicyProofs!Init
<1>2. [Policy!Next]_list <=> [PolicyProofs!Next]_list
  BY DEF Policy!Next, Policy!AddSignal, Policy!AllSignals, Policy!CaseSignals,
         Policy!ProviderSignals, Policy!Signal, PolicyProofs!Next, PolicyProofs!AddSignal,
         PolicyProofs!AllSignals, PolicyProofs!CaseSignals, PolicyProofs!ProviderSignals, PolicyProofs!Signal
<1>3. Policy!DependsOnCodes <=> PolicyProofs!DependsOnCodes
  <2>1. Policy!SetToSeq(Policy!ToSet(list)) = PolicyProofs!SetToSeq(PolicyProofs!ToSet(list))
    BY DEF Policy!SetToSeq, Policy!ToSet, Policy!IsInjective, Policy!Cardinality,
           PolicyProofs!SetToSeq, PolicyProofs!ToSet, PolicyProofs!IsInjective,
           PolicyProofs!Cardinality
  <2> QED BY <2>1, SameVerdict DEF Policy!DependsOnCodes, PolicyProofs!DependsOnCodes
<1> QED BY <1>1, <1>2, <1>3

LEMMA PolicySpecs == Policy!Spec => PolicyProofs!Spec
BY SamePolicy, PTL DEF Policy!Spec, PolicyProofs!Spec

\* What is decided is a function of the codes on record, for lists of any length.
THEOREM CodesDecide == EvidenceSpec => []DependsOnCodes
<1>1. PolicyProofs!Spec => []PolicyProofs!DependsOnCodes
  BY PolicyProofs!CodesDecide
<1>2. PolicyProofs!DependsOnCodes => DependsOnCodes
  BY SamePolicy DEF DependsOnCodes
<1> QED BY <1>1, <1>2, PolicySpecs, EvidenceImplements, PTL

\* Decisions follow the severity scale, for lists of any length.
THEOREM ThresholdsAgree == EvidenceSpec => []ScoreDecides
<1>1. PolicyProofs!Spec => []PolicyProofs!ScoreDecides
  BY PolicyProofs!ThresholdsAgree
<1>2. Policy!SeverityFromScore(Policy!Score(list))
      = PolicyProofs!SeverityFromScore(PolicyProofs!Score(list))
  BY SameEntries DEF Policy!SeverityFromScore, PolicyProofs!SeverityFromScore
<1>3. PolicyProofs!ScoreDecides => ScoreDecides
  BY <1>2, SameEntries, SameVerdict
     DEF ScoreDecides, Policy!ScoreDecides, PolicyProofs!ScoreDecides,
         Policy!hard_reject_codes, Policy!hard_review_codes,
         PolicyProofs!hard_reject_codes, PolicyProofs!hard_review_codes
<1> QED BY <1>1, <1>3, PolicySpecs, EvidenceImplements, PTL

\* One more signal never gives a milder decision, a lower score or severity.
THEOREM AddedSignalsHarden == EvidenceSpec => MoreSignalsHarden
<1>1. PolicyProofs!Spec => PolicyProofs!MoreSignalsHarden
  BY PolicyProofs!AddedSignalsHarden
<1>2. /\ Policy!Decision(list, FALSE) = PolicyProofs!Decision(list, FALSE)
      /\ Policy!Score(list) = PolicyProofs!Score(list)
      /\ Policy!Severity(list) = PolicyProofs!Severity(list)
      /\ Policy!Decision(list', FALSE) = PolicyProofs!Decision(list', FALSE)
      /\ Policy!Score(list') = PolicyProofs!Score(list')
      /\ Policy!Severity(list') = PolicyProofs!Severity(list')
  BY SameEntries, SameVerdict
<1>3. [/\ PolicyProofs!Strength(PolicyProofs!Decision(list, FALSE))
            <= PolicyProofs!Strength(PolicyProofs!Decision(list', FALSE))
       /\ PolicyProofs!Score(list) <= PolicyProofs!Score(list')
       /\ PolicyProofs!Severity(list) <= PolicyProofs!Severity(list')]_list
      => [/\ Policy!Strength(Policy!Decision(list, FALSE))
               <= Policy!Strength(Policy!Decision(list', FALSE))
          /\ Policy!Score(list) <= Policy!Score(list')
          /\ Policy!Severity(list) <= Policy!Severity(list')]_list
  BY <1>2 DEF Policy!Strength, PolicyProofs!Strength
<1> QED BY <1>1, <1>3, PolicySpecs, EvidenceImplements, PTL
        DEF MoreSignalsHarden, Policy!MoreSignalsHarden, PolicyProofs!MoreSignalsHarden

===============================================================================
