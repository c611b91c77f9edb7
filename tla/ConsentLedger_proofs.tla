-------------------------- MODULE ConsentLedger_proofs --------------------------
(***************************************************************************)
(* Proofs about ConsentLedger, for any notices and any number of requests. *)
(***************************************************************************)
EXTENDS ConsentLedger, TLAPS

\* The statement of an admin request that finds the siblings.
Found(x, siblings) == [x EXCEPT !.pc = "selected", !.siblings = siblings]

LEMMA FoundForm ==
  ASSUME NEW x \in AdminBusy, NEW siblings \in SUBSET Notice,
         NEW y, y = Found(x, siblings)
  PROVE  /\ y \in AdminBusy /\ y # Idle
         /\ y.pc = "selected" /\ y.siblings = siblings
         /\ y.n = x.n /\ y.on = x.on /\ y.seen = x.seen
<1>1. y = [pc |-> "selected", n |-> x.n, on |-> x.on, seen |-> x.seen,
           siblings |-> siblings]
  BY DEF AdminBusy, Found
<1> QED BY <1>1 DEF AdminBusy, Idle

-----------------------------------------------------------------------------
(* Types.                                                                  *)

LEMMA TypeStep == TypeOK /\ [Next]_vars => TypeOK'
<1> SUFFICES ASSUME TypeOK, [Next]_vars PROVE TypeOK'
  OBVIOUS
<1> USE DEF noticeVars, receiptVars, caseVars
<1>1. ASSUME NEW a \in Admins, NEW n \in Notice, CreateCheck(a, n) PROVE TypeOK'
  BY <1>1 DEF CreateCheck, Begin, TypeOK, AdminBusy
<1>2. ASSUME NEW a \in Admins, CreateCommit(a) PROVE TypeOK'
  BY <1>2 DEF CreateCommit, TypeOK, AdminBusy, NoticeStatus
<1>3. ASSUME NEW a \in Admins, NEW n \in Notice, NEW on \in BOOLEAN, SetLoad(a, n, on)
      PROVE  TypeOK'
  BY <1>3 DEF SetLoad, Begin, TypeOK, AdminBusy
<1>4. ASSUME NEW a \in Admins, SetSiblings(a) PROVE TypeOK'
  <2>1. admin[a] \in AdminBusy
    BY <1>4 DEF SetSiblings, TypeOK, Idle
  <2>2. PICK m : m = {o \in Active \ {admin[a].n} :
                        admin[a].on /\ Group[o] = Group[admin[a].n]}
    OBVIOUS
  <2>3. PICK y : y = Found(admin[a], m)
    OBVIOUS
  <2>4. m \in SUBSET Notice
    BY <2>2 DEF Active
  <2>5. y \in AdminBusy
    BY <2>1, <2>3, <2>4, FoundForm
  <2>6. admin' = [admin EXCEPT ![a] = y]
    BY <1>4, <2>2, <2>3 DEF SetSiblings, Found, TypeOK
  <2> QED BY <1>4, <2>5, <2>6 DEF SetSiblings, TypeOK
<1>5. ASSUME NEW a \in Admins, SetCommit(a) PROVE TypeOK'
  <2>1. notice' \in [Notice -> NoticeStatus]
    BY <1>5 DEF SetCommit, TypeOK, NoticeStatus
  <2> QED BY <1>5, <2>1 DEF SetCommit, TypeOK
<1>6. ASSUME NEW a \in Admins, AdminRollback(a) PROVE TypeOK'
  BY <1>6 DEF AdminRollback, TypeOK
<1>7. ASSUME NEW r \in Recorders, NEW p \in Party, NEW granted \in BOOLEAN,
             RecordBuild(r, p, granted)
      PROVE  TypeOK'
  <2>1. PICK x : x = [party |-> p, granted |-> granted, at |-> clock + 1]
    OBVIOUS
  <2>7. clock + 1 \in Nat \ {0}
    BY <1>7 DEF RecordBuild, TypeOK
  <2>2. x \in Receipt
    BY <1>7, <2>1, <2>7 DEF Receipt
  <2>3. recorder' = [recorder EXCEPT ![r] = {x}]
    BY <1>7, <2>1 DEF RecordBuild
  <2>4. recorder' \in [Recorders -> SUBSET Receipt]
    BY <2>2, <2>3 DEF TypeOK
  <2>5. \A s \in Recorders : \A y, z \in recorder'[s] : y = z
    BY <2>3 DEF TypeOK
  <2>6. clock' \in Nat /\ withdrawn' \subseteq Party
    BY <1>7 DEF RecordBuild, TypeOK
  <2> QED BY <1>7, <2>4, <2>5, <2>6 DEF RecordBuild, TypeOK
<1>8. ASSUME NEW r \in Recorders, RecordCommit(r) PROVE TypeOK'
  <2>1. withdrawn' \subseteq Party
    BY <1>8 DEF RecordCommit, TypeOK, Receipt
  <2> QED BY <1>8, <2>1 DEF RecordCommit, TypeOK
<1>9. ASSUME NEW r \in Recorders, RecordRollback(r) PROVE TypeOK'
  BY <1>9 DEF RecordRollback, TypeOK
<1>10. ASSUME NEW s \in Submitters, SubmitPass(s) PROVE TypeOK'
  BY <1>10 DEF SubmitPass, TypeOK
<1>11. ASSUME NEW s \in Submitters, SubmitCommit(s) PROVE TypeOK'
  BY <1>11 DEF SubmitCommit, TypeOK
<1>12. ASSUME NEW s \in Submitters, SubmitRollback(s) PROVE TypeOK'
  BY <1>12 DEF SubmitRollback, TypeOK
<1>13. CASE Decide
  BY <1>13 DEF Decide, TypeOK
<1>14. CASE Birthday
  BY <1>14 DEF Birthday, TypeOK
<1>15. CASE UNCHANGED vars
  BY <1>15 DEF vars, TypeOK
<1> QED BY <1>1, <1>2, <1>3, <1>4, <1>5, <1>6, <1>7, <1>8, <1>9, <1>10, <1>11,
           <1>12, <1>13, <1>14, <1>15 DEF Next

LEMMA TypeInit == Init => TypeOK
<1> SUFFICES ASSUME Init PROVE TypeOK
  OBVIOUS
<1>1. notice \in [Notice -> NoticeStatus]
  BY DEF Init, NoticeStatus
<1>2. admin \in [Admins -> {Idle} \cup AdminBusy]
  BY DEF Init
<1>3. recorder \in [Recorders -> SUBSET Receipt]
  BY DEF Init
<1>4. \A r \in Recorders : \A x, y \in recorder[r] : x = y
  BY DEF Init
<1>5. submitter \in [Submitters -> {"idle", "passed", "again"}]
  BY DEF Init
<1>6. submitted \in BOOLEAN /\ minor \in BOOLEAN
  BY DEF Init
<1>7. clock \in Nat /\ changes \in Nat
  BY DEF Init
<1>8. receipts \subseteq Receipt /\ withdrawn \subseteq Party
  BY DEF Init
<1> QED BY <1>1, <1>2, <1>3, <1>4, <1>5, <1>6, <1>7, <1>8 DEF TypeOK

\* Every step of every request keeps the tables and requests in their types.
THEOREM TypeCorrect == Spec => []TypeOK
BY TypeInit, TypeStep, PTL DEF Spec

-----------------------------------------------------------------------------
(* Receipts are only added.                                                *)

\* The receipts of a party that is needed are there from the gate on.
Cleared == \A p \in Needed : \E r \in receipts : r.party = p /\ r.granted

GateInv ==
  /\ submitted => Cleared
  /\ \A s \in Submitters : submitter[s] # "idle" => Cleared

LEMMA ClearedStays ==
  ASSUME receipts \subseteq receipts', minor' => minor, Cleared
  PROVE  Cleared'
BY DEF Cleared, Needed

LEMMA GateStep == TypeOK /\ GateInv /\ [Next]_vars => GateInv'
<1> SUFFICES ASSUME TypeOK, GateInv, [Next]_vars PROVE GateInv'
  OBVIOUS
<1> USE DEF noticeVars, receiptVars, caseVars
<1>1. receipts \subseteq receipts'
  BY DEF Next, vars, CreateCheck, CreateCommit, Begin, SetLoad, SetSiblings, SetCommit,
         AdminRollback, RecordBuild, RecordCommit, RecordRollback, SubmitPass,
         SubmitCommit, SubmitRollback, Decide, Birthday
<1>8. minor' => minor
  BY DEF Next, vars, CreateCheck, CreateCommit, Begin, SetLoad, SetSiblings, SetCommit,
         AdminRollback, RecordBuild, RecordCommit, RecordRollback, SubmitPass,
         SubmitCommit, SubmitRollback, Decide, Birthday
<1>2. Cleared => Cleared'
  BY <1>1, <1>8, ClearedStays
<1>3. CASE submitted' = submitted /\ submitter' = submitter
  BY <1>2, <1>3 DEF GateInv
<1>4. ASSUME NEW s \in Submitters, SubmitPass(s) PROVE GateInv'
  <2>1. Cleared
    BY <1>4 DEF SubmitPass, Cleared, InForce, Needed
  <2> QED BY <1>2, <2>1 DEF GateInv
<1>5. ASSUME NEW s \in Submitters, SubmitCommit(s) PROVE GateInv'
  <2>1. Cleared
    BY <1>5 DEF SubmitCommit, GateInv
  <2> QED BY <1>2, <2>1 DEF GateInv
<1>6. ASSUME NEW s \in Submitters, SubmitRollback(s) PROVE GateInv'
  BY <1>2, <1>6 DEF SubmitRollback, GateInv, TypeOK
<1>7. CASE Decide
  BY <1>2, <1>7 DEF Decide, GateInv
<1> QED
  BY <1>3, <1>4, <1>5, <1>6, <1>7
     DEF Next, vars, CreateCheck, CreateCommit, Begin, SetLoad, SetSiblings, SetCommit,
         AdminRollback, RecordBuild, RecordCommit, RecordRollback, Birthday

\* A submitted case has a receipt of the consent of everybody it needs, for any
\* number of overlapping submissions, receipts and withdrawals.
THEOREM NoIntakeWithoutReceipts == Spec => []SubmittedWithReceipts
<1>1. Init => GateInv
  BY DEF Init, GateInv
<1>2. GateInv => SubmittedWithReceipts
  BY DEF GateInv, Cleared, SubmittedWithReceipts
<1> QED BY <1>1, <1>2, GateStep, TypeCorrect, PTL DEF Spec

-----------------------------------------------------------------------------
(* The newest receipt of a party is in force.                              *)

\* Receipts committed and on their way.
Built == receipts \cup UNION {recorder[r] : r \in Recorders}

\* No two receipts carry the same time, and none a later one than now.
Dated ==
  /\ \A x \in Built : x.at <= clock
  /\ \A x, y \in Built : x.at = y.at => x = y

\* What makes a withdrawal stand: its receipt is newer than every grant that
\* is or will be in the table.
Superseded(p) ==
  \E x \in receipts :
    /\ x.party = p /\ ~x.granted
    /\ \A y \in Built : y.party = p /\ y.granted => y.at < x.at

LedgerInv == TypeOK /\ Dated /\ \A p \in withdrawn : Superseded(p)

LEMMA BuiltType == ASSUME TypeOK PROVE Built \subseteq Receipt
BY DEF TypeOK, Built

LEMMA LedgerStep == LedgerInv /\ [Next]_vars => LedgerInv'
<1> SUFFICES ASSUME LedgerInv, [Next]_vars PROVE LedgerInv'
  OBVIOUS
<1> USE DEF noticeVars, receiptVars, caseVars
<1>a. TypeOK /\ TypeOK' /\ Dated /\ \A p \in withdrawn : Superseded(p)
  BY TypeStep DEF LedgerInv
<1>b. Built \subseteq Receipt /\ clock \in Nat
  BY <1>a, BuiltType DEF TypeOK
<1>1. CASE UNCHANGED receiptVars
  <2>1. Built' = Built
    BY <1>1 DEF Built
  <2> QED BY <1>1, <1>a, <2>1 DEF LedgerInv, Dated, Superseded
<1>2. ASSUME NEW r \in Recorders, NEW p \in Party, NEW granted \in BOOLEAN,
             RecordBuild(r, p, granted)
      PROVE  LedgerInv'
  <2>1. PICK x : x = [party |-> p, granted |-> granted, at |-> clock + 1]
    OBVIOUS
  <2>2. recorder' = [recorder EXCEPT ![r] = {x}] /\ recorder[r] = {} /\ receipts' = receipts
    BY <1>2, <2>1 DEF RecordBuild
  <2>3. Built' = Built \cup {x}
    BY <1>a, <2>2 DEF Built, TypeOK
  <2>4. x.at = clock + 1 /\ x.party = p /\ clock' = clock + 1
    BY <1>2, <2>1 DEF RecordBuild
  <2>5. Dated'
    BY <1>a, <1>b, <2>3, <2>4 DEF Dated, Receipt
  <2>6. ASSUME NEW q \in withdrawn' PROVE Superseded(q)'
    <3>1. q \in withdrawn /\ (granted => q # p)
      BY <1>2, <2>6 DEF RecordBuild
    <3>2. PICK w \in receipts :
            /\ w.party = q /\ ~w.granted
            /\ \A y \in Built : y.party = q /\ y.granted => y.at < w.at
      BY <1>a, <3>1 DEF Superseded
    <3>3. x.granted => x.party # q
      BY <2>1, <3>1, Zenon
    <3> QED BY <2>2, <2>3, <3>2, <3>3 DEF Superseded
  <2> QED BY <1>a, <2>5, <2>6 DEF LedgerInv
<1>3. ASSUME NEW r \in Recorders, RecordCommit(r) PROVE LedgerInv'
  <2>1. /\ recorder' = [recorder EXCEPT ![r] = {}]
        /\ receipts' = receipts \cup recorder[r]
        /\ clock' = clock
    BY <1>3 DEF RecordCommit
  <2>2. Built' = Built
    BY <1>a, <2>1 DEF Built, TypeOK
  <2>3. Dated'
    BY <1>a, <2>1, <2>2 DEF Dated
  <2>4. ASSUME NEW q \in withdrawn' PROVE Superseded(q)'
    <3>1. CASE q \in withdrawn
      <4>1. Superseded(q)
        BY <1>a, <3>1
      <4> QED BY <2>1, <2>2, <4>1 DEF Superseded
    <3>2. CASE q \notin withdrawn
      <4>1. PICK x \in recorder[r] :
              /\ x.party = q /\ ~x.granted
              /\ \A y \in Built : ~(y.party = q /\ y.granted /\ y.at > x.at)
        BY <1>3, <2>4, <3>2 DEF RecordCommit, Built
      <4>2. x \in receipts' /\ x \in Built
        BY <2>1, <4>1 DEF Built
      <4>3. ASSUME NEW y \in Built, y.party = q, y.granted PROVE y.at < x.at
        <5>1. ~(y.at > x.at)
          BY <4>1, <4>3
        <5>2. y.at # x.at
          BY <1>a, <4>1, <4>2, <4>3 DEF Dated
        <5> QED BY <1>b, <4>2, <4>3, <5>1, <5>2 DEF Receipt
      <4> QED BY <2>2, <4>1, <4>2, <4>3 DEF Superseded
    <3> QED BY <3>1, <3>2
  <2> QED BY <1>a, <2>3, <2>4 DEF LedgerInv
<1>4. ASSUME NEW r \in Recorders, RecordRollback(r) PROVE LedgerInv'
  <2>1. Built' \subseteq Built /\ receipts' = receipts /\ clock' = clock
    BY <1>4, <1>a DEF RecordRollback, Built, TypeOK
  <2>2. withdrawn' = withdrawn
    BY <1>4 DEF RecordRollback
  <2>3. ASSUME NEW q \in withdrawn' PROVE Superseded(q)'
    <3>1. Superseded(q)
      BY <1>a, <2>2, <2>3
    <3> QED BY <2>1, <3>1 DEF Superseded
  <2> QED BY <1>a, <2>1, <2>3 DEF LedgerInv, Dated
<1> QED
  BY <1>1, <1>2, <1>3, <1>4
     DEF Next, vars, CreateCheck, CreateCommit, Begin, SetLoad, SetSiblings, SetCommit,
         AdminRollback, SubmitPass, SubmitCommit, SubmitRollback, Decide, Birthday

LEMMA LedgerInit == Init => LedgerInv
<1> SUFFICES ASSUME Init PROVE LedgerInv
  OBVIOUS
<1>1. Built = {} /\ withdrawn = {}
  BY DEF Init, Built
<1> QED BY <1>1, TypeInit DEF LedgerInv, Dated

\* A withdrawal that was committed stands until a later grant, whatever receipts
\* are still on their way and in whatever order they commit.
THEOREM WithdrawalHonoured == Spec => []WithdrawalStands
<1>1. LedgerInv => WithdrawalStands
  <2> SUFFICES ASSUME LedgerInv, NEW p \in withdrawn, p \in InForce PROVE FALSE
    BY DEF WithdrawalStands
  <2>1. PICK x \in receipts :
          /\ x.party = p /\ ~x.granted
          /\ \A y \in Built : y.party = p /\ y.granted => y.at < x.at
    BY DEF LedgerInv, Superseded
  <2>2. PICK r \in receipts :
          /\ r.party = p /\ r.granted
          /\ \A q \in receipts : q.party = p => q.at <= r.at
    BY DEF InForce
  <2>3. r.at < x.at /\ x.at <= r.at
    BY <2>1, <2>2 DEF Built
  <2>4. r.at \in Nat /\ x.at \in Nat
    BY <2>1, <2>2, BuiltType DEF LedgerInv, Built, Receipt
  <2> QED BY <2>3, <2>4
<1> QED BY <1>1, LedgerInit, LedgerStep, PTL DEF Spec

-----------------------------------------------------------------------------
(* One admin request at a time.                                            *)

Alone == \A a, b \in Admins : a = b

\* What the request has loaded is still so when it writes.
Fresh(x) ==
  /\ x.pc \in {"loaded", "selected"} => (x.seen <=> x.n \in Active)
  /\ x.pc = "selected" =>
       x.siblings = {m \in Active \ {x.n} : x.on /\ Group[m] = Group[x.n]}

AdminInv ==
  /\ TypeOK
  /\ ExclusiveActivation
  /\ \A a \in Admins : Fresh(admin[a])

LEMMA AdminStep ==
  ASSUME Alone
  PROVE  AdminInv /\ [Next]_vars => AdminInv'
<1> SUFFICES ASSUME AdminInv, [Next]_vars PROVE AdminInv'
  OBVIOUS
<1> USE DEF noticeVars, receiptVars, caseVars
<1>a. TypeOK /\ TypeOK' /\ ExclusiveActivation /\ \A a \in Admins : Fresh(admin[a])
  BY TypeStep DEF AdminInv
<1>b. Fresh(Idle)
  BY DEF Fresh, Idle
<1>c. ASSUME notice' = notice, NEW a \in Admins, NEW y,
             admin' = [admin EXCEPT ![a] = y], Fresh(y)
      PROVE  AdminInv'
  <2>1. Active' = Active
    BY <1>c DEF Active
  <2>2. ASSUME NEW b \in Admins PROVE Fresh(admin[b])'
    <3>1. admin'[b] = y
      BY <1>a, <1>c DEF Alone, TypeOK
    <3> QED BY <1>c, <2>1, <3>1 DEF Fresh
  <2> QED BY <1>a, <2>1, <2>2 DEF AdminInv, ExclusiveActivation
<1>1. ASSUME NEW a \in Admins, NEW n \in Notice, CreateCheck(a, n) PROVE AdminInv'
  <2>1. PICK y : y = [pc |-> "checked", n |-> n, on |-> FALSE, seen |-> FALSE,
                      siblings |-> {}]
    OBVIOUS
  <2>2. Fresh(y)
    BY <2>1 DEF Fresh
  <2> QED BY <1>1, <1>c, <2>1, <2>2 DEF CreateCheck, Begin
<1>2. ASSUME NEW a \in Admins, CreateCommit(a) PROVE AdminInv'
  <2>1. Active' \subseteq Active
    BY <1>2, <1>a DEF CreateCommit, Active, TypeOK
  <2>2. ASSUME NEW b \in Admins PROVE Fresh(admin[b])'
    <3>1. admin'[b] = Idle
      BY <1>2, <1>a DEF CreateCommit, Alone, TypeOK
    <3> QED BY <3>1 DEF Fresh, Idle
  <2> QED BY <1>a, <2>1, <2>2 DEF AdminInv, ExclusiveActivation
<1>3. ASSUME NEW a \in Admins, NEW n \in Notice, NEW on \in BOOLEAN, SetLoad(a, n, on)
      PROVE  AdminInv'
  <2>1. PICK y : y = [pc |-> "loaded", n |-> n, on |-> on, seen |-> n \in Active,
                      siblings |-> {}]
    OBVIOUS
  <2>2. y.pc = "loaded" /\ y.n = n
    BY <2>1
  <2>3. y.seen <=> n \in Active
    BY <2>1, Zenon
  <2>4. Fresh(y)
    BY <2>2, <2>3 DEF Fresh
  <2> QED BY <1>3, <1>c, <2>1, <2>4 DEF SetLoad, Begin
<1>4. ASSUME NEW a \in Admins, SetSiblings(a) PROVE AdminInv'
  <2>1. admin[a] \in AdminBusy /\ admin[a].pc = "loaded"
    BY <1>4, <1>a DEF SetSiblings, TypeOK, Idle
  <2>2. PICK m : m = {o \in Active \ {admin[a].n} :
                        admin[a].on /\ Group[o] = Group[admin[a].n]}
    OBVIOUS
  <2>3. PICK y : y = Found(admin[a], m)
    OBVIOUS
  <2>4. m \in SUBSET Notice
    BY <2>2 DEF Active
  <2>5. /\ y.pc = "selected" /\ y.siblings = m
        /\ y.n = admin[a].n /\ y.on = admin[a].on /\ y.seen = admin[a].seen
    BY <2>1, <2>3, <2>4, FoundForm
  <2>6. admin' = [admin EXCEPT ![a] = y]
    BY <1>4, <1>a, <2>2, <2>3 DEF SetSiblings, Found, TypeOK
  <2>7. y.seen <=> y.n \in Active
    BY <1>a, <2>1, <2>5 DEF Fresh
  <2>8. Fresh(y)
    BY <2>2, <2>5, <2>7 DEF Fresh
  <2> QED BY <1>4, <1>c, <2>6, <2>8 DEF SetSiblings
<1>5. ASSUME NEW a \in Admins, SetCommit(a) PROVE AdminInv'
  <2>1. admin[a] \in AdminBusy /\ admin[a].pc = "selected"
    BY <1>5, <1>a DEF SetCommit, TypeOK, Idle
  <2>2. /\ admin[a].seen <=> admin[a].n \in Active
        /\ admin[a].siblings =
             {m \in Active \ {admin[a].n} :
                admin[a].on /\ Group[m] = Group[admin[a].n]}
    BY <1>a, <2>1 DEF Fresh
  <2>3. admin[a].n \in Notice /\ admin[a].on \in BOOLEAN
    BY <2>1 DEF AdminBusy
  <2>4. Active' = IF admin[a].on THEN (Active \ admin[a].siblings) \cup {admin[a].n}
                  ELSE Active \ {admin[a].n}
    BY <1>5, <1>a, <2>2, <2>3 DEF SetCommit, Active, TypeOK
  <2>5. ExclusiveActivation'
    BY <1>a, <2>2, <2>4 DEF ExclusiveActivation
  <2>6. ASSUME NEW b \in Admins PROVE Fresh(admin[b])'
    <3>1. admin'[b] = Idle
      BY <1>5, <1>a DEF SetCommit, Alone, TypeOK
    <3> QED BY <3>1 DEF Fresh, Idle
  <2> QED BY <1>a, <2>5, <2>6 DEF AdminInv
<1>6. ASSUME NEW a \in Admins, AdminRollback(a) PROVE AdminInv'
  BY <1>6, <1>b, <1>c DEF AdminRollback
<1>7. CASE UNCHANGED noticeVars
  BY <1>7, <1>a DEF AdminInv, ExclusiveActivation, Fresh, Active
<1> QED
  BY <1>1, <1>2, <1>3, <1>4, <1>5, <1>6, <1>7
     DEF Next, vars, RecordBuild, RecordCommit, RecordRollback, SubmitPass,
         SubmitCommit, SubmitRollback, Decide, Birthday

\* As long as admin requests do not overlap, at most one notice of a key,
\* jurisdiction and language is active.
THEOREM ExclusiveAlone == ASSUME Alone PROVE Spec => []ExclusiveActivation
<1>1. Init => AdminInv
  <2> SUFFICES ASSUME Init PROVE AdminInv
    OBVIOUS
  <2>1. Active = {} /\ \A a \in Admins : admin[a] = Idle
    BY DEF Init, Active
  <2> QED BY <2>1, TypeInit DEF AdminInv, ExclusiveActivation, Fresh, Idle
<1>2. AdminInv => ExclusiveActivation
  BY DEF AdminInv
<1> QED BY <1>1, <1>2, AdminStep, PTL DEF Spec

===============================================================================
