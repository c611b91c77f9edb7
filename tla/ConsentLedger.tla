----------------------------- MODULE ConsentLedger -----------------------------
(***************************************************************************)
(* Consent of one tenant: the versioned notices, of which one per key,      *)
(* jurisdiction and language is to be active; the receipts of one case,     *)
(* which are only ever inserted; and the gate that submit_case puts before  *)
(* the rest of the onboarding.                                              *)
(*                                                                         *)
(* Every request is a transaction of several statements and others commit   *)
(* between them.  A receipt carries the time at which its request built it, *)
(* not the time of its commit, and the newest time of a party is in force.  *)
(* Clocks of the API replicas are taken to agree.                           *)
(***************************************************************************)
EXTENDS Naturals, FiniteSets

CONSTANTS
  Notice,       \* notices that may be created
  Group,        \* notice to key, jurisdiction and language
  Slot,         \* notice to key, version and language, unique
  Admins,       \* requests that create, activate or deactivate notices
  Recorders,    \* requests that record a receipt
  Submitters,   \* requests that submit the case
  MaxChanges,   \* bound: requests of admins
  MaxReceipts   \* bound: receipts

VARIABLES
  notice,     \* consent_notices
  admin,      \* what each admin request has loaded so far
  receipts,   \* consent_records
  recorder,   \* the receipt each recording request is about to insert
  clock,      \* receipts built so far: the time
  submitter,  \* the state of the case that each submission has loaded
  submitted,  \* has the case the state documents_pending?
  minor,      \* is the applicant under age?
  changes,    \* requests of admins so far
  withdrawn   \* parties whose withdrawal was committed, and no grant begun since

noticeVars == <<notice, admin, changes>>
receiptVars == <<receipts, recorder, clock, withdrawn>>
caseVars == <<submitter, submitted, minor>>
vars == <<noticeVars, receiptVars, caseVars>>

-----------------------------------------------------------------------------
Party == {"applicant", "guardian"}

NoticeStatus == {"absent", "inactive", "active"}

Receipt == [party : Party, granted : BOOLEAN, at : Nat \ {0}]

Active == {n \in Notice : notice[n] = "active"}

\* on, seen and siblings: the flag asked for, the one loaded and the notices
\* found active in the same group.
AdminBusy == [pc : {"checked", "loaded", "selected"}, n : Notice, on : BOOLEAN,
              seen : BOOLEAN, siblings : SUBSET Notice]

Idle == [pc |-> "idle"]

Init ==
  /\ notice = [n \in Notice |-> "absent"]
  /\ admin = [a \in Admins |-> Idle]
  /\ receipts = {}
  /\ recorder = [r \in Recorders |-> {}]
  /\ clock = 0
  /\ submitter = [s \in Submitters |-> "idle"]
  /\ submitted = FALSE
  /\ minor \in BOOLEAN
  /\ changes = 0
  /\ withdrawn = {}

-----------------------------------------------------------------------------
(* Notices.                                                                *)

Begin(a, request) ==
  /\ admin[a] = Idle
  /\ changes < MaxChanges
  /\ changes' = changes + 1
  /\ admin' = [admin EXCEPT ![a] = request]
  /\ UNCHANGED <<notice, receiptVars, caseVars>>

\* create_notice: no row has this version yet ...
CreateCheck(a, n) ==
  /\ \A m \in Notice : Slot[m] = Slot[n] => notice[m] = "absent"
  /\ Begin(a, [pc |-> "checked", n |-> n, on |-> FALSE, seen |-> FALSE,
               siblings |-> {}])

\* ... and it is inserted, unless one was meanwhile: the constraint refuses it.
CreateCommit(a) ==
  /\ admin[a].pc = "checked"
  /\ notice' = IF \E m \in Notice : Slot[m] = Slot[admin[a].n] /\ notice[m] # "absent"
               THEN notice
               ELSE [notice EXCEPT ![admin[a].n] = "inactive"]
  /\ admin' = [admin EXCEPT ![a] = Idle]
  /\ UNCHANGED <<changes, receiptVars, caseVars>>

\* set_notice_active: the notice is loaded ...
SetLoad(a, n, on) ==
  /\ notice[n] # "absent"
  /\ Begin(a, [pc |-> "loaded", n |-> n, on |-> on, seen |-> n \in Active,
               siblings |-> {}])

\* Mutant: the siblings of an active notice are left as they are.
SetSiblingsNone(a) ==
  /\ admin[a].pc = "loaded"
  /\ admin' = [admin EXCEPT ![a].pc = "selected"]
  /\ UNCHANGED <<notice, changes, receiptVars, caseVars>>

\* ... its active siblings, if it is to be activated ...
SetSiblings(a) ==
  /\ admin[a].pc = "loaded"
  /\ admin' = [admin EXCEPT ![a].pc = "selected",
       ![a].siblings = {m \in Active \ {admin[a].n} :
                          admin[a].on /\ Group[m] = Group[admin[a].n]}]
  /\ UNCHANGED <<notice, changes, receiptVars, caseVars>>

\* ... and the flags that differ from those loaded are written.
SetCommit(a) ==
  /\ admin[a].pc = "selected"
  /\ notice' = [m \in Notice |->
       CASE m \in admin[a].siblings -> "inactive"
         [] m = admin[a].n /\ admin[a].on # admin[a].seen ->
              IF admin[a].on THEN "active" ELSE "inactive"
         [] OTHER -> notice[m]]
  /\ admin' = [admin EXCEPT ![a] = Idle]
  /\ UNCHANGED <<changes, receiptVars, caseVars>>

AdminRollback(a) ==
  /\ admin[a] # Idle
  /\ admin' = [admin EXCEPT ![a] = Idle]
  /\ UNCHANGED <<notice, changes, receiptVars, caseVars>>

-----------------------------------------------------------------------------
(* Receipts.                                                               *)

\* Mutant: any receipt of a grant is in force.
InForceUnordered == {r.party : r \in {r \in receipts : r.granted}}

\* _latest_by_type, of all receipts: who has granted, and not withdrawn since.
InForce ==
  {p \in Party : \E r \in receipts :
     /\ r.party = p /\ r.granted
     /\ \A q \in receipts : q.party = p => q.at <= r.at}

\* Mutant: a receipt is dated after its request.
RecordBuildLate(r, p, granted) ==
  /\ recorder[r] = {}
  /\ clock < MaxReceipts
  /\ \E n \in Notice : notice[n] # "absent"
  /\ clock' = clock + 1
  /\ recorder' = [recorder EXCEPT ![r] =
       {[party |-> p, granted |-> granted, at |-> clock + 2]}]
  /\ withdrawn' = IF granted THEN withdrawn \ {p} ELSE withdrawn
  /\ UNCHANGED <<receipts, noticeVars, caseVars>>

\* record_consent and withdraw_consent: the notice exists, active or not, and
\* the receipt is built ...
RecordBuild(r, p, granted) ==
  /\ recorder[r] = {}
  /\ clock < MaxReceipts
  /\ \E n \in Notice : notice[n] # "absent"
  /\ clock' = clock + 1
  /\ recorder' = [recorder EXCEPT ![r] =
       {[party |-> p, granted |-> granted, at |-> clock + 1]}]
  /\ withdrawn' = IF granted THEN withdrawn \ {p} ELSE withdrawn
  /\ UNCHANGED <<receipts, noticeVars, caseVars>>

\* Mutant: a party has one receipt, which is replaced.
RecordCommitReplacing(r) ==
  /\ recorder[r] # {}
  /\ receipts' = recorder[r] \cup
       {y \in receipts : \A x \in recorder[r] : y.party # x.party}
  /\ recorder' = [recorder EXCEPT ![r] = {}]
  /\ UNCHANGED <<clock, withdrawn, noticeVars, caseVars>>

\* ... and inserted.  A withdrawal stands unless a grant has begun after it.
RecordCommit(r) ==
  /\ recorder[r] # {}
  /\ receipts' = receipts \cup recorder[r]
  /\ recorder' = [recorder EXCEPT ![r] = {}]
  /\ withdrawn' = withdrawn \cup
       {x.party : x \in {x \in recorder[r] : ~x.granted /\
          \A y \in receipts \cup UNION {recorder[s] : s \in Recorders} :
            ~(y.party = x.party /\ y.granted /\ y.at > x.at)}}
  /\ UNCHANGED <<clock, noticeVars, caseVars>>

RecordRollback(r) ==
  /\ recorder[r] # {}
  /\ recorder' = [recorder EXCEPT ![r] = {}]
  /\ UNCHANGED <<receipts, clock, withdrawn, noticeVars, caseVars>>

-----------------------------------------------------------------------------
(* The gate.                                                               *)

\* Whose consent the case needs.
Needed == IF minor THEN {"applicant", "guardian"} ELSE {"applicant"}

\* ensure_case_consent lets the submission pass ...
SubmitPass(s) ==
  /\ submitter[s] = "idle"
  /\ Needed \subseteq InForce
  /\ submitter' = [submitter EXCEPT ![s] = IF submitted THEN "again" ELSE "passed"]
  /\ UNCHANGED <<submitted, minor, noticeVars, receiptVars>>

\* ... and the state is written, unless it was loaded as such.
SubmitCommit(s) ==
  /\ submitter[s] # "idle"
  /\ submitted' = (submitted \/ submitter[s] = "passed")
  /\ submitter' = [submitter EXCEPT ![s] = "idle"]
  /\ UNCHANGED <<minor, noticeVars, receiptVars>>

SubmitRollback(s) ==
  /\ submitter[s] # "idle"
  /\ submitter' = [submitter EXCEPT ![s] = "idle"]
  /\ UNCHANGED <<submitted, minor, noticeVars, receiptVars>>

\* A recomputation gives a submitted case another state (module CaseRisk).
Decide ==
  /\ submitted
  /\ submitted' = FALSE
  /\ UNCHANGED <<submitter, minor, noticeVars, receiptVars>>

\* The applicant's eighteenth birthday.
Birthday ==
  /\ minor
  /\ minor' = FALSE
  /\ UNCHANGED <<submitter, submitted, noticeVars, receiptVars>>

-----------------------------------------------------------------------------
Next ==
  \/ \E a \in Admins :
       \/ \E n \in Notice : CreateCheck(a, n)
       \/ CreateCommit(a)
       \/ \E n \in Notice, on \in BOOLEAN : SetLoad(a, n, on)
       \/ SetSiblings(a) \/ SetCommit(a) \/ AdminRollback(a)
  \/ \E r \in Recorders :
       \/ \E p \in Party, granted \in BOOLEAN : RecordBuild(r, p, granted)
       \/ RecordCommit(r) \/ RecordRollback(r)
  \/ \E s \in Submitters : SubmitPass(s) \/ SubmitCommit(s) \/ SubmitRollback(s)
  \/ Decide
  \/ Birthday

Spec == Init /\ [][Next]_vars

-----------------------------------------------------------------------------
(* Properties.                                                             *)

\* Every variable has the shape the tables and handlers give it.
TypeOK ==
  /\ notice \in [Notice -> NoticeStatus]
  /\ admin \in [Admins -> {Idle} \cup AdminBusy]
  /\ receipts \subseteq Receipt
  /\ recorder \in [Recorders -> SUBSET Receipt]
  /\ \A r \in Recorders : \A x, y \in recorder[r] : x = y
  /\ clock \in Nat
  /\ submitter \in [Submitters -> {"idle", "passed", "again"}]
  /\ submitted \in BOOLEAN
  /\ minor \in BOOLEAN
  /\ changes \in Nat
  /\ withdrawn \subseteq Party

\* Activation is exclusive within key, jurisdiction and language: an applicant
\* is never shown one of two notices.
ExclusiveActivation ==
  \A m, n \in Active : Group[m] = Group[n] => m = n

\* A withdrawal that was committed stands until a later grant: no receipt that
\* was built before it and commits after it undoes it.
WithdrawalStands == withdrawn \cap InForce = {}

\* Nobody passes intake without receipts: for a submitted case each party that
\* is needed has granted at some time, and that receipt is still there.
SubmittedWithReceipts ==
  submitted => \A p \in Needed : \E r \in receipts : r.party = p /\ r.granted

===============================================================================
