------------------------------ MODULE Access_proofs ------------------------------
(***************************************************************************)
(* Proofs about what stands between a client and the data, for any numbers  *)
(* of clients, calls and administrators and any limits.                     *)
(*                                                                         *)
(* First ClientRequests: RequestInv ties a request's phase to the tables    *)
(* and to the other requests; AdminInv keeps the keys to be inserted apart  *)
(* from those that exist.  Then RateLimit: RateInv keeps the windows of a   *)
(* counter apart, by the times and numbers of the calls alone.  Then        *)
(* RetentionRequests: ApprovalInv for what is erased, TableInv for what is  *)
(* final.  Last the composition: MCAccess implements each of its            *)
(* components, whose theorems thereby hold of it.                           *)
(***************************************************************************)
EXTENDS MCAccess, FiniteSetTheorems, SequenceTheorems, TLAPS

RequestStep(r) ==
  \/ Check(r) \/ Admit(r) \/ Lookup(r) \/ Create(r) \/ Store(r)
  \/ Commit(r) \/ Respond(r) \/ Fail(r)

AdminStep(a) ==
  \/ \E n \in ApiKeys : CreateApiKey(a, n)
  \/ \E k, n \in ApiKeys, expire_old \in BOOLEAN : RotateApiKey(a, k, n, expire_old)
  \/ \E k \in ApiKeys : RevokeApiKey(a, k)
  \/ AdminFlush(a) \/ AdminCommit(a) \/ AdminFail(a)

LEMMA NextSteps ==
  Next <=> (\E r \in Requests : RequestStep(r)) \/ (\E a \in Admins : AdminStep(a))
BY DEF Next, RequestStep, AdminStep

-----------------------------------------------------------------------------
(* Types.                                                                  *)

LEMMA TypeInit == Init => TypeOK
BY DEF Init, TypeOK, KeyStatus, Phase, Admin

LEMMA AdminBeginType ==
  ASSUME TypeOK, NEW a \in Admins, NEW old \in SUBSET ApiKeys,
         NEW new \in SUBSET ApiKeys, AdminBegin(a, old, new)
  PROVE  TypeOK'
<1>1. admin' \in [Admins -> Admin]
  BY DEF AdminBegin, TypeOK, Admin
<1> QED BY <1>1 DEF AdminBegin, TypeOK, tables, inputs

LEMMA TypeStep == TypeOK /\ [Next]_vars => TypeOK'
<1> SUFFICES ASSUME TypeOK, [Next]_vars PROVE TypeOK'
  OBVIOUS
<1> USE DEF tables, inputs, Advance
<1>1. ASSUME NEW r \in Requests, Check(r) PROVE TypeOK'
  BY <1>1 DEF Check, TypeOK, Phase, InTransaction
<1>2. ASSUME NEW r \in Requests, Admit(r) PROVE TypeOK'
  BY <1>2 DEF Admit, TypeOK, Phase, InTransaction
<1>3. ASSUME NEW r \in Requests, Lookup(r) PROVE TypeOK'
  <2>1. idem[intent[r]] \in cases \cup {NoCase}
    BY <1>3 DEF Lookup, TypeOK
  <2>2. found' \in [Requests -> cases \cup {NoCase}]
    BY <1>3, <2>1 DEF Lookup, TypeOK
  <2>3. pc' \in [Requests -> Phase]
    BY <1>3 DEF Lookup, TypeOK, Phase, InTransaction
  <2> QED BY <1>3, <2>2, <2>3 DEF Lookup, TypeOK
<1>4. ASSUME NEW r \in Requests, Create(r) PROVE TypeOK'
  BY <1>4 DEF Create, TypeOK, Phase, InTransaction
<1>5. ASSUME NEW r \in Requests, Store(r) PROVE TypeOK'
  BY <1>5 DEF Store, TypeOK, Phase, InTransaction
<1>6. ASSUME NEW r \in Requests, Commit(r) PROVE TypeOK'
  <2>1. cases' \in SUBSET Requests /\ cases \subseteq cases'
    BY <1>6 DEF Commit, TypeOK
  <2>2. idem' \in [IdemKeys -> cases' \cup {NoCase}]
    BY <1>6, <2>1 DEF Commit, TypeOK
  <2>3. found' \in [Requests -> cases' \cup {NoCase}]
    BY <1>6, <2>1 DEF Commit, TypeOK
  <2>4. pc' \in [Requests -> Phase]
    BY <1>6 DEF Commit, TypeOK, Phase
  <2> QED BY <1>6, <2>1, <2>2, <2>3, <2>4 DEF Commit, KeysUpdated, TypeOK
<1>7. ASSUME NEW r \in Requests, Respond(r) PROVE TypeOK'
  BY <1>7 DEF Respond, TypeOK
<1>8. ASSUME NEW r \in Requests, Fail(r) PROVE TypeOK'
  BY <1>8 DEF Fail, TypeOK, Phase
<1>9. ASSUME NEW a \in Admins, NEW n \in ApiKeys, CreateApiKey(a, n) PROVE TypeOK'
  BY <1>9, AdminBeginType DEF CreateApiKey
<1>10. ASSUME NEW a \in Admins, NEW k \in ApiKeys, NEW n \in ApiKeys,
              NEW expire_old \in BOOLEAN, RotateApiKey(a, k, n, expire_old)
       PROVE  TypeOK'
  BY <1>10, AdminBeginType DEF RotateApiKey
<1>11. ASSUME NEW a \in Admins, NEW k \in ApiKeys, RevokeApiKey(a, k) PROVE TypeOK'
  BY <1>11, AdminBeginType DEF RevokeApiKey
<1>12. ASSUME NEW a \in Admins, AdminFlush(a) PROVE TypeOK'
  BY <1>12 DEF AdminFlush, TypeOK, Admin
<1>13. ASSUME NEW a \in Admins, AdminCommit(a) PROVE TypeOK'
  <2>1. key' \in [ApiKeys -> KeyStatus]
    BY <1>13 DEF AdminCommit, TypeOK, KeyStatus
  <2>2. admin' \in [Admins -> Admin]
    BY <1>13 DEF AdminCommit, TypeOK, Admin
  <2> QED BY <1>13, <2>1, <2>2 DEF AdminCommit, TypeOK
<1>14. ASSUME NEW a \in Admins, AdminFail(a) PROVE TypeOK'
  BY <1>14 DEF AdminFail, TypeOK, Admin
<1>15. CASE UNCHANGED vars
  BY <1>15 DEF vars, TypeOK
<1> QED BY <1>1, <1>2, <1>3, <1>4, <1>5, <1>6, <1>7, <1>8, <1>9, <1>10, <1>11,
           <1>12, <1>13, <1>14, <1>15 DEF Next

\* Every step keeps the tables and requests in their types.
THEOREM TypeCorrect == Spec => []TypeOK
BY TypeInit, TypeStep, PTL DEF Spec

-----------------------------------------------------------------------------
(* One case for a key.                                                     *)

\* What a request's phase says about what it has found, and about its key.
PhaseFits(r) ==
  /\ found[r] # NoCase => /\ pc[r] \in {"found", "committed", "failed"}
                          /\ intent[r] # NoKey
                          /\ intent[found[r]] = intent[r]
  /\ pc[r] = "found" => found[r] # NoCase
  /\ pc[r] \in {"missed", "stored", "conflict"} => intent[r] # NoKey
  /\ r \in cases => pc[r] = "committed"
  /\ pc[r] = "committed" /\ found[r] = NoCase => r \in cases

\* The unique entry of an open transaction is nobody else's.
StoredAlone(r) ==
  pc[r] = "stored" =>
    /\ idem[intent[r]] = NoCase
    /\ \A s \in Requests \ {r} : ~(pc[s] = "stored" /\ intent[s] = intent[r])

\* The record of a key names the case created with it.
Recorded ==
  /\ \A i \in IdemKeys : idem[i] # NoCase => intent[idem[i]] = i
  /\ \A r \in cases : intent[r] # NoKey => idem[intent[r]] = r

RequestInv ==
  /\ Recorded
  /\ \A r \in Requests : PhaseFits(r) /\ StoredAlone(r)

\* Only the phase and the found case of one request change, and no table.
LEMMA LocalStep ==
  ASSUME TypeOK, RequestInv, NEW r \in Requests,
         UNCHANGED <<idem, cases, cred, intent>>,
         \A s \in Requests \ {r} : pc'[s] = pc[s] /\ found'[s] = found[s],
         PhaseFits(r)', StoredAlone(r)'
  PROVE  RequestInv'
<1>1. Recorded'
  BY DEF RequestInv, Recorded
<1>2. ASSUME NEW s \in Requests \ {r} PROVE PhaseFits(s)'
  BY <1>2 DEF RequestInv, PhaseFits
<1>3. ASSUME NEW s \in Requests \ {r} PROVE StoredAlone(s)'
  BY <1>3 DEF RequestInv, StoredAlone
<1> QED BY <1>1, <1>2, <1>3 DEF RequestInv

LEMMA RequestInit == Init => RequestInv
BY DEF Init, RequestInv, Recorded, PhaseFits, StoredAlone

LEMMA CommitKeeps ==
  ASSUME TypeOK, RequestInv, NEW r \in Requests, Commit(r)
  PROVE  RequestInv'
<1> USE ConstantsAssumption DEF tables, inputs, Advance
<1>1. UNCHANGED <<cred, intent, found>> /\ pc' = [pc EXCEPT ![r] = "committed"]
  BY DEF Commit
<1>2. pc'[r] = "committed" /\ \A s \in Requests \ {r} : pc'[s] = pc[s]
  BY <1>1 DEF TypeOK
<1>3. PhaseFits(r) /\ StoredAlone(r) /\ HandlerDone(r)
  BY DEF RequestInv, Commit
<1>4. r \notin cases
  BY <1>3 DEF PhaseFits, HandlerDone
<1>5. CASE pc[r] = "found"
  <2>1. cases' = cases /\ idem' = idem
    BY <1>5 DEF Commit
  <2>2. PhaseFits(r)'
    BY <1>1, <1>2, <1>3, <1>4, <1>5, <2>1 DEF PhaseFits
  <2>3. StoredAlone(r)'
    BY <1>2 DEF StoredAlone
  <2> QED BY <1>1, <1>2, <2>1, <2>2, <2>3, LocalStep
<1>6. CASE pc[r] = "created" /\ intent[r] = NoKey
  <2>1. cases' = cases \cup {r} /\ idem' = idem
    BY <1>6 DEF Commit
  <2>2. Recorded'
    BY <1>1, <1>6, <2>1 DEF RequestInv, Recorded, TypeOK
  <2>3. ASSUME NEW s \in Requests PROVE PhaseFits(s)'
    BY <1>1, <1>2, <1>3, <1>6, <2>1 DEF PhaseFits, RequestInv
  <2>4. ASSUME NEW s \in Requests PROVE StoredAlone(s)'
    BY <1>1, <1>2, <2>1 DEF StoredAlone, RequestInv
  <2> QED BY <2>2, <2>3, <2>4 DEF RequestInv
<1>7. CASE pc[r] = "stored"
  <2>1. cases' = cases \cup {r} /\ idem' = [idem EXCEPT ![intent[r]] = r]
    BY <1>7 DEF Commit
  <2>2. intent[r] \in IdemKeys /\ idem[intent[r]] = NoCase
    BY <1>3, <1>7 DEF PhaseFits, StoredAlone, TypeOK
  <2>3. /\ idem'[intent[r]] = r
        /\ \A i \in IdemKeys \ {intent[r]} : idem'[i] = idem[i]
    BY <2>1, <2>2 DEF TypeOK
  <2>4. \A s \in cases : intent[s] # intent[r]
    BY <2>2 DEF RequestInv, Recorded, TypeOK
  <2>5. Recorded'
    <3>1. \A i \in IdemKeys : idem'[i] # NoCase => intent[idem'[i]] = i
      BY <2>3 DEF RequestInv, Recorded
    <3>2. ASSUME NEW s \in cases', intent[s] # NoKey PROVE idem'[intent[s]] = s
      <4>1. CASE s = r
        BY <2>3, <4>1
      <4>2. CASE s \in cases
        BY <2>3, <2>4, <3>2, <4>2 DEF RequestInv, Recorded, TypeOK
      <4> QED BY <2>1, <4>1, <4>2
    <3> QED BY <1>1, <3>1, <3>2 DEF Recorded
  <2>6. ASSUME NEW s \in Requests PROVE PhaseFits(s)'
    BY <1>1, <1>2, <1>3, <1>7, <2>1 DEF PhaseFits, RequestInv
  <2>7. ASSUME NEW s \in Requests PROVE StoredAlone(s)'
    <3>1. CASE s = r
      BY <1>2, <3>1 DEF StoredAlone
    <3>2. CASE s # r
      <4>1. pc[s] = "stored" => intent[s] # intent[r] /\ intent[s] \in IdemKeys
        BY <1>3, <1>7, <3>2 DEF StoredAlone, PhaseFits, RequestInv, TypeOK
      <4>2. pc[s] = "stored" => idem'[intent[s]] = NoCase
        BY <2>3, <4>1 DEF StoredAlone, RequestInv
      <4> QED BY <1>1, <1>2, <3>2, <4>2 DEF StoredAlone, RequestInv
    <3> QED BY <3>1, <3>2
  <2> QED BY <2>5, <2>6, <2>7 DEF RequestInv
<1> QED BY <1>3, <1>5, <1>6, <1>7 DEF HandlerDone

LEMMA RequestStepKeeps == TypeOK /\ RequestInv /\ [Next]_vars => RequestInv'
<1> SUFFICES ASSUME TypeOK, RequestInv, [Next]_vars PROVE RequestInv'
  OBVIOUS
<1> USE ConstantsAssumption DEF tables, inputs, Advance
<1>a. ASSUME NEW r \in Requests, NEW phase \in Phase \ {"stored", "found", "committed"},
             pc' = [pc EXCEPT ![r] = phase],
             UNCHANGED <<idem, cases, cred, intent, found>>,
             r \notin cases,
             found[r] # NoCase => phase = "failed",
             phase \in {"missed", "conflict"} => intent[r] # NoKey
      PROVE  RequestInv'
  <2>1. pc'[r] = phase /\ \A s \in Requests \ {r} : pc'[s] = pc[s]
    BY <1>a DEF TypeOK
  <2>2. PhaseFits(r)'
    BY <1>a, <2>1 DEF RequestInv, PhaseFits
  <2>3. StoredAlone(r)'
    BY <1>a, <2>1 DEF StoredAlone
  <2> QED BY <1>a, <2>1, <2>2, <2>3, LocalStep
<1>b. \A r \in Requests : PhaseFits(r)
  BY DEF RequestInv
<1>1. ASSUME NEW r \in Requests, Check(r) PROVE RequestInv'
  BY <1>a, <1>b, <1>1 DEF Check, PhaseFits, Phase, InTransaction
<1>2. ASSUME NEW r \in Requests, Admit(r) PROVE RequestInv'
  BY <1>a, <1>b, <1>2 DEF Admit, PhaseFits, Phase, InTransaction
<1>3. ASSUME NEW r \in Requests, Lookup(r) PROVE RequestInv'
  <2>1. intent[r] \in IdemKeys /\ r \notin cases
    BY <1>b, <1>3 DEF Lookup, TypeOK, PhaseFits
  <2>2. /\ pc'[r] = IF idem[intent[r]] = NoCase THEN "missed" ELSE "found"
        /\ found'[r] = idem[intent[r]]
        /\ \A s \in Requests \ {r} : pc'[s] = pc[s] /\ found'[s] = found[s]
        /\ UNCHANGED <<idem, cases, cred, intent>>
    BY <1>3 DEF Lookup, TypeOK
  <2>3. idem[intent[r]] # NoCase => intent[idem[intent[r]]] = intent[r]
    BY <2>1 DEF RequestInv, Recorded
  <2>4. PhaseFits(r)'
    BY <2>1, <2>2, <2>3, <1>3 DEF PhaseFits, Lookup
  <2>5. StoredAlone(r)'
    BY <2>2 DEF StoredAlone
  <2> QED BY <2>2, <2>4, <2>5, LocalStep
<1>4. ASSUME NEW r \in Requests, Create(r) PROVE RequestInv'
  BY <1>a, <1>b, <1>4 DEF Create, PhaseFits, Phase, InTransaction
<1>5. ASSUME NEW r \in Requests, Store(r) PROVE RequestInv'
  <2>1. CASE idem[intent[r]] # NoCase
    BY <1>a, <1>b, <1>5, <2>1 DEF Store, PhaseFits, Phase, InTransaction
  <2>2. CASE idem[intent[r]] = NoCase
    <3>1. pc'[r] = "stored" /\ \A s \in Requests \ {r} : pc'[s] = pc[s]
      BY <1>5, <2>2 DEF Store, TypeOK
    <3>2. UNCHANGED <<idem, cases, cred, intent, found>>
      BY <1>5 DEF Store
    <3>3. PhaseFits(r)'
      BY <1>b, <1>5, <3>1, <3>2 DEF Store, PhaseFits
    <3>4. StoredAlone(r)'
      BY <1>5, <2>2, <3>1, <3>2 DEF Store, StoredAlone
    <3>5. ASSUME NEW s \in Requests \ {r} PROVE PhaseFits(s)' /\ StoredAlone(s)'
      BY <1>5, <3>1, <3>2, <3>5 DEF Store, RequestInv, PhaseFits, StoredAlone
    <3>6. Recorded'
      BY <3>2 DEF RequestInv, Recorded
    <3> QED BY <3>3, <3>4, <3>5, <3>6 DEF RequestInv
  <2> QED BY <2>1, <2>2
<1>6. ASSUME NEW r \in Requests, Commit(r) PROVE RequestInv'
  BY <1>6, CommitKeeps
<1>7. ASSUME NEW r \in Requests, Fail(r) PROVE RequestInv'
  BY <1>a, <1>b, <1>7 DEF Fail, PhaseFits, Phase, InTransaction
<1>8. CASE UNCHANGED <<idem, cases, pc, cred, intent, found>>
  BY <1>8 DEF RequestInv, Recorded, PhaseFits, StoredAlone
<1>9. ASSUME NEW a \in Admins, AdminStep(a) PROVE RequestInv'
  BY <1>8, <1>9 DEF AdminStep, CreateApiKey, RotateApiKey, RevokeApiKey, AdminBegin,
                    AdminFlush, AdminCommit, AdminFail
<1>10. ASSUME NEW r \in Requests, Respond(r) PROVE RequestInv'
  BY <1>8, <1>10 DEF Respond
<1> QED BY <1>1, <1>2, <1>3, <1>4, <1>5, <1>6, <1>7, <1>8, <1>9, <1>10, NextSteps
        DEF RequestStep, vars

LEMMA RequestInvariant == Spec => []RequestInv
BY RequestInit, RequestStepKeeps, TypeCorrect, PTL DEF Spec

\* However requests of any clients overlap, fail and are repeated, a key has one
\* case.
THEOREM OneCase == Spec => []OneCasePerKey
<1>1. RequestInv => OneCasePerKey
  BY DEF RequestInv, Recorded, OneCasePerKey
<1> QED BY <1>1, RequestInvariant, PTL

-----------------------------------------------------------------------------
(* Answers.                                                                *)

\* An answer is what the handler returned; it stays so if the commit fails.
AnswerInv ==
  \A r \in Requests : answer[r] # NoCase =>
    /\ pc[r] \in {"created", "found", "stored", "committed", "failed"}
    /\ pc[r] = "created" => intent[r] = NoKey
    /\ answer[r] = IF found[r] = NoCase THEN r ELSE found[r]

LEMMA AnswerStep ==
  TypeOK /\ RequestInv /\ AnswerInv /\ [Next]_vars => AnswerInv'
<1> SUFFICES ASSUME TypeOK, RequestInv, AnswerInv, [Next]_vars
             PROVE  AnswerInv'
  OBVIOUS
<1> USE DEF tables, inputs, Advance
<1>1. ASSUME NEW r \in Requests, Respond(r) PROVE AnswerInv'
  BY <1>1 DEF Respond, HandlerDone, AnswerInv, TypeOK
<1>2. ASSUME NEW r \in Requests, answer[r] = NoCase, UNCHANGED <<answer, intent>>,
             \A s \in Requests \ {r} : pc'[s] = pc[s] /\ found'[s] = found[s]
      PROVE  AnswerInv'
  BY <1>2 DEF AnswerInv
<1>3. CASE UNCHANGED <<pc, found, answer, intent>>
  BY <1>3 DEF AnswerInv
<1>4. ASSUME NEW r \in Requests, Commit(r) \/ Fail(r) PROVE AnswerInv'
  <2>1. UNCHANGED <<found, answer, intent>> /\ pc'[r] \in {"committed", "failed"}
    BY <1>4 DEF Commit, Fail, TypeOK
  <2>2. \A s \in Requests \ {r} : pc'[s] = pc[s]
    BY <1>4 DEF Commit, Fail, TypeOK
  <2> QED BY <2>1, <2>2 DEF AnswerInv
<1>5. ASSUME NEW r \in Requests,
             Check(r) \/ Admit(r) \/ Lookup(r) \/ Create(r) \/ Store(r)
      PROVE  AnswerInv'
  <2>1. pc[r] \in {"idle", "checked", "admitted", "missed"}
          \/ (pc[r] = "created" /\ intent[r] # NoKey)
    BY <1>5 DEF Check, Admit, Lookup, Create, Store
  <2>2. answer[r] = NoCase /\ UNCHANGED <<answer, intent>>
    BY <1>5, <2>1 DEF AnswerInv, Check, Admit, Lookup, Create, Store
  <2>3. \A s \in Requests \ {r} : pc'[s] = pc[s] /\ found'[s] = found[s]
    BY <1>5 DEF Check, Admit, Lookup, Create, Store, TypeOK
  <2> QED BY <1>2, <2>2, <2>3
<1>6. ASSUME NEW a \in Admins, AdminStep(a) PROVE AnswerInv'
  BY <1>3, <1>6 DEF AdminStep, CreateApiKey, RotateApiKey, RevokeApiKey, AdminBegin,
                    AdminFlush, AdminCommit, AdminFail
<1> QED BY <1>1, <1>3, <1>4, <1>5, <1>6, NextSteps DEF RequestStep, vars

\* A request that was answered holds its own case, flushed or committed, or the
\* committed one that it found.
LEMMA AnswerNames ==
  ASSUME TypeOK, RequestInv, AnswerInv, NEW r \in Requests, answer[r] # NoCase
  PROVE  /\ intent[answer[r]] = intent[r]
         /\ \/ answer[r] \in cases
            \/ answer[r] = r /\ pc[r] \in {"created", "stored", "failed"}
<1>1. PhaseFits(r)
  BY DEF RequestInv
<1>2. CASE found[r] = NoCase
  BY <1>1, <1>2 DEF AnswerInv, PhaseFits
<1>3. CASE found[r] # NoCase
  BY <1>1, <1>3 DEF AnswerInv, PhaseFits, TypeOK
<1> QED BY <1>2, <1>3

\* The case that a client is answered with is the one of the key it sent, or a
\* case that is about to be, unless the commit after the answer fails.
THEOREM AnswersCorrect == Spec => []AnswersHold
<1>1. Init => AnswerInv
  BY DEF Init, AnswerInv
<1>2. TypeOK /\ RequestInv /\ AnswerInv /\ [Next]_vars => AnswerInv'
  BY AnswerStep
<1>3. ASSUME TypeOK, RequestInv, AnswerInv PROVE AnswersHold
  <2>1. ASSUME NEW r \in Requests, NEW s \in Requests,
               answer[r] # NoCase, answer[s] # NoCase,
               intent[s] = intent[r], intent[r] # NoKey,
               \A q \in {r, s} : pc[q] = "failed" => answer[q] # q
        PROVE  answer[s] = answer[r]
    <3>1. /\ intent[answer[r]] = intent[r]
          /\ answer[r] \in cases \/ (answer[r] = r /\ pc[r] = "stored")
      BY <1>3, <2>1, AnswerNames DEF AnswerInv
    <3>2. /\ intent[answer[s]] = intent[r]
          /\ answer[s] \in cases \/ (answer[s] = s /\ pc[s] = "stored")
      BY <1>3, <2>1, AnswerNames DEF AnswerInv
    <3>3. intent[r] \in IdemKeys
      BY <1>3, <2>1 DEF TypeOK
    <3>4. \A c \in cases : intent[c] = intent[r] => idem[intent[r]] = c
      BY <1>3, <2>1 DEF RequestInv, Recorded
    <3>5. \A c \in cases : c # NoCase
      BY <1>3, ConstantsAssumption DEF TypeOK
    <3>6. StoredAlone(r) /\ StoredAlone(s)
      BY <1>3 DEF RequestInv
    <3>7. CASE answer[r] \in cases /\ answer[s] \in cases
      BY <3>1, <3>2, <3>4, <3>7
    <3>8. CASE answer[r] = r /\ pc[r] = "stored"
      BY <2>1, <3>1, <3>2, <3>4, <3>5, <3>6, <3>8 DEF StoredAlone
    <3>9. CASE answer[s] = s /\ pc[s] = "stored"
      BY <2>1, <3>1, <3>2, <3>4, <3>5, <3>6, <3>9 DEF StoredAlone
    <3> QED BY <3>1, <3>2, <3>7, <3>8, <3>9
  <2> QED BY <1>3, <2>1, AnswerNames DEF AnswersHold
<1> QED BY <1>1, <1>2, <1>3, TypeCorrect, RequestInvariant, PTL DEF Spec

-----------------------------------------------------------------------------
(* Locks.                                                                  *)

\* An API key's row is held by one request at a time.
RowsHeldOnce ==
  \A r, s \in Requests :
    cred[r] \in ApiKeys /\ cred[r] = cred[s] /\ pc[r] \in InTransaction
      /\ pc[s] \in InTransaction => r = s

LEMMA RowsHeldStep == TypeOK /\ RowsHeldOnce /\ [Next]_vars => RowsHeldOnce'
<1> SUFFICES ASSUME TypeOK, RowsHeldOnce, [Next]_vars PROVE RowsHeldOnce'
  OBVIOUS
<1> USE ConstantsAssumption DEF tables, inputs, Advance
<1>1. ASSUME NEW r \in Requests, cred' = cred,
             \A s \in Requests \ {r} : pc'[s] = pc[s],
             \/ pc'[r] \notin InTransaction
             \/ pc[r] \in InTransaction
             \/ cred[r] \notin ApiKeys
             \/ \A s \in Requests \ {r} : cred[s] # cred[r] \/ pc[s] \notin InTransaction
      PROVE  RowsHeldOnce'
  BY <1>1 DEF RowsHeldOnce
<1>2. ASSUME UNCHANGED <<pc, cred>> PROVE RowsHeldOnce'
  BY <1>2 DEF RowsHeldOnce
<1>3. ASSUME NEW r \in Requests, Check(r) PROVE RowsHeldOnce'
  <2>1. cred' = cred /\ \A s \in Requests \ {r} : pc'[s] = pc[s]
    BY <1>3 DEF Check, TypeOK
  <2>2. pc'[r] \notin InTransaction \/ cred[r] \notin ApiKeys
    BY <1>3 DEF Check, TypeOK, InTransaction
  <2> QED BY <1>1, <2>1, <2>2
<1>4. ASSUME NEW r \in Requests, Admit(r) PROVE RowsHeldOnce'
  <2>1. cred' = cred /\ \A s \in Requests \ {r} : pc'[s] = pc[s]
    BY <1>4 DEF Admit, TypeOK
  <2>2. \A s \in Requests \ {r} : cred[s] # cred[r] \/ pc[s] \notin InTransaction
    BY <1>4 DEF Admit, LockedByClient
  <2> QED BY <1>1, <2>1, <2>2
<1>5. ASSUME NEW r \in Requests,
             Lookup(r) \/ Create(r) \/ Store(r) \/ Commit(r) \/ Fail(r)
      PROVE  RowsHeldOnce'
  <2>1. cred' = cred /\ \A s \in Requests \ {r} : pc'[s] = pc[s]
    BY <1>5 DEF Lookup, Create, Store, Commit, Fail, TypeOK
  <2>2. pc'[r] \notin InTransaction \/ pc[r] \in InTransaction
    BY <1>5 DEF Lookup, Create, Store, Commit, HandlerDone, Fail, TypeOK, InTransaction
  <2> QED BY <1>1, <2>1, <2>2
<1>6. ASSUME NEW r \in Requests, Respond(r) PROVE RowsHeldOnce'
  BY <1>2, <1>6 DEF Respond
<1>7. ASSUME NEW a \in Admins, AdminStep(a) PROVE RowsHeldOnce'
  BY <1>2, <1>7 DEF AdminStep, CreateApiKey, RotateApiKey, RevokeApiKey, AdminBegin,
                    AdminFlush, AdminCommit, AdminFail
<1>8. CASE UNCHANGED vars
  BY <1>2, <1>8 DEF vars
<1> QED BY <1>3, <1>4, <1>5, <1>6, <1>7, <1>8, NextSteps DEF RequestStep

LEMMA RowsHeldInvariant == Spec => []RowsHeldOnce
<1>1. Init => RowsHeldOnce
  BY DEF Init, RowsHeldOnce, InTransaction
<1> QED BY <1>1, RowsHeldStep, TypeCorrect, PTL DEF Spec

\* A case that a request has missed was created with another credential.
Foreign(r, s) == cred[s] # cred[r] \/ cred[r] \in Users

ConflictInv ==
  \A r \in Requests : \A s \in cases :
    pc[r] \in {"missed", "created"} /\ intent[r] # NoKey /\ intent[s] = intent[r]
      => Foreign(r, s)

LEMMA ConflictStep ==
  TypeOK /\ RequestInv /\ RowsHeldOnce /\ ConflictInv /\ [Next]_vars => ConflictInv'
<1> SUFFICES ASSUME TypeOK, RequestInv, RowsHeldOnce, ConflictInv, [Next]_vars
             PROVE  ConflictInv'
  OBVIOUS
<1> USE ConstantsAssumption DEF tables, inputs, Advance
<1>1. ASSUME NEW r \in Requests, UNCHANGED <<cases, cred, intent>>,
             \A s \in Requests \ {r} : pc'[s] = pc[s],
             \/ pc'[r] \notin {"missed", "created"}
             \/ pc[r] \in {"missed", "created"}
             \/ intent[r] = NoKey
             \/ \A s \in cases : intent[s] # intent[r]
      PROVE  ConflictInv'
  BY <1>1 DEF ConflictInv, Foreign
<1>2. ASSUME UNCHANGED <<cases, cred, intent, pc>> PROVE ConflictInv'
  BY <1>2 DEF ConflictInv, Foreign
<1>3. ASSUME NEW r \in Requests, Check(r) \/ Admit(r) \/ Store(r) \/ Fail(r)
      PROVE  ConflictInv'
  <2>1. /\ UNCHANGED <<cases, cred, intent>>
        /\ \A s \in Requests \ {r} : pc'[s] = pc[s]
    BY <1>3 DEF Check, Admit, Store, Fail, TypeOK
  <2>2. pc'[r] \notin {"missed", "created"}
    BY <1>3 DEF Check, Admit, Store, Fail, TypeOK
  <2> QED BY <1>1, <2>1, <2>2
<1>4. ASSUME NEW r \in Requests, Lookup(r) PROVE ConflictInv'
  <2>1. /\ UNCHANGED <<cases, cred, intent>>
        /\ \A s \in Requests \ {r} : pc'[s] = pc[s]
    BY <1>4 DEF Lookup, TypeOK
  <2>2. CASE idem[intent[r]] = NoCase
    <3>1. \A s \in cases : intent[s] # intent[r]
      BY <1>4, <2>2 DEF Lookup, RequestInv, Recorded, TypeOK
    <3> QED BY <1>1, <2>1, <3>1
  <2>3. CASE idem[intent[r]] # NoCase
    <3>1. pc'[r] = "found"
      BY <1>4, <2>3 DEF Lookup, TypeOK
    <3> QED BY <1>1, <2>1, <3>1
  <2> QED BY <2>2, <2>3
<1>5. ASSUME NEW r \in Requests, Create(r) PROVE ConflictInv'
  <2>1. /\ UNCHANGED <<cases, cred, intent>>
        /\ \A s \in Requests \ {r} : pc'[s] = pc[s]
    BY <1>5 DEF Create, TypeOK
  <2>2. pc[r] = "missed" \/ intent[r] = NoKey
    BY <1>5 DEF Create
  <2> QED BY <1>1, <2>1, <2>2
<1>6. ASSUME NEW r \in Requests, Commit(r) PROVE ConflictInv'
  <2>1. /\ UNCHANGED <<cred, intent>> /\ cases' \subseteq cases \cup {r}
        /\ pc'[r] = "committed" /\ \A s \in Requests \ {r} : pc'[s] = pc[s]
        /\ pc[r] \in InTransaction
    BY <1>6 DEF Commit, HandlerDone, InTransaction, TypeOK
  <2>2. ASSUME NEW q \in Requests, pc'[q] \in {"missed", "created"}
        PROVE  Foreign(q, r)
    <3>1. q # r /\ pc[q] \in InTransaction
      BY <2>1, <2>2 DEF InTransaction
    <3>2. cred[q] \in ApiKeys \cup Users
      BY DEF TypeOK, Credentials
    <3> QED BY <2>1, <3>1, <3>2 DEF RowsHeldOnce, Foreign
  <2>3. ASSUME NEW q \in Requests, NEW s \in cases, pc'[q] \in {"missed", "created"},
               intent[q] # NoKey, intent[s] = intent[q]
        PROVE  Foreign(q, s)
    <3>1. pc[q] = pc'[q]
      BY <2>1, <2>3
    <3> QED BY <2>3, <3>1 DEF ConflictInv
  <2> QED BY <2>1, <2>2, <2>3 DEF ConflictInv, Foreign
<1>7. ASSUME NEW r \in Requests, Respond(r) PROVE ConflictInv'
  BY <1>2, <1>7 DEF Respond
<1>8. ASSUME NEW a \in Admins, AdminStep(a) PROVE ConflictInv'
  BY <1>2, <1>8 DEF AdminStep, CreateApiKey, RotateApiKey, RevokeApiKey, AdminBegin,
                    AdminFlush, AdminCommit, AdminFail
<1>9. CASE UNCHANGED vars
  BY <1>2, <1>9 DEF vars
<1> QED BY <1>3, <1>4, <1>5, <1>6, <1>7, <1>8, <1>9, NextSteps DEF RequestStep

LEMMA ConflictInvariant == Spec => []ConflictInv
<1>1. Init => ConflictInv
  BY DEF Init, ConflictInv
<1> QED BY <1>1, ConflictStep, RowsHeldInvariant, RequestInvariant, TypeCorrect, PTL
        DEF Spec

LEMMA ConflictFound ==
  ASSUME TypeOK, RequestInv, ConflictInv, ConflictNeedsTwoCredentials, [Next]_vars
  PROVE  ConflictNeedsTwoCredentials'
<1> USE DEF tables, inputs, Advance
<1>1. ASSUME NEW r \in Requests, UNCHANGED <<cred, intent>>, cases \subseteq cases',
             \A s \in Requests \ {r} : pc'[s] = pc[s],
             pc'[r] = "conflict" =>
               \E s \in cases : intent[s] = intent[r] /\ Foreign(r, s)
      PROVE  ConflictNeedsTwoCredentials'
  BY <1>1 DEF ConflictNeedsTwoCredentials, Foreign
<1>2. ASSUME UNCHANGED <<cases, cred, intent, pc>> PROVE ConflictNeedsTwoCredentials'
  BY <1>2 DEF ConflictNeedsTwoCredentials
<1>3. ASSUME NEW r \in Requests, Store(r) PROVE ConflictNeedsTwoCredentials'
  <2>1. /\ UNCHANGED <<cases, cred, intent>>
        /\ \A s \in Requests \ {r} : pc'[s] = pc[s]
    BY <1>3 DEF Store, TypeOK
  <2>2. CASE idem[intent[r]] = NoCase
    <3>1. pc'[r] = "stored"
      BY <1>3, <2>2 DEF Store, TypeOK
    <3> QED BY <1>1, <2>1, <3>1
  <2>3. CASE idem[intent[r]] # NoCase
    <3>1. PICK s : s = idem[intent[r]]
      OBVIOUS
    <3>2. intent[r] \in IdemKeys
      BY <1>3 DEF Store, TypeOK
    <3>3. s \in cases /\ intent[s] = intent[r]
      BY <2>3, <3>1, <3>2 DEF TypeOK, RequestInv, Recorded
    <3>4. Foreign(r, s)
      BY <1>3, <3>3 DEF Store, ConflictInv
    <3> QED BY <1>1, <2>1, <3>3, <3>4
  <2> QED BY <2>2, <2>3
<1>4. ASSUME NEW r \in Requests,
             Check(r) \/ Admit(r) \/ Lookup(r) \/ Create(r) \/ Commit(r) \/ Fail(r)
      PROVE  ConflictNeedsTwoCredentials'
  <2>1. /\ UNCHANGED <<cred, intent>> /\ cases \subseteq cases'
        /\ \A s \in Requests \ {r} : pc'[s] = pc[s]
    BY <1>4 DEF Check, Admit, Lookup, Create, Commit, Fail, TypeOK
  <2>2. pc'[r] # "conflict"
    BY <1>4 DEF Check, Admit, Lookup, Create, Commit, Fail, TypeOK
  <2> QED BY <1>1, <2>1, <2>2
<1>5. ASSUME NEW r \in Requests, Respond(r) PROVE ConflictNeedsTwoCredentials'
  BY <1>2, <1>5 DEF Respond
<1>6. ASSUME NEW a \in Admins, AdminStep(a) PROVE ConflictNeedsTwoCredentials'
  BY <1>2, <1>6 DEF AdminStep, CreateApiKey, RotateApiKey, RevokeApiKey, AdminBegin,
                    AdminFlush, AdminCommit, AdminFail
<1>7. CASE UNCHANGED vars
  BY <1>2, <1>7 DEF vars
<1> QED BY <1>3, <1>4, <1>5, <1>6, <1>7, NextSteps DEF RequestStep

\* A client that keeps to one API key never meets the unique constraint.
THEOREM ConflictCorrect == Spec => []ConflictNeedsTwoCredentials
<1>1. Init => ConflictNeedsTwoCredentials
  BY DEF Init, ConflictNeedsTwoCredentials
<1>2. /\ TypeOK /\ RequestInv /\ ConflictInv /\ ConflictNeedsTwoCredentials
      /\ [Next]_vars
      => ConflictNeedsTwoCredentials'
  BY ConflictFound
<1> QED BY <1>1, <1>2, ConflictInvariant, RequestInvariant, TypeCorrect, PTL DEF Spec

-----------------------------------------------------------------------------
(* Revocation.                                                             *)

\* Keys about to be inserted do not exist yet and are nobody else's; keys about
\* to be revoked do exist.
AdminInv ==
  \A a \in Admins :
    /\ admin[a].pc \in {"loaded", "flushed"} =>
         \A k \in admin[a].new : key[k] = "absent"
    /\ \A k \in admin[a].old : key[k] # "absent"
    /\ \A b \in Admins : a # b => admin[a].new \cap admin[b].new = {}

LEMMA BeginKeeps ==
  ASSUME TypeOK, AdminInv, NEW a \in Admins, NEW old \in SUBSET ApiKeys,
         NEW new \in SUBSET ApiKeys, AdminBegin(a, old, new),
         \A k \in old : key[k] # "absent", \A k \in new : Unused(k)
  PROVE  AdminInv' /\ key' = key
<1>1. key' = key
  BY DEF AdminBegin, tables
<1>2. /\ admin'[a].old = old /\ admin'[a].new = new
      /\ \A b \in Admins \ {a} : admin'[b] = admin[b]
  BY DEF AdminBegin, TypeOK
<1> QED BY <1>1, <1>2 DEF AdminInv, Unused

\* A step of an administrator brings no key back.
LEMMA AdminKeeps ==
  ASSUME TypeOK, AdminInv, NEW a \in Admins, AdminStep(a)
  PROVE  AdminInv' /\ \A k \in ApiKeys : key[k] = "revoked" => key'[k] = "revoked"
<1> USE DEF tables, inputs
<1>1. ASSUME NEW n \in ApiKeys, CreateApiKey(a, n) PROVE AdminInv' /\ key' = key
  BY <1>1, BeginKeeps DEF CreateApiKey
<1>2. ASSUME NEW k \in ApiKeys, NEW n \in ApiKeys, NEW expire_old \in BOOLEAN,
             RotateApiKey(a, k, n, expire_old)
      PROVE  AdminInv' /\ key' = key
  BY <1>2, BeginKeeps DEF RotateApiKey
<1>3. ASSUME NEW k \in ApiKeys, RevokeApiKey(a, k) PROVE AdminInv' /\ key' = key
  BY <1>3, BeginKeeps DEF RevokeApiKey
<1>4. CASE AdminFlush(a)
  <2>1. /\ key' = key /\ admin[a].pc = "loaded"
        /\ admin'[a].old = admin[a].old /\ admin'[a].new = admin[a].new
        /\ \A b \in Admins \ {a} : admin'[b] = admin[b]
    BY <1>4 DEF AdminFlush, TypeOK, Admin
  <2> QED BY <2>1 DEF AdminInv
<1>5. CASE AdminFail(a)
  <2>1. /\ key' = key
        /\ admin'[a].old = {} /\ admin'[a].new = {}
        /\ \A b \in Admins \ {a} : admin'[b] = admin[b]
    BY <1>5 DEF AdminFail, TypeOK
  <2> QED BY <2>1 DEF AdminInv
<1>6. CASE AdminCommit(a)
  <2>1. /\ admin[a].pc = "flushed" /\ admin'[a].pc = "done"
        /\ admin'[a].old = admin[a].old /\ admin'[a].new = admin[a].new
        /\ \A b \in Admins \ {a} : admin'[b] = admin[b]
    BY <1>6 DEF AdminCommit, TypeOK, Admin
  <2>2. ASSUME NEW k \in ApiKeys
        PROVE  /\ k \in admin[a].old => key'[k] = "revoked"
               /\ k \notin admin[a].old /\ k \in admin[a].new => key'[k] = "active"
               /\ k \notin admin[a].old /\ k \notin admin[a].new => key'[k] = key[k]
    BY <1>6 DEF AdminCommit
  <2>3. \A k \in admin[a].new : key[k] = "absent"
    BY <2>1 DEF AdminInv
  <2>4. \A k \in ApiKeys : key[k] = "revoked" => key'[k] = "revoked"
    BY <2>2, <2>3
  <2>5. \A k \in ApiKeys : key[k] # "absent" => key'[k] # "absent"
    BY <2>2, <2>3
  <2>6. \A b \in Admins : admin[b].old \subseteq ApiKeys /\ admin[b].new \subseteq ApiKeys
    BY DEF TypeOK, Admin
  <2>7. ASSUME NEW b \in Admins \ {a}, admin[b].pc \in {"loaded", "flushed"},
               NEW k \in admin[b].new
        PROVE  key'[k] = "absent"
    <3>1. key[k] = "absent" /\ k \notin admin[a].new
      BY <2>7 DEF AdminInv
    <3>2. k \notin admin[a].old
      BY <3>1 DEF AdminInv
    <3> QED BY <2>2, <2>6, <2>7, <3>1, <3>2
  <2> QED BY <2>1, <2>4, <2>5, <2>6, <2>7 DEF AdminInv
<1> QED BY <1>1, <1>2, <1>3, <1>4, <1>5, <1>6 DEF AdminStep

LEMMA KeysKeep ==
  ASSUME TypeOK, AdminInv, [Next]_vars
  PROVE  AdminInv' /\ \A k \in ApiKeys : key[k] = "revoked" => key'[k] = "revoked"
<1> USE DEF tables, inputs, Advance
<1>1. ASSUME NEW r \in Requests, RequestStep(r) PROVE UNCHANGED <<key, admin>>
  BY <1>1 DEF RequestStep, Check, Admit, Lookup, Create, Store, Commit, KeysUpdated,
              Respond, Fail
<1>2. CASE UNCHANGED <<key, admin>>
  BY <1>2 DEF AdminInv
<1> QED BY <1>1, <1>2, AdminKeeps, NextSteps DEF vars

\* A revoked key stays revoked, whatever requests had read it as active.
THEOREM RevocationFinal == Spec => RevokedForGood
<1>1. Init => AdminInv
  BY DEF Init, AdminInv
<1>2. TypeOK /\ AdminInv /\ [Next]_vars => AdminInv'
  BY KeysKeep
<1>3. TypeOK /\ AdminInv /\ [Next]_vars =>
        [\A k \in ApiKeys : key[k] = "revoked" => key'[k] = "revoked"]_vars
  BY KeysKeep
<1> QED BY <1>1, <1>2, <1>3, TypeCorrect, PTL DEF Spec, RevokedForGood

-----------------------------------------------------------------------------
(* RateLimit.                                                              *)

\* The calls that have been counted, and those that began a window.
Counted == {c \in Calls : call[c] # Rate!Idle}

Openers == {c \in Counted : call[c].current = 1}

\* A window began between two calls, the second one included.
Apart(c, d) ==
  \E f \in Openers : call[c].at < call[f].at /\ call[f].at <= call[d].at

\* A window is at least as long as it should; in one, no two calls got the same
\* number, and what is yet to be counted gets another one; calls before the
\* expiry belong to the window that ends with it.
RateInv ==
  /\ \A c \in Counted : call[c].current >= 1 /\ call[c].at <= now
  /\ counter = 0 => Counted = {}
  /\ expires # Rate!Never =>
       /\ \A c \in Counted : call[c].at < expires
       /\ \A f \in Openers : call[f].at + Window <= expires
  /\ \A f, g \in Openers : f # g =>
       call[f].at + Window <= call[g].at \/ call[g].at + Window <= call[f].at
  /\ \A c, d \in Counted : c # d /\ call[c].current = call[d].current =>
       Apart(c, d) \/ Apart(d, c)
  /\ \A c \in Counted : call[c].current > counter =>
       \E f \in Openers : call[c].at < call[f].at

LEMMA MarkForm ==
  ASSUME Rate!TypeOK, NEW c \in Counted, NEW mark \in {"dated", "admitted", "refused", "dead"},
         call' = [call EXCEPT ![c].pc = mark]
  PROVE  /\ call' \in [Calls -> {Rate!Idle} \cup Rate!CallState]
         /\ Counted' = Counted
         /\ call'[c].pc = mark
         /\ \A d \in Counted : /\ call[d] \in Rate!CallState /\ call'[d] \in Rate!CallState
                               /\ call'[d].current = call[d].current
                               /\ call'[d].at = call[d].at
         /\ \A d \in Calls : d # c => call'[d] = call[d]
<1>1. call[c] \in Rate!CallState
  BY DEF Rate!TypeOK, Counted
<1>2. PICK x : x = [call[c] EXCEPT !.pc = mark]
  OBVIOUS
<1>3. x \in Rate!CallState /\ x.current = call[c].current /\ x.at = call[c].at /\ x.pc = mark
  BY <1>1, <1>2 DEF Rate!CallState
<1>4. x # Rate!Idle
  BY <1>3 DEF Rate!CallState, Rate!Idle
<1>5. call' = [call EXCEPT ![c] = x]
  BY <1>2
<1> HIDE DEF Rate!CallState, Rate!Idle
<1>6. \A d \in Calls : call'[d] = IF d = c THEN x ELSE call[d]
  BY <1>5 DEF Rate!TypeOK, Counted
<1>7. call' \in [Calls -> {Rate!Idle} \cup Rate!CallState]
  BY <1>5, <1>3 DEF Rate!TypeOK
<1>8. Counted' = Counted
  BY <1>4, <1>6 DEF Counted
<1>9. \A d \in Counted : call[d] \in Rate!CallState
  BY DEF Counted, Rate!TypeOK
<1> QED BY <1>1, <1>3, <1>6, <1>7, <1>8, <1>9 DEF Counted

LEMMA CountForm ==
  ASSUME Rate!TypeOK, NEW c \in Calls, Rate!Incr(c)
  PROVE  /\ Rate!Live \in Nat /\ counter' = Rate!Live + 1 /\ now' = now
         /\ expires' = IF Rate!Live = 0 THEN Rate!Never ELSE expires
         /\ call' \in [Calls -> {Rate!Idle} \cup Rate!CallState]
         /\ c \notin Counted /\ Counted' = Counted \cup {c}
         /\ call'[c] = [pc |-> "counted", current |-> Rate!Live + 1, at |-> now]
         /\ call'[c].pc = "counted" /\ call'[c].current = Rate!Live + 1 /\ call'[c].at = now
         /\ \A d \in Counted : call[d] \in Rate!CallState /\ call'[d] = call[d]
         /\ \A d \in Calls : d # c => call'[d] = call[d]
<1>1. Rate!Live \in Nat /\ now \in Nat
  BY DEF Rate!TypeOK, Rate!Live
<1>2. PICK x : x = [pc |-> "counted", current |-> Rate!Live + 1, at |-> now]
  OBVIOUS
<1>3. x \in Rate!CallState /\ x.current = Rate!Live + 1 /\ x.at = now /\ x.pc = "counted"
  BY <1>1, <1>2 DEF Rate!CallState
<1>4. x # Rate!Idle
  BY <1>3 DEF Rate!CallState, Rate!Idle
<1>5. call' = [call EXCEPT ![c] = x] /\ call[c] = Rate!Idle
  BY <1>2 DEF Rate!Incr
<1> HIDE DEF Rate!CallState, Rate!Idle
<1>6. \A d \in Calls : call'[d] = IF d = c THEN x ELSE call[d]
  BY <1>5 DEF Rate!TypeOK
<1>7. call' \in [Calls -> {Rate!Idle} \cup Rate!CallState]
  BY <1>5, <1>3 DEF Rate!TypeOK
<1>8. c \notin Counted /\ Counted' = Counted \cup {c}
  BY <1>4, <1>5, <1>6 DEF Counted
<1>9. \A d \in Counted : call[d] \in Rate!CallState
  BY DEF Counted, Rate!TypeOK
<1>10. /\ counter' = Rate!Live + 1 /\ now' = now
       /\ expires' = IF Rate!Live = 0 THEN Rate!Never ELSE expires
  BY DEF Rate!Incr
<1> QED BY <1>1, <1>2, <1>3, <1>6, <1>7, <1>8, <1>9, <1>10 DEF Counted

\* Every step counts a call, marks one that was counted, or lets time pass.
LEMMA RateSteps ==
  ASSUME Rate!BoundsAssumption, Rate!TypeOK, [Rate!Next]_(Rate!vars)
  PROVE  \/ \E c \in Calls : Rate!Incr(c)
         \/ \E c \in Counted, mark \in {"dated", "admitted", "refused", "dead"} :
              /\ call' = [call EXCEPT ![c].pc = mark]
              /\ UNCHANGED <<now, counter>>
              /\ call[c].pc \in {"counted", "dated"}
              /\ \/ UNCHANGED expires /\ (mark = "dead" \/ call[c].pc = "dated" \/ call[c].current # 1)
                 \/ expires' = now + Window
         \/ /\ now' \in Nat /\ now <= now'
            /\ UNCHANGED <<counter, expires, call>>
<1>1. \A c \in Calls : call[c].pc \in {"counted", "dated"} => c \in Counted
  BY DEF Counted, Rate!Idle
<1>2. ASSUME NEW c \in Calls, Rate!Expire(c) \/ Rate!Decide(c) \/ Rate!Die(c)
      PROVE  \E d \in Counted, mark \in {"dated", "admitted", "refused", "dead"} :
              /\ call' = [call EXCEPT ![d].pc = mark]
              /\ UNCHANGED <<now, counter>>
              /\ call[d].pc \in {"counted", "dated"}
              /\ \/ UNCHANGED expires /\ (mark = "dead" \/ call[d].pc = "dated" \/ call[d].current # 1)
                 \/ expires' = now + Window
  <2>0. c \in Counted
    BY <1>1, <1>2 DEF Rate!Expire, Rate!Decide, Rate!Die
  <2>1. CASE Rate!Expire(c)
    BY <2>0, <2>1 DEF Rate!Expire
  <2>2. CASE Rate!Decide(c)
    BY <2>0, <2>2 DEF Rate!Decide
  <2>3. CASE Rate!Die(c)
    BY <2>0, <2>3 DEF Rate!Die
  <2> QED BY <1>2, <2>1, <2>2, <2>3
<1>3. ASSUME Rate!Tick \/ UNCHANGED Rate!vars
      PROVE  now' \in Nat /\ now <= now' /\ UNCHANGED <<counter, expires, call>>
  BY <1>3 DEF Rate!Tick, Rate!vars, Rate!TypeOK
<1> QED BY <1>2, <1>3 DEF Rate!Next

LEMMA RateTypeStep ==
  ASSUME Rate!BoundsAssumption, Rate!TypeOK, [Rate!Next]_(Rate!vars)
  PROVE  Rate!TypeOK'
<1>1. ASSUME NEW c \in Calls, Rate!Incr(c) PROVE Rate!TypeOK'
  <2>1. /\ Rate!Live \in Nat /\ counter' = Rate!Live + 1 /\ now' = now
        /\ expires' = IF Rate!Live = 0 THEN Rate!Never ELSE expires
        /\ call' \in [Calls -> {Rate!Idle} \cup Rate!CallState]
    BY <1>1, CountForm
  <2> QED BY <2>1 DEF Rate!TypeOK, Rate!Never
<1>2. ASSUME NEW c \in Counted, NEW mark \in {"dated", "admitted", "refused", "dead"},
             call' = [call EXCEPT ![c].pc = mark], UNCHANGED <<now, counter>>,
             expires' = expires \/ expires' = now + Window
      PROVE  Rate!TypeOK'
  <2>1. call' \in [Calls -> {Rate!Idle} \cup Rate!CallState]
    BY <1>2, MarkForm
  <2> QED BY <1>2, <2>1 DEF Rate!TypeOK, Rate!BoundsAssumption
<1>3. ASSUME now' \in Nat, UNCHANGED <<counter, expires, call>> PROVE Rate!TypeOK'
  BY <1>3 DEF Rate!TypeOK
<1> QED BY <1>1, <1>2, <1>3, RateSteps

LEMMA RateInvStep ==
  ASSUME Rate!BoundsAssumption, Rate!TypeOK, RateInv, [Rate!Next]_(Rate!vars)
  PROVE  RateInv'
<1>a. now \in Nat /\ counter \in Nat /\ expires \in Nat /\ Window \in Nat /\ Window > 0
  BY DEF Rate!TypeOK, Rate!BoundsAssumption
<1>b. \A c \in Counted : call[c].current \in Nat /\ call[c].at \in Nat
  BY DEF Rate!TypeOK, Counted, Rate!CallState
<1>1. ASSUME NEW c \in Calls, Rate!Incr(c), Rate!Live = 0 PROVE RateInv'
  <2>1. /\ Counted' = Counted \cup {c} /\ c \notin Counted
        /\ call'[c].current = 1 /\ call'[c].at = now
        /\ \A d \in Counted : call'[d] = call[d]
        /\ counter' = 1 /\ expires' = Rate!Never /\ now' = now
    BY <1>1, CountForm
  <2>2. Openers' = Openers \cup {c}
    BY <2>1 DEF Openers
  <2>3. \A d \in Counted : call[d].at < now
    BY <1>1, <1>a, <1>b DEF Rate!Live, RateInv
  <2>4. \A f \in Openers : call[f].at + Window <= now
    BY <1>1, <1>a, <1>b DEF Rate!Live, RateInv, Openers
  <2>5. \A d, e \in Counted : Apart(d, e) => Apart(d, e)'
    BY <2>1, <2>2 DEF Apart, Openers
  <2>6. \A d \in Counted : Apart(d, c)'
    BY <2>1, <2>2, <2>3, <1>a DEF Apart
  <2>7. \A d \in Counted' : call'[d].current >= 1 /\ call'[d].at <= now'
    BY <2>1, <1>a DEF RateInv
  <2>8. \A f, g \in Openers' : f # g =>
          call'[f].at + Window <= call'[g].at \/ call'[g].at + Window <= call'[f].at
    BY <2>1, <2>2, <2>4, <1>a DEF RateInv, Openers
  <2>9. \A d, e \in Counted' : d # e /\ call'[d].current = call'[e].current =>
          Apart(d, e)' \/ Apart(e, d)'
    BY <2>1, <2>5, <2>6 DEF RateInv
  <2>10. \A d \in Counted' : call'[d].current > counter' =>
          \E f \in Openers' : call'[d].at < call'[f].at
    BY <2>1, <2>2, <2>3, <1>a
  <2> QED BY <2>1, <2>7, <2>8, <2>9, <2>10 DEF RateInv
<1>2. ASSUME NEW c \in Calls, Rate!Incr(c), Rate!Live # 0 PROVE RateInv'
  <2>1. /\ Counted' = Counted \cup {c} /\ c \notin Counted
        /\ call'[c].current = counter + 1 /\ call'[c].at = now
        /\ \A d \in Counted : call'[d] = call[d]
        /\ counter' = counter + 1 /\ expires' = expires /\ now' = now
        /\ counter > 0
    <3>1. Rate!Live = counter /\ counter > 0
      BY <1>2, <1>a DEF Rate!Live
    <3> QED BY <1>2, <3>1, CountForm
  <2>2. Openers' = Openers
    BY <2>1, <1>a DEF Openers
  <2>3. expires # Rate!Never => now < expires
    BY <1>2, <1>a DEF Rate!Live
  <2>5. \A d, e \in Counted : Apart(d, e) => Apart(d, e)'
    BY <2>1, <2>2 DEF Apart, Openers
  <2>6. ASSUME NEW d \in Counted, call[d].current = counter + 1 PROVE Apart(d, c)'
    <3>1. PICK f \in Openers : call[d].at < call[f].at
      BY <2>6, <1>a DEF RateInv
    <3>2. call[f].at <= now /\ f \in Counted
      BY DEF RateInv, Openers
    <3> QED BY <2>1, <2>2, <3>1, <3>2 DEF Apart
  <2>7. \A d \in Counted' : call'[d].current >= 1 /\ call'[d].at <= now'
    BY <2>1, <1>a DEF RateInv
  <2>8. expires' # Rate!Never =>
       /\ \A d \in Counted' : call'[d].at < expires'
       /\ \A f \in Openers' : call'[f].at + Window <= expires'
    BY <2>1, <2>2, <2>3 DEF RateInv, Openers
  <2>9. \A d, e \in Counted' : d # e /\ call'[d].current = call'[e].current =>
          Apart(d, e)' \/ Apart(e, d)'
    BY <2>1, <2>5, <2>6 DEF RateInv
  <2>10. \A d \in Counted' : call'[d].current > counter' =>
          \E f \in Openers' : call'[d].at < call'[f].at
    <3> SUFFICES ASSUME NEW d \in Counted', call'[d].current > counter'
                 PROVE  \E f \in Openers' : call'[d].at < call'[f].at
      OBVIOUS
    <3>1. d \in Counted /\ call[d].current > counter
      BY <2>1, <1>a, <1>b
    <3>2. PICK f \in Openers : call[d].at < call[f].at
      BY <3>1 DEF RateInv
    <3> QED BY <3>1, <3>2, <2>1, <2>2 DEF Openers
  <2>11. \A f, g \in Openers' : f # g =>
          call'[f].at + Window <= call'[g].at \/ call'[g].at + Window <= call'[f].at
    BY <2>1, <2>2 DEF RateInv, Openers
  <2> QED BY <2>1, <1>a, <2>7, <2>8, <2>9, <2>10, <2>11 DEF RateInv
<1>3. ASSUME NEW c \in Counted, NEW mark \in {"dated", "admitted", "refused", "dead"},
             call' = [call EXCEPT ![c].pc = mark], UNCHANGED <<now, counter>>,
             expires' = expires \/ expires' = now + Window
      PROVE  RateInv'
  <2>1. /\ Counted' = Counted
        /\ \A d \in Counted : /\ call'[d].current = call[d].current
                              /\ call'[d].at = call[d].at
    BY <1>3, MarkForm
  <2>2. Openers' = Openers
    BY <2>1 DEF Openers
  <2>3. \A d, e \in Counted : Apart(d, e)' <=> Apart(d, e)
    BY <2>1, <2>2 DEF Apart, Openers
  <2>4. expires' # Rate!Never =>
       /\ \A d \in Counted : call[d].at < expires'
       /\ \A f \in Openers : call[f].at + Window <= expires'
    BY <1>3, <1>a, <1>b DEF RateInv, Openers
  <2> QED BY <1>3, <2>1, <2>2, <2>3, <2>4 DEF RateInv, Openers
<1>4. ASSUME now' \in Nat, now <= now', UNCHANGED <<counter, expires, call>>
      PROVE  RateInv'
  BY <1>4, <1>a, <1>b DEF RateInv, Counted, Openers, Apart
<1> QED BY <1>1, <1>2, <1>3, <1>4, RateSteps

LEMMA WindowStep ==
  ASSUME Rate!BoundsAssumption, Rate!TypeOK, Rate!WindowEnds, [Rate!Next]_(Rate!vars)
  PROVE  Rate!WindowEnds'
<1> DEFINE Creator(c) == call[c].pc \in {"counted", "dead"} /\ call[c].current = 1
<1>1. ASSUME NEW c \in Calls, Rate!Incr(c) PROVE Rate!WindowEnds'
  <2>1. CASE Rate!Live = 0
    BY <1>1, <2>1, CountForm DEF Rate!WindowEnds
  <2>2. CASE Rate!Live # 0
    <3>1. counter > 0 /\ expires' = expires
      BY <1>1, <2>2 DEF Rate!Incr, Rate!Live, Rate!TypeOK
    <3>2. \A d \in Calls : Creator(d) => d # c /\ call'[d] = call[d]
      BY <1>1, CountForm DEF Rate!Incr, Rate!Idle
    <3> QED BY <3>1, <3>2 DEF Rate!WindowEnds
  <2> QED BY <2>1, <2>2
<1>2. ASSUME NEW c \in Counted, NEW mark \in {"dated", "admitted", "refused", "dead"},
             call' = [call EXCEPT ![c].pc = mark], UNCHANGED <<now, counter>>,
             call[c].pc \in {"counted", "dated"},
             \/ UNCHANGED expires /\ (mark = "dead" \/ call[c].pc = "dated" \/ call[c].current # 1)
             \/ expires' = now + Window
      PROVE  Rate!WindowEnds'
  <2>1. CASE expires' = now + Window
    BY <2>1 DEF Rate!WindowEnds, Rate!TypeOK, Rate!BoundsAssumption, Rate!Never
  <2>2. CASE UNCHANGED expires /\ (mark = "dead" \/ call[c].pc = "dated" \/ call[c].current # 1)
    <3>1. \A d \in Calls : Creator(d) => Creator(d)'
      BY <1>2, <2>2, MarkForm DEF Counted
    <3> QED BY <1>2, <2>2, <3>1 DEF Rate!WindowEnds
  <2> QED BY <1>2, <2>1, <2>2
<1>3. ASSUME now' \in Nat, UNCHANGED <<counter, expires, call>> PROVE Rate!WindowEnds'
  BY <1>3 DEF Rate!WindowEnds
<1> QED BY <1>1, <1>2, <1>3, RateSteps

LEMMA RateWindowsEnd ==
  ASSUME Rate!BoundsAssumption
  PROVE  Rate!Spec => []Rate!WindowEnds
<1>1. Rate!Init => Rate!TypeOK /\ Rate!WindowEnds
  BY DEF Rate!Init, Rate!TypeOK, Rate!WindowEnds, Rate!Never
<1>2. Rate!TypeOK /\ Rate!WindowEnds /\ [Rate!Next]_(Rate!vars) => Rate!TypeOK' /\ Rate!WindowEnds'
  BY RateTypeStep, WindowStep
<1> QED BY <1>1, <1>2, PTL DEF Rate!Spec

\* Calls of one window, by their numbers.
LEMMA OneWindow ==
  ASSUME Rate!TypeOK, RateInv, NEW S \in SUBSET Counted, NEW m \in Nat, NEW n \in Nat,
         m <= n + 1,
         \A c \in S : call[c].current \in m .. n,
         \A c, d \in S : ~Apart(c, d)
  PROVE  IsFiniteSet(S) /\ Cardinality(S) <= n - m + 1
<1> DEFINE f == [c \in S |-> call[c].current]
<1>1. f \in Injection(S, m .. n)
  BY DEF RateInv, Injection, IsInjective
<1>2. IsFiniteSet(m .. n) /\ Cardinality(m .. n) = n - m + 1
  BY FS_Interval, m <= n + 1
<1> HIDE DEF f
<1> QED BY <1>1, <1>2, FS_Injection

LEMMA BurstBounded ==
  ASSUME Rate!BoundsAssumption, Rate!TypeOK, RateInv, NEW t \in Nat,
         \A c \in Calls : call[c].pc = "admitted" => call[c].current <= Limit
  PROVE  Cardinality({c \in Calls : /\ call[c].pc = "admitted"
                                    /\ call[c].at \in t .. t + Window - 1}) <= 2 * Limit - 1
<1> DEFINE S == {c \in Calls : /\ call[c].pc = "admitted"
                               /\ call[c].at \in t .. t + Window - 1}
<1>a. Limit \in Nat /\ Limit > 0 /\ Window \in Nat /\ Window > 0
  BY DEF Rate!BoundsAssumption
<1>b. \A c \in Counted : call[c].current \in Nat /\ call[c].at \in Nat /\ call[c].current >= 1
  BY DEF Rate!TypeOK, Counted, Rate!CallState, RateInv
<1>c. S \subseteq Counted /\ \A c \in S : call[c].current \in 1 .. Limit
  <2>1. S \subseteq Counted
    BY DEF Counted, Rate!Idle
  <2> QED BY <2>1, <1>a, <1>b
<1>d. \A c \in S : t <= call[c].at /\ call[c].at < t + Window
  BY <1>a, <1>b, <1>c
<1>1. CASE \A c, d \in S : ~Apart(c, d)
  <2>1. Cardinality(S) <= Limit - 1 + 1 /\ IsFiniteSet(S)
    BY <1>1, <1>a, <1>c, OneWindow
  <2>2. Cardinality(S) \in Nat
    BY <2>1, FS_CardinalityType
  <2> QED BY <2>1, <2>2, <1>a
<1>2. CASE \E c, d \in S : Apart(c, d)
  <2>1. PICK f \in Openers : t < call[f].at /\ call[f].at < t + Window
    BY <1>2, <1>b, <1>c, <1>d, <1>a DEF Apart, Openers
  <2>2. \A g \in Openers : g # f => ~(t <= call[g].at /\ call[g].at < t + Window)
    BY <2>1, <1>a, <1>b DEF RateInv, Openers
  <2> DEFINE A == {c \in S : call[c].at < call[f].at}
             B == {c \in S : call[f].at <= call[c].at}
  <2>3. \A c, d \in A : ~Apart(c, d)
    BY <2>1, <2>2, <1>a, <1>b, <1>c, <1>d DEF Apart, Openers
  <2>4. \A c, d \in B : ~Apart(c, d)
    BY <2>1, <2>2, <1>a, <1>b, <1>c, <1>d DEF Apart, Openers
  <2>5. \A c \in A : call[c].current \in 2 .. Limit
    <3>1. \A c \in A : call[c].current # 1
      BY <2>1, <2>2, <1>b, <1>c, <1>d DEF Openers
    <3> QED BY <3>1, <1>c, <1>a, <1>b
  <2>6. IsFiniteSet(A) /\ Cardinality(A) <= Limit - 2 + 1
    BY <2>3, <2>5, <1>a, <1>c, OneWindow
  <2>7. IsFiniteSet(B) /\ Cardinality(B) <= Limit - 1 + 1
    BY <2>4, <1>a, <1>c, OneWindow
  <2>8. A \cap B = {} /\ S = A \cup B
    BY <1>b, <1>c DEF Openers
  <2>9. Cardinality(S) = Cardinality(A) + Cardinality(B) - 0
    <3> HIDE DEF A, B, S
    <3>1. Cardinality(A \cup B) = Cardinality(A) + Cardinality(B) - Cardinality(A \cap B)
      BY <2>6, <2>7, FS_Union
    <3> QED BY <3>1, <2>8, FS_EmptySet
  <2>10. Cardinality(A) \in Nat /\ Cardinality(B) \in Nat
    BY <2>6, <2>7, FS_CardinalityType
  <2> QED BY <2>6, <2>7, <2>9, <2>10, <1>a
<1> QED BY <1>1, <1>2

AdmittedWithin == \A c \in Calls : call[c].pc = "admitted" => call[c].current <= Limit

LEMMA AdmittedStep ==
  ASSUME Rate!BoundsAssumption, Rate!TypeOK, AdmittedWithin, [Rate!Next]_(Rate!vars)
  PROVE  AdmittedWithin'
<1>0. Limit \in Nat /\ \A d \in Counted : call[d].current \in Nat
  BY DEF Rate!BoundsAssumption, Rate!TypeOK, Counted, Rate!CallState
<1>1. \A d \in Calls : call[d].pc \in {"counted", "dated"} => d \in Counted
  BY DEF Counted, Rate!Idle
<1>2. ASSUME NEW c \in Calls, Rate!Incr(c) PROVE AdmittedWithin'
  BY <1>2, CountForm DEF AdmittedWithin
<1>3. ASSUME NEW c \in Calls, Rate!Expire(c) \/ Rate!Die(c) PROVE AdmittedWithin'
  <2>1. PICK mark \in {"dated", "dead"} : c \in Counted /\ call' = [call EXCEPT ![c].pc = mark]
    BY <1>1, <1>3 DEF Rate!Expire, Rate!Die
  <2> QED BY <2>1, MarkForm DEF AdmittedWithin
<1>4. ASSUME NEW c \in Calls, Rate!Decide(c) PROVE AdmittedWithin'
  <2>1. PICK mark \in {"refused", "admitted"} :
          /\ c \in Counted /\ call' = [call EXCEPT ![c].pc = mark]
          /\ mark = "admitted" => call[c].current <= Limit
    <3>1. c \in Counted
      BY <1>1, <1>4 DEF Rate!Decide
    <3>2. CASE call[c].current > Limit
      BY <1>4, <3>1, <3>2 DEF Rate!Decide
    <3>3. CASE ~(call[c].current > Limit)
      <4>1. call[c].current <= Limit
        BY <1>0, <3>1, <3>3
      <4> QED BY <1>4, <3>1, <3>3, <4>1 DEF Rate!Decide
    <3> QED BY <3>2, <3>3
  <2> QED BY <2>1, MarkForm DEF AdmittedWithin
<1>5. ASSUME UNCHANGED call PROVE AdmittedWithin'
  BY <1>5 DEF AdmittedWithin
<1> QED BY <1>2, <1>3, <1>4, <1>5 DEF Rate!Next, Rate!Tick, Rate!vars

LEMMA SameCardinality == \A S : Rate!Cardinality(S) = Cardinality(S)
BY DEF Rate!Cardinality, Cardinality

LEMMA RateBurstsBounded ==
  ASSUME Rate!BoundsAssumption
  PROVE  Rate!Spec => []Rate!BurstBound
<1> DEFINE IInv == Rate!TypeOK /\ RateInv /\ AdmittedWithin
<1>1. Rate!Init => IInv
  BY DEF Rate!Init, Rate!TypeOK, RateInv, AdmittedWithin, Counted, Openers, Rate!Never,
     Rate!Idle
<1>2. IInv /\ [Rate!Next]_(Rate!vars) => IInv'
  BY RateTypeStep, RateInvStep, AdmittedStep
<1>3. IInv => Rate!BurstBound
  <2> SUFFICES ASSUME IInv, NEW t \in 0 .. now
               PROVE  Cardinality({c \in Calls : /\ call[c].pc = "admitted"
                        /\ call[c].at \in t .. t + Window - 1}) <= 2 * Limit - 1
    BY SameCardinality DEF Rate!BurstBound
  <2>1. t \in Nat
    BY DEF Rate!TypeOK
  <2> QED BY <2>1, BurstBounded DEF AdmittedWithin
<1> QED BY <1>1, <1>2, <1>3, PTL DEF Rate!Spec

-----------------------------------------------------------------------------
(* RetentionRequests, for any number of administrators at work on a request. *)

\* The transition table, state by state.
LEMMA TransitionTable ==
  /\ Retention!Transitions("absent") = {} /\ Retention!Transitions("rejected") = {}
  /\ Retention!Transitions("completed") = {}
  /\ Retention!Transitions("requested") = {"approved", "rejected"}
  /\ Retention!Transitions("approved") = {"completed"}
  BY DEF Retention!Transitions

\* A flush moves the pc of one update and nothing else.
LEMMA FlushForm ==
  ASSUME Retention!TypeOK, NEW u \in Updaters, Retention!Flush(u)
  PROVE  /\ update[u] \in Retention!Update
         /\ update'[u] \in Retention!Update /\ update'[u].new = update[u].new
         /\ update' \in [Updaters -> {Retention!Idle} \cup Retention!Update]
         /\ \A v \in Updaters \ {u} : update'[v] = update[v]
         /\ UNCHANGED <<row, trail>>
<1>1. update[u] \in Retention!Update
  BY DEF Retention!Flush, Retention!TypeOK, Retention!Idle
<1>2. PICK y : y = [update[u] EXCEPT !.pc = "flushed"]
  OBVIOUS
<1>3. y \in Retention!Update /\ y.new = update[u].new
  BY <1>1, <1>2 DEF Retention!Update
<1>4. update' = [update EXCEPT ![u] = y]
  BY <1>2 DEF Retention!Flush, Retention!TypeOK
<1> QED BY <1>1, <1>3, <1>4 DEF Retention!Flush, Retention!TypeOK

\* What a commit leaves in the row and on the trail.
LEMMA CommitForm ==
  ASSUME Retention!TypeOK, NEW u \in Updaters, Retention!Commit(u)
  PROVE  /\ update[u] \in Retention!Update
         /\ row' \in Retention!Row
         /\ row'.state = update[u].new
         /\ row'.approved_by = IF update[u].new = "approved" THEN u ELSE row.approved_by
         /\ row'.completed = (row.completed \/ update[u].new = "completed")
         /\ update' = [update EXCEPT ![u] = Retention!Idle]
         /\ trail' \in Seq(Retention!Event)
<1>1. update[u] \in Retention!Update
  BY DEF Retention!Commit, Retention!TypeOK, Retention!Idle
<1>2. PICK e : e = [state |-> update[u].new, by |-> u]
  OBVIOUS
<1>3. e \in Retention!Event
  BY <1>1, <1>2 DEF Retention!Event, Retention!Update
<1>4. trail' = Append(trail, e)
  BY <1>2 DEF Retention!Commit
<1>5. /\ row'.state = update[u].new
      /\ row'.approved_by = IF update[u].new = "approved" THEN u ELSE row.approved_by
      /\ row'.completed = (row.completed \/ update[u].new = "completed")
      /\ row' \in Retention!Row
  BY <1>1
  DEF Retention!Commit, Retention!Written, Retention!TypeOK, Retention!Row,
      Retention!Update
<1> QED BY <1>1, <1>2, <1>3, <1>4, <1>5, AppendProperties
        DEF Retention!Commit, Retention!TypeOK

\* A commit adds one event at the end of the trail.
LEMMA TrailGrows ==
  ASSUME Retention!TypeOK, NEW u \in Updaters, Retention!Commit(u)
  PROVE  /\ DOMAIN trail = 1 .. Len(trail) /\ DOMAIN trail' = 1 .. Len(trail')
         /\ Len(trail) \in Nat /\ Len(trail') = Len(trail) + 1
         /\ \A i \in DOMAIN trail : trail'[i] = trail[i]
         /\ trail'[Len(trail')] = [state |-> update[u].new, by |-> u]
         /\ trail'[Len(trail')].state = update[u].new
<1>1. PICK e : e = [state |-> update[u].new, by |-> u]
  OBVIOUS
<1>2. e \in Retention!Event
  BY <1>1, CommitForm DEF Retention!Event, Retention!Update
<1>3. trail' = Append(trail, e) /\ trail \in Seq(Retention!Event)
  BY <1>1 DEF Retention!Commit, Retention!TypeOK
<1> QED BY <1>1, <1>2, <1>3, AppendProperties

LEMMA RetentionTypeStep ==
  ASSUME Retention!TypeOK, [Retention!Next]_(Retention!vars)
  PROVE  Retention!TypeOK'
<1>1. CASE Retention!Create
  BY <1>1 DEF Retention!Create, Retention!TypeOK, Retention!Row, Retention!State
<1>2. ASSUME NEW u \in Updaters, NEW new \in Retention!State, Retention!Load(u, new)
      PROVE  Retention!TypeOK'
  <2>1. [pc |-> "loaded", new |-> new] \in Retention!Update
    BY DEF Retention!Update
  <2> QED BY <1>2, <2>1 DEF Retention!Load, Retention!TypeOK
<1>3. ASSUME NEW u \in Updaters, Retention!Flush(u) PROVE Retention!TypeOK'
  BY <1>3, FlushForm DEF Retention!TypeOK
<1>4. ASSUME NEW u \in Updaters, Retention!Commit(u) PROVE Retention!TypeOK'
  BY <1>4, CommitForm DEF Retention!TypeOK
<1>5. ASSUME NEW u \in Updaters, Retention!Rollback(u) PROVE Retention!TypeOK'
  BY <1>5 DEF Retention!Rollback, Retention!TypeOK
<1>6. CASE UNCHANGED Retention!vars
  BY <1>6 DEF Retention!vars, Retention!TypeOK
<1> QED BY <1>1, <1>2, <1>3, <1>4, <1>5, <1>6 DEF Retention!Next

\* The type invariant, for any number of administrators.
LEMMA RetentionTypes == Retention!Spec => []Retention!TypeOK
<1>1. Retention!Init => Retention!TypeOK
  BY DEF Retention!Init, Retention!TypeOK, Retention!Row
<1>2. Retention!TypeOK /\ [Retention!Next]_(Retention!vars) => Retention!TypeOK'
  BY RetentionTypeStep
<1> QED BY <1>1, <1>2, PTL DEF Retention!Spec

\* A request is approved by somebody before it is completed, as is one whose
\* completion is under way: approved_by is never set back.
ApprovalInv ==
  /\ row.state \in {"approved", "completed"} \/ row.completed => row.approved_by # NoUser
  /\ \A u \in Updaters :
       update[u] # Retention!Idle /\ update[u].new = "completed" => row.approved_by # NoUser
  /\ row.approved_by # NoUser =>
       \E i \in DOMAIN trail : trail[i] = [state |-> "approved", by |-> row.approved_by]

LEMMA ApprovalStep ==
  ASSUME Retention!BoundsAssumption, Retention!TypeOK, ApprovalInv, [Retention!Next]_(Retention!vars)
  PROVE  ApprovalInv'
<1>1. CASE Retention!Create
  BY <1>1 DEF Retention!Create, ApprovalInv, Retention!TypeOK, Retention!Row
<1>2. ASSUME NEW u \in Updaters, NEW new \in Retention!State, Retention!Load(u, new)
      PROVE  ApprovalInv'
  <2>1. new = "completed" => row.approved_by # NoUser
    BY <1>2, TransitionTable
    DEF Retention!Load, ApprovalInv, Retention!TypeOK, Retention!Row, Retention!State
  <2>2. /\ update'[u].new = new
        /\ \A v \in Updaters \ {u} : update'[v] = update[v]
        /\ UNCHANGED <<row, trail>>
    BY <1>2 DEF Retention!Load, Retention!TypeOK
  <2> QED BY <2>1, <2>2 DEF ApprovalInv
<1>3. ASSUME NEW u \in Updaters, Retention!Flush(u) PROVE ApprovalInv'
  <2>1. update[u] # Retention!Idle
    BY <1>3 DEF Retention!Flush, Retention!Idle
  <2> QED BY <1>3, <2>1, FlushForm DEF ApprovalInv
<1>4. ASSUME NEW u \in Updaters, Retention!Commit(u) PROVE ApprovalInv'
  <2>1. update[u] # Retention!Idle /\ u # NoUser
    BY <1>4 DEF Retention!Commit, Retention!Idle, Retention!BoundsAssumption
  <2>2. row.approved_by # NoUser => row'.approved_by # NoUser
    BY <1>4, <2>1, CommitForm
  <2>3. row'.state \in {"approved", "completed"} \/ row'.completed
          => row'.approved_by # NoUser
    BY <1>4, <2>1, <2>2, CommitForm DEF ApprovalInv
  <2>4. \A v \in Updaters :
          update'[v] # Retention!Idle /\ update'[v].new = "completed" => row'.approved_by # NoUser
    BY <1>4, <2>2, CommitForm DEF ApprovalInv, Retention!TypeOK
  <2>5. row'.approved_by # NoUser =>
          \E i \in DOMAIN trail' :
            trail'[i] = [state |-> "approved", by |-> row'.approved_by]
    <3>1. DOMAIN trail = 1 .. Len(trail) /\ DOMAIN trail' = 1 .. Len(trail')
          /\ Len(trail) \in Nat /\ Len(trail') = Len(trail) + 1
      BY <1>4, TrailGrows
    <3>2. CASE update[u].new = "approved"
      <4>1. trail'[Len(trail')] = [state |-> "approved", by |-> row'.approved_by]
        BY <1>4, <3>2, CommitForm, TrailGrows
      <4> QED BY <3>1, <4>1
    <3>3. CASE update[u].new # "approved"
      <4>1. row'.approved_by = row.approved_by
        BY <1>4, <3>3, CommitForm
      <4>2. \A i \in DOMAIN trail : trail'[i] = trail[i]
        BY <1>4, TrailGrows, Zenon
      <4>3. \A i \in DOMAIN trail : i \in DOMAIN trail'
        BY <3>1
      <4> QED BY <4>1, <4>2, <4>3 DEF ApprovalInv
    <3> QED BY <3>2, <3>3
  <2> QED BY <2>3, <2>4, <2>5 DEF ApprovalInv
<1>5. ASSUME NEW u \in Updaters, Retention!Rollback(u) PROVE ApprovalInv'
  BY <1>5 DEF Retention!Rollback, ApprovalInv, Retention!TypeOK
<1>6. CASE UNCHANGED Retention!vars
  BY <1>6 DEF Retention!vars, ApprovalInv
<1> QED BY <1>1, <1>2, <1>3, <1>4, <1>5, <1>6 DEF Retention!Next

\* No completion without an approval on the trail, for any number of
\* administrators whose updates overlap.
LEMMA ErasuresApproved ==
  ASSUME Retention!BoundsAssumption
  PROVE  Retention!Spec => []Retention!ErasureApproved
<1>1. Retention!Init => Retention!TypeOK /\ ApprovalInv
  BY DEF Retention!Init, Retention!TypeOK, Retention!Row, ApprovalInv, Retention!Idle
<1>2. Retention!TypeOK /\ ApprovalInv /\ [Retention!Next]_(Retention!vars) => Retention!TypeOK' /\ ApprovalInv'
  BY RetentionTypeStep, ApprovalStep
<1>3. ApprovalInv => Retention!ErasureApproved
  BY DEF ApprovalInv, Retention!ErasureApproved
<1> QED BY <1>1, <1>2, <1>3, PTL DEF Retention!Spec

\* One administrator works on the request.
Alone == \A u, v \in Updaters : u = v

\* The last event of the trail is the state of the row, and what is loaded is
\* still a transition from it.
TableInv ==
  /\ row.state \in {"absent", "requested"} => trail = <<>>
  /\ trail # <<>> => trail[Len(trail)].state = row.state
  /\ \A u \in Updaters : update[u] # Retention!Idle => update[u].new \in Retention!Transitions(row.state)
  /\ Retention!FinalStays

LEMMA TableStep ==
  ASSUME Alone, Retention!TypeOK, TableInv, [Retention!Next]_(Retention!vars)
  PROVE  TableInv'
<1>1. CASE Retention!Create
  <2>1. \A u \in Updaters : update[u] = Retention!Idle
    BY <1>1, TransitionTable DEF Retention!Create, TableInv
  <2>2. row.state = "absent" /\ trail' = trail /\ update' = update
    BY <1>1 DEF Retention!Create
  <2> QED BY <2>1, <2>2 DEF TableInv, Retention!FinalStays
<1>2. ASSUME NEW u \in Updaters, NEW new \in Retention!State, Retention!Load(u, new)
      PROVE  TableInv'
  <2>1. /\ update'[u].new = new /\ new \in Retention!Transitions(row.state)
        /\ \A v \in Updaters \ {u} : update'[v] = update[v]
        /\ UNCHANGED <<row, trail>>
    BY <1>2 DEF Retention!Load, Retention!TypeOK
  <2> QED BY <2>1 DEF TableInv, Retention!FinalStays
<1>3. ASSUME NEW u \in Updaters, Retention!Flush(u) PROVE TableInv'
  <2>1. update[u] # Retention!Idle
    BY <1>3 DEF Retention!Flush, Retention!Idle
  <2> QED BY <1>3, <2>1, FlushForm DEF TableInv, Retention!FinalStays
<1>4. ASSUME NEW u \in Updaters, Retention!Commit(u) PROVE TableInv'
  <2>1. update[u] # Retention!Idle
    BY <1>4 DEF Retention!Commit, Retention!Idle
  <2>2. update[u].new \in Retention!Transitions(row.state)
    BY <2>1 DEF TableInv
  <2>3. row.state \notin Retention!Final
    BY <2>2 DEF Retention!Final
  <2>4. update[u].new \in {"approved", "rejected", "completed"}
    BY <1>4, <2>2, TransitionTable DEF Retention!TypeOK, Retention!Row, Retention!State
  <2>5. \A v \in Updaters : update'[v] = Retention!Idle
    BY <1>4, CommitForm DEF Alone, Retention!TypeOK
  <2>6. DOMAIN trail = 1 .. Len(trail) /\ DOMAIN trail' = 1 .. Len(trail')
        /\ Len(trail) \in Nat /\ Len(trail') = Len(trail) + 1
    BY <1>4, TrailGrows
  <2>7. trail'[Len(trail')].state = row'.state /\ row'.state = update[u].new
    <3>1. trail'[Len(trail')].state = update[u].new
      BY <1>4, TrailGrows, Zenon
    <3> QED BY <1>4, <3>1, CommitForm
  <2>8. Retention!FinalStays'
    <3> SUFFICES ASSUME NEW i \in DOMAIN trail', i < Len(trail')
                 PROVE  trail'[i].state \notin Retention!Final
      BY DEF Retention!FinalStays
    <3>1. i \in DOMAIN trail
      BY <2>6
    <3>2. trail'[i] = trail[i]
      BY <1>4, <3>1, TrailGrows, Zenon
    <3>3. CASE i < Len(trail)
      <4>1. trail[i].state \notin Retention!Final
        BY <3>1, <3>3 DEF TableInv, Retention!FinalStays
      <4> QED BY <3>2, <4>1, Zenon
    <3>4. CASE i = Len(trail)
      <4>1. trail # <<>>
        BY <2>6, <3>1
      <4> QED BY <2>3, <3>2, <3>4, <4>1 DEF TableInv
    <3> QED BY <2>6, <3>1, <3>3, <3>4
  <2>9. row'.state \notin {"absent", "requested"}
    BY <2>4, <2>7
  <2> QED BY <2>5, <2>7, <2>8, <2>9 DEF TableInv
<1>5. ASSUME NEW u \in Updaters, Retention!Rollback(u) PROVE TableInv'
  BY <1>5 DEF Retention!Rollback, TableInv, Retention!FinalStays, Retention!TypeOK
<1>6. CASE UNCHANGED Retention!vars
  BY <1>6 DEF Retention!vars, TableInv, Retention!FinalStays
<1> QED BY <1>1, <1>2, <1>3, <1>4, <1>5, <1>6 DEF Retention!Next

-----------------------------------------------------------------------------
(* The composition.                                                        *)

ConsentProofs == INSTANCE ConsentLedger_proofs WITH admin <- editor, Admins <- Editors
UserProofs == INSTANCE Sessions_proofs

\* The instances above and those of MCAccess are of the same modules.
LEMMA SameConsent ==
  /\ Consent!Init <=> ConsentProofs!Init
  /\ [Consent!Next]_(Consent!vars) <=> [ConsentProofs!Next]_(ConsentProofs!vars)
  /\ Consent!TypeOK <=> ConsentProofs!TypeOK
  /\ Consent!ExclusiveActivation <=> ConsentProofs!ExclusiveActivation
  /\ Consent!WithdrawalStands <=> ConsentProofs!WithdrawalStands
  /\ Consent!SubmittedWithReceipts <=> ConsentProofs!SubmittedWithReceipts
BY DEF
     Consent!Init, Consent!Idle, Consent!Next, Consent!CreateCheck, Consent!Begin,
     Consent!receiptVars, Consent!caseVars, Consent!CreateCommit, Consent!SetLoad,
     Consent!Active, Consent!SetSiblings, Consent!SetCommit, Consent!AdminRollback,
     Consent!Party, Consent!RecordBuild, Consent!noticeVars, Consent!RecordCommit,
     Consent!RecordRollback, Consent!SubmitPass, Consent!Needed, Consent!InForce,
     Consent!SubmitCommit, Consent!SubmitRollback, Consent!Decide,
     Consent!Birthday, Consent!vars, Consent!TypeOK, Consent!NoticeStatus,
     Consent!AdminBusy, Consent!Receipt, Consent!ExclusiveActivation,
     Consent!WithdrawalStands, Consent!SubmittedWithReceipts, ConsentProofs!Init,
     ConsentProofs!Idle, ConsentProofs!Next, ConsentProofs!CreateCheck,
     ConsentProofs!Begin, ConsentProofs!receiptVars, ConsentProofs!caseVars,
     ConsentProofs!CreateCommit, ConsentProofs!SetLoad, ConsentProofs!Active,
     ConsentProofs!SetSiblings, ConsentProofs!SetCommit,
     ConsentProofs!AdminRollback, ConsentProofs!Party, ConsentProofs!RecordBuild,
     ConsentProofs!noticeVars, ConsentProofs!RecordCommit,
     ConsentProofs!RecordRollback, ConsentProofs!SubmitPass, ConsentProofs!Needed,
     ConsentProofs!InForce, ConsentProofs!SubmitCommit,
     ConsentProofs!SubmitRollback, ConsentProofs!Decide, ConsentProofs!Birthday,
     ConsentProofs!vars, ConsentProofs!TypeOK, ConsentProofs!NoticeStatus,
     ConsentProofs!AdminBusy, ConsentProofs!Receipt,
     ConsentProofs!ExclusiveActivation, ConsentProofs!WithdrawalStands,
     ConsentProofs!SubmittedWithReceipts

LEMMA SameUser ==
  /\ User!BoundsAssumption <=> UserProofs!BoundsAssumption
  /\ User!Init <=> UserProofs!Init
  /\ [User!Next]_(User!vars) <=> [UserProofs!Next]_(UserProofs!vars)
  /\ User!TypeOK <=> UserProofs!TypeOK
  /\ User!HeldUsable <=> UserProofs!HeldUsable
BY DEF
     User!Init, User!Idle, User!Next, User!Clocks, User!Mint, User!StoreJti,
     User!LoginStep, User!Answer, User!LoginFails, User!Check, User!Answered,
     User!Decodes, User!Listed, User!Issue, User!NotIssued, User!Receive,
     User!Revoke, User!LogoutEnds, User!Tick, User!vars, User!BoundsAssumption,
     User!TypeOK, User!LoginState, User!RefreshState, User!LogoutState,
     User!LogoutHolds, User!Revoked, User!Used, User!HeldUsable, UserProofs!Init,
     UserProofs!Idle, UserProofs!Next, UserProofs!Clocks, UserProofs!Mint,
     UserProofs!StoreJti, UserProofs!LoginStep, UserProofs!Answer,
     UserProofs!LoginFails, UserProofs!Check, UserProofs!Answered,
     UserProofs!Decodes, UserProofs!Listed, UserProofs!Issue, UserProofs!NotIssued,
     UserProofs!Receive, UserProofs!Revoke, UserProofs!LogoutEnds, UserProofs!Tick,
     UserProofs!vars, UserProofs!BoundsAssumption, UserProofs!TypeOK,
     UserProofs!LoginState, UserProofs!RefreshState, UserProofs!LogoutState,
     UserProofs!LogoutHolds, UserProofs!Revoked, UserProofs!Used,
     UserProofs!HeldUsable

\* What moves is one component, which takes a step of its own; the others rest.
LEMMA AccessStep ==
  ASSUME [AccessNext]_accessVars
  PROVE  /\ [Next]_vars
         /\ [Consent!Next]_(Consent!vars)
         /\ [User!Next]_(User!vars)
         /\ [Rate!Next]_(Rate!vars)
         /\ [Retention!Next]_(Retention!vars)
<1>1. consentVars' = consentVars => UNCHANGED Consent!vars
  BY DEF consentVars, consentReceiptVars, Consent!vars, Consent!noticeVars,
         Consent!receiptVars, Consent!caseVars
<1>2. sessionVars' = sessionVars /\ now' = now => UNCHANGED User!vars
  BY DEF sessionVars, User!vars
<1>3. rateVars' = rateVars /\ now' = now => UNCHANGED Rate!vars
  BY DEF rateVars, Rate!vars
<1>4. retentionVars' = retentionVars => UNCHANGED Retention!vars
  BY DEF retentionVars, Retention!vars
<1>5. CASE UNCHANGED accessVars
  <2>1. /\ UNCHANGED vars /\ consentVars' = consentVars /\ sessionVars' = sessionVars
        /\ rateVars' = rateVars /\ retentionVars' = retentionVars /\ now' = now
    BY <1>5 DEF accessVars
  <2> QED BY <2>1, <1>1, <1>2, <1>3, <1>4
<1>6. CASE AccessNext
  <2>1. CASE Next /\ UNCHANGED <<consentVars, sessionVars, rateVars, retentionVars, now>>
    BY <2>1, <1>1, <1>2, <1>3, <1>4
  <2>2. CASE Consent!Next /\ UNCHANGED <<vars, sessionVars, rateVars, retentionVars, now>>
    BY <2>2, <1>2, <1>3, <1>4
  <2>3. CASE User!Next /\ UNCHANGED <<vars, consentVars, rateVars, retentionVars>>
    <3>1. UNCHANGED now \/ User!Tick
      BY <2>3 DEF User!Next, User!Mint, User!StoreJti, User!Answer, User!LoginFails,
           User!Check, User!Issue, User!NotIssued, User!Receive, User!Revoke,
           User!LogoutEnds
    <3>2. User!Tick => Rate!Tick
      BY <2>3 DEF User!Tick, Rate!Tick, rateVars
    <3>3. [Rate!Next]_(Rate!vars)
      BY <2>3, <3>1, <3>2, <1>3 DEF Rate!Next
    <3> QED BY <2>3, <3>3, <1>1, <1>4
  <2>4. CASE Rate!Next /\ UNCHANGED <<vars, consentVars, sessionVars, retentionVars>>
    <3>1. UNCHANGED now \/ Rate!Tick
      BY <2>4 DEF Rate!Next, Rate!Incr, Rate!Expire, Rate!Decide, Rate!Die
    <3>2. Rate!Tick => User!Tick
      BY <2>4 DEF User!Tick, Rate!Tick, sessionVars
    <3>3. [User!Next]_(User!vars)
      BY <2>4, <3>1, <3>2, <1>2 DEF User!Next
    <3> QED BY <2>4, <3>3, <1>1, <1>4
  <2>5. CASE /\ Retention!Next
             /\ UNCHANGED <<vars, consentVars, sessionVars, rateVars, now>>
    BY <2>5, <1>1, <1>2, <1>3
  <2> QED BY <1>6, <2>1, <2>2, <2>3, <2>4, <2>5 DEF AccessNext
<1> QED BY <1>5, <1>6

\* The composition implements every component.
THEOREM AccessImplements ==
  AccessSpec => Spec /\ Consent!Spec /\ User!Spec /\ Rate!Spec /\ Retention!Spec
<1>1. AccessInit =>
        Init /\ Consent!Init /\ User!Init /\ Rate!Init /\ Retention!Init
  BY DEF AccessInit
<1> QED BY <1>1, AccessStep, PTL
        DEF AccessSpec, Spec, Consent!Spec, User!Spec, Rate!Spec, Retention!Spec

LEMMA ComponentSpecs ==
  /\ Consent!Spec <=> ConsentProofs!Spec
  /\ User!Spec <=> UserProofs!Spec
BY SameConsent, SameUser, PTL
   DEF Consent!Spec, ConsentProofs!Spec, User!Spec, UserProofs!Spec

\* Every component keeps its types.
THEOREM AccessTypes == AccessSpec => []TypesOK
<1>1. UserProofs!BoundsAssumption /\ Rate!BoundsAssumption
  BY BoundsAssumption, SameUser
<1>2. Rate!Spec => []Rate!TypeOK
  <2>1. Rate!Init => Rate!TypeOK
    BY DEF Rate!Init, Rate!TypeOK, Rate!Never
  <2>2. Rate!TypeOK /\ [Rate!Next]_(Rate!vars) => Rate!TypeOK'
    BY <1>1, RateTypeStep
  <2> QED BY <2>1, <2>2, PTL DEF Rate!Spec
<1>3. ConsentProofs!Spec => []ConsentProofs!TypeOK
  BY ConsentProofs!TypeCorrect
<1>4. UserProofs!Spec => []UserProofs!TypeOK
  BY <1>1, UserProofs!TypeCorrect
<1>5. /\ TypeOK /\ ConsentProofs!TypeOK /\ UserProofs!TypeOK /\ Rate!TypeOK
      /\ Retention!TypeOK
      => TypesOK
  BY SameConsent, SameUser DEF TypesOK
<1> QED
  BY <1>2, <1>3, <1>4, <1>5, TypeCorrect, RetentionTypes, AccessImplements,
     ComponentSpecs, PTL

\* A withdrawal that was committed is in force until a grant that began after it.
THEOREM WithdrawalHonoured == AccessSpec => []WithdrawalStands
<1>1. ConsentProofs!Spec => []ConsentProofs!WithdrawalStands
  BY ConsentProofs!WithdrawalHonoured
<1>2. ConsentProofs!WithdrawalStands => WithdrawalStands
  BY SameConsent DEF WithdrawalStands
<1> QED BY <1>1, <1>2, AccessImplements, ComponentSpecs, PTL

\* Every party that a submitted case needs has granted at some time.
THEOREM NoIntakeWithoutReceipts == AccessSpec => []SubmittedWithReceipts
<1>1. ConsentProofs!Spec => []ConsentProofs!SubmittedWithReceipts
  BY ConsentProofs!NoIntakeWithoutReceipts
<1>2. ConsentProofs!SubmittedWithReceipts => SubmittedWithReceipts
  BY SameConsent DEF SubmittedWithReceipts
<1> QED BY <1>1, <1>2, AccessImplements, ComponentSpecs, PTL

\* If administrators do not change notices at the same time, one of several of
\* a kind is active.
THEOREM ExclusiveAlone ==
  ASSUME \A a, b \in Editors : a = b
  PROVE  AccessSpec => []ExclusiveActivation
<1>1. ConsentProofs!Spec => []ConsentProofs!ExclusiveActivation
  <2>1. ConsentProofs!Alone
    BY DEF ConsentProofs!Alone
  <2> QED BY <2>1, ConsentProofs!ExclusiveAlone
<1>2. ConsentProofs!ExclusiveActivation => ExclusiveActivation
  BY SameConsent DEF ExclusiveActivation
<1> QED BY <1>1, <1>2, AccessImplements, ComponentSpecs, PTL

\* A refresh that begins after a logout deleted the token's entry is refused.
THEOREM LogoutIsFinal == AccessSpec => LogoutHolds
<1>1. UserProofs!Spec => UserProofs!LogoutHolds
  BY BoundsAssumption, SameUser, UserProofs!LogoutIsFinal
<1>2. User!LogoutHolds <=> UserProofs!LogoutHolds
  BY DEF
       User!LogoutHolds, User!Idle, User!Revoked, User!vars,
       UserProofs!LogoutHolds, UserProofs!Idle, UserProofs!Revoked, UserProofs!vars
<1> QED BY <1>1, <1>2, AccessImplements, ComponentSpecs, PTL DEF LogoutHolds

\* A token that is held and not logged out is listed to within the skew of the end
\* of its life.
THEOREM SessionsLast == AccessSpec => []HeldUsable
<1>1. UserProofs!Spec => []UserProofs!HeldUsable
  BY BoundsAssumption, SameUser, UserProofs!SessionsLast
<1>2. UserProofs!HeldUsable => HeldUsable
  BY SameUser DEF HeldUsable
<1> QED BY <1>1, <1>2, AccessImplements, ComponentSpecs, PTL

\* A counter without an expiry is one whose first call has yet to set it, or died.
THEOREM WindowsEnd == AccessSpec => []WindowEnds
<1>1. Rate!Spec => []Rate!WindowEnds
  BY BoundsAssumption, RateWindowsEnd
<1> QED BY <1>1, AccessImplements, PTL DEF WindowEnds

\* Fewer than twice the limit are admitted in any stretch of a window's length.
THEOREM BurstsBounded == AccessSpec => []BurstBound
<1>1. Rate!Spec => []Rate!BurstBound
  BY BoundsAssumption, RateBurstsBounded
<1> QED BY <1>1, AccessImplements, PTL DEF BurstBound

\* What was completed was approved, by the administrator it names.
THEOREM NoErasureUnapproved == AccessSpec => []ErasureApproved
<1>1. Retention!Spec => []Retention!ErasureApproved
  BY BoundsAssumption, ErasuresApproved
<1>2. Retention!ErasureApproved => ErasureApproved
  BY DEF ErasureApproved
<1> QED BY <1>1, <1>2, AccessImplements, PTL

\* With one administrator at a time no update commits after a final state: what
\* breaks the table is the overlap of two.
THEOREM FinalForOne == ASSUME Alone PROVE AccessSpec => []Retention!FinalStays
<1>1. Retention!Init => Retention!TypeOK /\ TableInv
  BY DEF Retention!Init, Retention!TypeOK, Retention!Row, TableInv,
     Retention!FinalStays, Retention!Idle
<1>2. Retention!TypeOK /\ TableInv /\ [Retention!Next]_(Retention!vars) => Retention!TypeOK' /\ TableInv'
  BY RetentionTypeStep, TableStep
<1>3. TableInv => Retention!FinalStays
  BY DEF TableInv
<1> QED BY <1>1, <1>2, <1>3, AccessImplements, PTL DEF Retention!Spec

===============================================================================
