---------------------------- MODULE Sessions_proofs ----------------------------
(***************************************************************************)
(* For any numbers of logins, refreshes and logouts, any lifetime and any   *)
(* skew of the clocks: a token that was logged out refreshes nothing, and   *)
(* one that was not is on the allowlist for as long as it should be.        *)
(***************************************************************************)
EXTENDS Sessions, TLAPS

-----------------------------------------------------------------------------
(* Types.                                                                  *)

\* A step of a login that has minted its token moves its pc and nothing else.
LEMMA LoginStepForm ==
  ASSUME TypeOK, NEW l \in Logins, NEW from, NEW to,
         from \in {"minted", "stored"}, to \in {"stored", "answered", "failed"},
         LoginStep(l, from, to)
  PROVE  /\ login[l] \in LoginState
         /\ login' \in [Logins -> {Idle} \cup LoginState]
         /\ login'[l] \in LoginState
         /\ login'[l].pc = to /\ login'[l].iat = login[l].iat /\ login'[l].exp = login[l].exp
         /\ \A m \in Logins \ {l} : login'[m] = login[m]
<1>1. login[l] \in LoginState
  BY DEF LoginStep, TypeOK, Idle
<1>2. PICK y : y = [login[l] EXCEPT !.pc = to]
  OBVIOUS
<1>3. y \in LoginState /\ y.pc = to /\ y.iat = login[l].iat /\ y.exp = login[l].exp
  BY <1>1, <1>2 DEF LoginState
<1>4. login' = [login EXCEPT ![l] = y]
  BY <1>2 DEF LoginStep, TypeOK
<1> QED BY <1>1, <1>3, <1>4 DEF TypeOK

\* A deletion of the entry, which belongs to the token of the logout.
LEMMA RevokeForm ==
  ASSUME TypeOK, NEW o \in Logouts, Revoke(o)
  PROVE  /\ logout[o] \in LogoutState
         /\ logout'[o] \in LogoutState /\ logout'[o].token = logout[o].token
         /\ logout'[o].deleted
         /\ logout' \in [Logouts -> {Idle} \cup LogoutState]
         /\ \A p \in Logouts \ {o} : logout'[p] = logout[p]
<1>1. logout[o] \in LogoutState
  BY DEF Revoke, TypeOK, Idle
<1>2. PICK y : y = [logout[o] EXCEPT !.pc = "revoked", !.deleted = TRUE]
  OBVIOUS
<1>3. y \in LogoutState /\ y.token = logout[o].token /\ y.deleted
  BY <1>1, <1>2 DEF LogoutState
<1>4. logout' = [logout EXCEPT ![o] = y]
  BY <1>2 DEF Revoke, TypeOK
<1> QED BY <1>1, <1>3, <1>4 DEF TypeOK

\* The end of a logout leaves its token and what it deleted.
LEMMA LogoutEndsForm ==
  ASSUME TypeOK, NEW o \in Logouts, LogoutEnds(o)
  PROVE  /\ logout[o] \in LogoutState
         /\ logout'[o] \in LogoutState /\ logout'[o].token = logout[o].token
         /\ logout'[o].deleted = logout[o].deleted
         /\ logout' \in [Logouts -> {Idle} \cup LogoutState]
         /\ \A p \in Logouts \ {o} : logout'[p] = logout[p]
<1>1. logout[o] \in LogoutState
  BY DEF LogoutEnds, TypeOK, Idle
<1>2. PICK pc \in {"answered", "failed"} : logout' = [logout EXCEPT ![o].pc = pc]
  BY DEF LogoutEnds
<1>3. PICK y : y = [logout[o] EXCEPT !.pc = pc]
  OBVIOUS
<1>4. y \in LogoutState /\ y.token = logout[o].token /\ y.deleted = logout[o].deleted
  BY <1>1, <1>3 DEF LogoutState
<1>5. logout' = [logout EXCEPT ![o] = y]
  BY <1>2, <1>3 DEF TypeOK
<1> QED BY <1>1, <1>4, <1>5 DEF TypeOK

LEMMA TypeStep ==
  ASSUME BoundsAssumption, TypeOK, [Next]_vars
  PROVE  TypeOK'
<1>1. ASSUME NEW l \in Logins, NEW clock \in Clocks, Mint(l, clock) PROVE TypeOK'
  <2>1. clock \in Nat /\ clock + Life \in Nat
    BY <1>1 DEF BoundsAssumption, Clocks, TypeOK
  <2>2. [pc |-> "minted", iat |-> clock, exp |-> clock + Life] \in LoginState
    BY <2>1 DEF LoginState
  <2> QED BY <1>1, <2>2 DEF Mint, TypeOK
<1>2. ASSUME NEW l \in Logins, StoreJti(l) PROVE TypeOK'
  <2>1. login' \in [Logins -> {Idle} \cup LoginState]
    BY <1>2, LoginStepForm DEF StoreJti
  <2>2. expiry' \in [Logins -> Nat]
    BY <1>2 DEF StoreJti, TypeOK, BoundsAssumption
  <2> QED BY <1>2, <2>1, <2>2 DEF StoreJti, TypeOK
<1>3. ASSUME NEW l \in Logins, Answer(l) \/ LoginFails(l) PROVE TypeOK'
  <2>1. login' \in [Logins -> {Idle} \cup LoginState]
    BY <1>3, LoginStepForm DEF Answer, LoginFails
  <2> QED BY <1>3, <2>1 DEF Answer, LoginFails, TypeOK
<1>4. ASSUME NEW r \in Refreshes, NEW l \in Logins, NEW clock \in Clocks, Check(r, l, clock)
      PROVE  TypeOK'
  <2>1. \E pc \in {"checked", "refused"} :
          refresh' = [refresh EXCEPT ![r] = [pc |-> pc, token |-> l]]
    BY <1>4 DEF Check
  <2> QED BY <1>4, <2>1 DEF Check, TypeOK, RefreshState
<1>5. ASSUME NEW r \in Refreshes, Issue(r) \/ NotIssued(r) PROVE TypeOK'
  <2>1. PICK pc \in {"granted", "refused", "failed"} :
          refresh' = [refresh EXCEPT ![r].pc = pc]
    BY <1>5 DEF Issue, NotIssued
  <2>2. refresh[r] \in RefreshState
    BY <1>5 DEF Issue, NotIssued, TypeOK, Idle
  <2>3. [refresh[r] EXCEPT !.pc = pc] \in RefreshState
    BY <2>2 DEF RefreshState
  <2>4. refresh' \in [Refreshes -> {Idle} \cup RefreshState]
    BY <2>1, <2>3 DEF TypeOK
  <2> QED BY <1>5, <2>4 DEF Issue, NotIssued, TypeOK
<1>6. ASSUME NEW o \in Logouts, NEW l \in Logins, NEW sent \in Sendable,
             NEW clock \in Clocks, Receive(o, l, sent, clock)
      PROVE  TypeOK'
  <2>1. \E pc \in {"decoded", "answered"} :
          logout' = [logout EXCEPT ![o] = [pc |-> pc, token |-> l, deleted |-> FALSE]]
    BY <1>6 DEF Receive
  <2> QED BY <1>6, <2>1 DEF Receive, TypeOK, LogoutState
<1>7. ASSUME NEW o \in Logouts, Revoke(o) \/ LogoutEnds(o) PROVE TypeOK'
  <2>1. logout' \in [Logouts -> {Idle} \cup LogoutState]
    BY <1>7, RevokeForm, LogoutEndsForm
  <2>2. expiry' \in [Logins -> Nat]
    BY <1>7 DEF Revoke, LogoutEnds, TypeOK
  <2> QED BY <1>7, <2>1, <2>2 DEF Revoke, LogoutEnds, TypeOK
<1>8. CASE Tick
  BY <1>8 DEF Tick, TypeOK
<1>9. CASE UNCHANGED vars
  BY <1>9 DEF vars, TypeOK
<1> QED BY <1>1, <1>2, <1>3, <1>4, <1>5, <1>6, <1>7, <1>8, <1>9 DEF Next

\* The type invariant, for every instance.
THEOREM TypeCorrect == ASSUME BoundsAssumption PROVE Spec => []TypeOK
<1>1. Init => TypeOK
  BY DEF Init, TypeOK
<1>2. TypeOK /\ [Next]_vars => TypeOK'
  BY TypeStep
<1> QED BY <1>1, <1>2, PTL DEF Spec

-----------------------------------------------------------------------------
(* Logouts.                                                                *)

\* A logout is of a token that was handed out, and the entry it deleted does
\* not come back: only a login writes one, before it hands the token out.
LogoutInv ==
  \A o \in Logouts :
    logout[o] # Idle => /\ logout[o].token \in Answered
                        /\ logout[o].deleted => expiry[logout[o].token] = 0

\* What a logout may not see of the rest of the system: tokens that were handed
\* out stay so, and only a login that has not answered writes an entry.
LEMMA AnsweredStays ==
  ASSUME TypeOK, [Next]_vars
  PROVE  /\ \A l \in Answered : login'[l] = login[l]
         /\ \A l \in Answered : expiry'[l] # 0 => expiry'[l] = expiry[l]
<1>1. ASSUME NEW l \in Logins, NEW clock \in Clocks, Mint(l, clock)
      PROVE  /\ \A m \in Answered : login'[m] = login[m]
             /\ UNCHANGED expiry
  BY <1>1 DEF Mint, TypeOK, Answered, Idle
<1>2. ASSUME NEW l \in Logins, StoreJti(l)
      PROVE  \A m \in Answered : login'[m] = login[m] /\ expiry'[m] = expiry[m]
  BY <1>2 DEF StoreJti, LoginStep, TypeOK, Answered
<1>3. ASSUME NEW l \in Logins, Answer(l) \/ LoginFails(l)
      PROVE  /\ \A m \in Answered : login'[m] = login[m]
             /\ UNCHANGED expiry
  BY <1>3 DEF Answer, LoginFails, LoginStep, TypeOK, Answered
<1>4. ASSUME NEW o \in Logouts, Revoke(o)
      PROVE  /\ UNCHANGED login
             /\ \A l \in Logins : expiry'[l] # 0 => expiry'[l] = expiry[l]
  BY <1>4 DEF Revoke, TypeOK
<1>5. CASE UNCHANGED <<login, expiry>>
  BY <1>5
<1>6. \/ \E l \in Logins : \E clock \in Clocks : Mint(l, clock)
      \/ \E l \in Logins : StoreJti(l) \/ Answer(l) \/ LoginFails(l)
      \/ \E o \in Logouts : Revoke(o)
      \/ UNCHANGED <<login, expiry>>
  BY DEF Next, vars, Check, Issue, NotIssued, Receive, LogoutEnds, Tick
<1> QED BY <1>1, <1>2, <1>3, <1>4, <1>5, <1>6 DEF Answered

\* What a step does to one logout.
LEMMA LogoutStep ==
  ASSUME TypeOK, [Next]_vars, NEW o \in Logouts
  PROVE  \/ logout'[o] = logout[o]
         \/ /\ logout[o] = Idle /\ logout'[o].token \in Answered /\ ~logout'[o].deleted
         \/ /\ logout[o] # Idle /\ logout'[o].token = logout[o].token
            /\ logout'[o].deleted = logout[o].deleted
         \/ /\ logout[o] # Idle /\ logout'[o].token = logout[o].token
            /\ expiry'[logout[o].token] = 0
<1>1. CASE UNCHANGED logout
  BY <1>1
<1>2. ASSUME NEW p \in Logouts, NEW l \in Logins, NEW sent \in Sendable,
             NEW clock \in Clocks, Receive(p, l, sent, clock)
      PROVE  \/ logout'[o] = logout[o]
             \/ /\ logout[o] = Idle /\ logout'[o].token \in Answered
                /\ ~logout'[o].deleted
  BY <1>2 DEF Receive, TypeOK
<1>3. ASSUME NEW p \in Logouts, Revoke(p)
      PROVE  \/ logout'[o] = logout[o]
             \/ /\ logout[o] # Idle /\ logout'[o].token = logout[o].token
                /\ expiry'[logout[o].token] = 0
  <2>1. logout[p] # Idle /\ logout[p].token \in Logins
    BY <1>3, RevokeForm DEF Revoke, Idle, LogoutState
  <2>2. expiry'[logout[p].token] = 0
    BY <1>3, <2>1 DEF Revoke, TypeOK
  <2> QED BY <1>3, <2>1, <2>2, RevokeForm
<1>4. ASSUME NEW p \in Logouts, LogoutEnds(p)
      PROVE  \/ logout'[o] = logout[o]
             \/ /\ logout[o] # Idle /\ logout'[o].token = logout[o].token
                /\ logout'[o].deleted = logout[o].deleted
  <2>1. logout[p] # Idle
    BY <1>4 DEF LogoutEnds, Idle
  <2> QED BY <1>4, <2>1, LogoutEndsForm
<1>5. \/ UNCHANGED logout
      \/ \E p \in Logouts : \E l \in Logins : \E sent \in Sendable : \E clock \in Clocks :
           Receive(p, l, sent, clock)
      \/ \E p \in Logouts : Revoke(p) \/ LogoutEnds(p)
  BY DEF Next, vars, Mint, StoreJti, Answer, LoginFails, Check, Issue, NotIssued, Tick
<1> QED BY <1>1, <1>2, <1>3, <1>4, <1>5

LEMMA LogoutInvStep ==
  ASSUME BoundsAssumption, TypeOK, LogoutInv, [Next]_vars
  PROVE  LogoutInv'
<1> SUFFICES ASSUME NEW o \in Logouts, logout'[o] # Idle
             PROVE  /\ logout'[o].token \in Answered'
                    /\ logout'[o].deleted => expiry'[logout'[o].token] = 0
  BY DEF LogoutInv
<1>1. \A l \in Answered : l \in Answered'
  BY AnsweredStays DEF Answered
<1>2. CASE logout'[o] = logout[o]
  <2>1. /\ logout[o].token \in Answered
        /\ logout[o].deleted => expiry[logout[o].token] = 0
    BY <1>2 DEF LogoutInv
  <2> QED BY <1>1, <1>2, <2>1, AnsweredStays
<1>3. CASE /\ logout[o] = Idle /\ logout'[o].token \in Answered /\ ~logout'[o].deleted
  BY <1>1, <1>3
<1>4. CASE /\ logout[o] # Idle /\ logout'[o].token = logout[o].token
           /\ logout'[o].deleted = logout[o].deleted
  <2>1. /\ logout[o].token \in Answered
        /\ logout[o].deleted => expiry[logout[o].token] = 0
    BY <1>4 DEF LogoutInv
  <2> QED BY <1>1, <1>4, <2>1, AnsweredStays
<1>5. CASE /\ logout[o] # Idle /\ logout'[o].token = logout[o].token
           /\ expiry'[logout[o].token] = 0
  BY <1>1, <1>5 DEF LogoutInv
<1> QED BY <1>2, <1>3, <1>4, <1>5, LogoutStep

\* A token that was logged out has no entry.
LEMMA RevokedUnlisted ==
  ASSUME TypeOK, LogoutInv
  PROVE  \A l \in Revoked : expiry[l] = 0 /\ l \in Answered
  BY DEF LogoutInv, Revoked

LEMMA RefreshChecks ==
  ASSUME TypeOK, LogoutInv, [Next]_vars, NEW r \in Refreshes,
         refresh[r] = Idle, refresh'[r] # Idle, refresh'[r].pc = "checked"
  PROVE  refresh'[r].token \notin Revoked
<1>1. \E s \in Refreshes : \E l \in Logins : \E clock \in Clocks : Check(s, l, clock)
  <2>1. ASSUME NEW s \in Refreshes, Issue(s) \/ NotIssued(s) PROVE FALSE
    <3>1. s # r
      BY <2>1 DEF Issue, NotIssued, Idle
    <3> QED BY <2>1, <3>1 DEF Issue, NotIssued, TypeOK
  <2>2. refresh' # refresh
    OBVIOUS
  <2> QED BY <2>1, <2>2 DEF Next, vars, Mint, StoreJti, Answer, LoginFails, Receive,
             Revoke, LogoutEnds, Tick
<1>2. PICK s \in Refreshes, l \in Logins, clock \in Clocks : Check(s, l, clock)
  BY <1>1
<1>3. s = r
  BY <1>2 DEF Check, TypeOK
<1>4. Listed(l) /\ refresh'[r].token = l
  BY <1>2, <1>3 DEF Check, TypeOK
<1>5. expiry[l] # 0
  BY <1>4 DEF Listed, TypeOK
<1> QED BY <1>4, <1>5, RevokedUnlisted

\* A logout is final for refreshes, for any number of them in progress.
THEOREM LogoutIsFinal == ASSUME BoundsAssumption PROVE Spec => LogoutHolds
<1>1. Init => TypeOK /\ LogoutInv
  BY DEF Init, TypeOK, LogoutInv
<1>2. TypeOK /\ LogoutInv /\ [Next]_vars => TypeOK' /\ LogoutInv'
  BY TypeStep, LogoutInvStep
<1>3. TypeOK /\ LogoutInv /\ [Next]_vars
        => [\A r \in Refreshes :
              refresh[r] = Idle /\ refresh'[r] # Idle /\ refresh'[r].pc = "checked"
                => refresh'[r].token \notin Revoked]_vars
  BY RefreshChecks
<1> QED BY <1>1, <1>2, <1>3, PTL DEF Spec, LogoutHolds

-----------------------------------------------------------------------------
(* Sessions that last.                                                     *)

\* The token was minted by a clock that is ahead by the skew at most, and its
\* entry lasts from its store, which is later, for as long as the token does.
HeldInv ==
  \A l \in Logins :
    /\ login[l].pc = "minted" => login[l].exp <= now + MaxSkew + Life
    /\ login[l].pc \in {"stored", "answered"} /\ l \notin Revoked
         => login[l].exp <= expiry[l] + MaxSkew

\* Who is logged out stays so.
LEMMA RevokedGrows ==
  ASSUME TypeOK, LogoutInv, [Next]_vars
  PROVE  \A l \in Logins : l \notin Revoked' => l \notin Revoked
<1> SUFFICES ASSUME NEW o \in Logouts, logout[o] # Idle, logout[o].deleted
             PROVE  logout[o].token \in Revoked'
  BY DEF Revoked
<1>1. PICK p : p = logout[o]
  OBVIOUS
<1>2. logout'[o] # Idle /\ logout'[o].deleted /\ logout'[o].token = logout[o].token
  <2>1. CASE \E p1 \in Logouts, l \in Logins, sent \in Sendable, clock \in Clocks :
               Receive(p1, l, sent, clock)
    BY <2>1 DEF Receive, TypeOK
  <2>2. ASSUME NEW p1 \in Logouts, Revoke(p1)
        PROVE  logout'[o] # Idle /\ logout'[o].deleted /\ logout'[o].token = logout[o].token
    BY <2>2, RevokeForm DEF Idle, LogoutState
  <2>3. ASSUME NEW p1 \in Logouts, LogoutEnds(p1)
        PROVE  logout'[o] # Idle /\ logout'[o].deleted /\ logout'[o].token = logout[o].token
    BY <2>3, LogoutEndsForm DEF Idle, LogoutState
  <2>4. CASE UNCHANGED logout
    BY <2>4
  <2> QED BY <2>1, <2>2, <2>3, <2>4 DEF Next, vars, Mint, StoreJti, Answer, LoginFails,
             Check, Issue, NotIssued, Tick
<1> QED BY <1>2 DEF Revoked

LEMMA HeldInvStep ==
  ASSUME BoundsAssumption, TypeOK, LogoutInv, HeldInv, [Next]_vars
  PROVE  HeldInv'
<1> SUFFICES ASSUME NEW l \in Logins
             PROVE  /\ login'[l].pc = "minted" => login'[l].exp <= now' + MaxSkew + Life
                    /\ login'[l].pc \in {"stored", "answered"} /\ l \notin Revoked'
                         => login'[l].exp <= expiry'[l] + MaxSkew
  BY DEF HeldInv
<1> DEFINE Goal ==
      /\ login'[l].pc = "minted" => login'[l].exp <= now' + MaxSkew + Life
      /\ login'[l].pc \in {"stored", "answered"} /\ l \notin Revoked'
           => login'[l].exp <= expiry'[l] + MaxSkew
<1>1. l \notin Revoked' => l \notin Revoked
  BY RevokedGrows
<1>2. /\ login[l].pc = "minted" => login[l].exp <= now + MaxSkew + Life
      /\ login[l].pc \in {"stored", "answered"} /\ l \notin Revoked
           => login[l].exp <= expiry[l] + MaxSkew
  BY DEF HeldInv
<1>3. now \in Nat /\ expiry[l] \in Nat /\ MaxSkew \in Nat /\ Life \in Nat
      /\ (login[l] # Idle => login[l].exp \in Nat)
  BY DEF TypeOK, BoundsAssumption, LoginState
<1>4. ASSUME NEW m \in Logins, NEW clock \in Clocks, Mint(m, clock) PROVE Goal
  <2>1. CASE m = l
    <3>1. clock \in Nat /\ clock <= now + MaxSkew
      BY <1>3 DEF Clocks
    <3>2. login'[l].pc = "minted" /\ login'[l].exp = clock + Life /\ now' = now
      BY <1>4, <2>1 DEF Mint, TypeOK
    <3> QED BY <1>3, <3>1, <3>2
  <2>2. CASE m # l
    BY <1>1, <1>2, <1>4, <2>2 DEF Mint, TypeOK
  <2> QED BY <2>1, <2>2
<1>5. ASSUME NEW m \in Logins, StoreJti(m) PROVE Goal
  <2>1. CASE m = l
    <3>1. login[l].pc = "minted" /\ login[l] # Idle
      BY <1>5, <2>1 DEF StoreJti, LoginStep, Idle
    <3>2. login'[l].pc = "stored" /\ login'[l].exp = login[l].exp
      BY <1>5, <2>1, LoginStepForm DEF StoreJti
    <3>3. expiry'[l] = now + Life
      BY <1>5, <2>1 DEF StoreJti, TypeOK
    <3>4. login[l].exp <= now + MaxSkew + Life
      BY <1>2, <3>1
    <3>5. login'[l].exp <= expiry'[l] + MaxSkew
      BY <1>3, <3>1, <3>2, <3>3, <3>4
    <3> QED BY <3>2, <3>5
  <2>2. CASE m # l
    <3>1. login'[l] = login[l] /\ expiry'[l] = expiry[l] /\ now' = now
      BY <1>5, <2>2 DEF StoreJti, LoginStep, TypeOK
    <3> QED BY <1>1, <1>2, <3>1
  <2> QED BY <2>1, <2>2
<1>6. ASSUME NEW m \in Logins, Answer(m) \/ LoginFails(m) PROVE Goal
  <2>1. CASE m = l
    <3>1. \/ /\ login[l].pc = "stored" /\ login'[l].pc = "answered"
             /\ login'[l].exp = login[l].exp
          \/ login'[l].pc = "failed"
      <4>1. CASE Answer(l)
        <5>1. LoginStep(l, "stored", "answered")
          BY <4>1 DEF Answer
        <5>2. login[l].pc = "stored"
          BY <5>1 DEF LoginStep
        <5> QED BY <5>1, <5>2, LoginStepForm
      <4>2. CASE LoginFails(l)
        BY <4>2, LoginStepForm DEF LoginFails
      <4> QED BY <1>6, <2>1, <4>1, <4>2
    <3>2. expiry' = expiry
      BY <1>6 DEF Answer, LoginFails
    <3> QED BY <1>1, <1>2, <3>1, <3>2
  <2>2. CASE m # l
    <3>1. login'[l] = login[l] /\ expiry' = expiry /\ now' = now
      BY <1>6, <2>2 DEF Answer, LoginFails, LoginStep, TypeOK
    <3> QED BY <1>1, <1>2, <3>1
  <2> QED BY <2>1, <2>2
<1>7. ASSUME NEW o \in Logouts, Revoke(o) PROVE Goal
  <2>1. l # logout[o].token => expiry'[l] = expiry[l]
    BY <1>7 DEF Revoke, TypeOK
  <2>2. l = logout[o].token => l \in Revoked'
    BY <1>7, RevokeForm DEF Revoked, Idle, LogoutState
  <2>3. login' = login /\ now' = now
    BY <1>7 DEF Revoke
  <2> QED BY <1>1, <1>2, <2>1, <2>2, <2>3
<1>8. CASE UNCHANGED <<login, expiry>> /\ now' \in Nat /\ now <= now'
  <2>1. login[l].pc = "minted" => login[l].exp <= now' + MaxSkew + Life
    BY <1>2, <1>3, <1>8 DEF Idle
  <2> QED BY <1>1, <1>2, <1>8, <2>1
<1>9. \/ \E m \in Logins : \E clock \in Clocks : Mint(m, clock)
      \/ \E m \in Logins : StoreJti(m) \/ Answer(m) \/ LoginFails(m)
      \/ \E o \in Logouts : Revoke(o)
      \/ UNCHANGED <<login, expiry>> /\ now' \in Nat /\ now <= now'
  BY <1>3 DEF Next, vars, Check, Issue, NotIssued, Receive, LogoutEnds, Tick
<1> QED BY <1>4, <1>5, <1>6, <1>7, <1>8, <1>9

\* No session whose token was not used is forgotten before the token is within
\* the skew of its end.
THEOREM SessionsLast == ASSUME BoundsAssumption PROVE Spec => []HeldUsable
<1>1. Init => TypeOK /\ LogoutInv /\ HeldInv
  BY DEF Init, TypeOK, LogoutInv, HeldInv, Idle
<1>2. TypeOK /\ LogoutInv /\ HeldInv /\ [Next]_vars => TypeOK' /\ LogoutInv' /\ HeldInv'
  BY TypeStep, LogoutInvStep, HeldInvStep
<1>3. TypeOK /\ HeldInv => HeldUsable
  <2> SUFFICES ASSUME TypeOK, HeldInv, NEW l \in Answered \ (Revoked \cup Used),
                      now + MaxSkew < login[l].exp
               PROVE  now < expiry[l]
    BY DEF HeldUsable, Listed
  <2>1. l \in Logins /\ login[l].pc = "answered" /\ login[l] # Idle
    BY DEF Answered, Idle
  <2>2. login[l].exp <= expiry[l] + MaxSkew
    BY <2>1 DEF HeldInv
  <2>3. now \in Nat /\ expiry[l] \in Nat /\ MaxSkew \in Nat /\ login[l].exp \in Nat
    BY <2>1 DEF TypeOK, BoundsAssumption, LoginState
  <2> QED BY <2>2, <2>3
<1> QED BY <1>1, <1>2, <1>3, PTL DEF Spec

===============================================================================
