------------------------------- MODULE Sessions -------------------------------
(***************************************************************************)
(* Sessions of dashboard users.  A login mints an access token and a        *)
(* refresh token, puts the identifier (jti) of the latter on an allowlist   *)
(* in Redis, where it expires, and answers.  A refresh takes a token that   *)
(* decodes at its replica and is on the allowlist; a logout removes it.     *)
(* The checks of a refresh and what it then does are separate steps.        *)
(*                                                                         *)
(* now is the time of Redis; the clock of a replica is ahead of it by       *)
(* MaxSkew at most.  Redis is taken to keep what it has acknowledged.       *)
(***************************************************************************)
EXTENDS Naturals

CONSTANTS
  Logins,     \* login requests; each stands for the refresh token it mints
  Refreshes,  \* bound: refresh requests
  Logouts,    \* bound: logout requests
  Sendable,   \* what clients send to log out: "refresh" token, "access" token, "empty"
  Life,       \* refresh_token_expire_minutes, in ticks
  MaxSkew,    \* how far the clocks of the replicas differ
  MaxTime     \* bound: ticks

BoundsAssumption ==
  /\ Sendable \subseteq {"refresh", "access", "empty"}
  /\ Life \in Nat \ {0} /\ MaxSkew \in Nat /\ MaxTime \in Nat

VARIABLES
  now,      \* the time
  login,    \* how far each login is, and when its token begins and ends
  expiry,   \* the allowlist: when the entry of each token expires, 0 without one
  refresh,  \* how far each refresh is, and its token
  logout    \* how far each logout is, its token, and did it delete an entry?

vars == <<now, login, expiry, refresh, logout>>

-----------------------------------------------------------------------------
Idle == [pc |-> "idle"]

LoginState == [pc : {"minted", "stored", "answered", "failed"}, iat : Nat, exp : Nat]

RefreshState == [pc : {"checked", "granted", "refused", "failed"}, token : Logins]

LogoutState == [pc : {"decoded", "revoked", "answered", "failed"}, token : Logins,
                deleted : BOOLEAN]

\* What the clock of a replica may show.
Clocks == now .. now + MaxSkew

\* Tokens a client holds.
Answered == {l \in Logins : login[l].pc = "answered"}

\* PyJWT refuses a token that is expired or, by this clock, not issued yet.
Decodes(l, clock) == login[l].iat <= clock /\ clock < login[l].exp

Listed(l) == now < expiry[l]

\* Tokens that a session was refreshed with.
Used == {refresh[r].token :
           r \in {r \in Refreshes : refresh[r] # Idle /\ refresh[r].pc = "granted"}}

Revoked == {logout[o].token : o \in {o \in Logouts : logout[o] # Idle /\ logout[o].deleted}}

Init ==
  /\ now = 0
  /\ login = [l \in Logins |-> Idle]
  /\ expiry = [l \in Logins |-> 0]
  /\ refresh = [r \in Refreshes |-> Idle]
  /\ logout = [o \in Logouts |-> Idle]

-----------------------------------------------------------------------------
(* login, after the rate limit and with the right password.                *)

Mint(l, clock) ==
  /\ login[l] = Idle
  /\ login' = [login EXCEPT
       ![l] = [pc |-> "minted", iat |-> clock, exp |-> clock + Life]]
  /\ UNCHANGED <<now, expiry, refresh, logout>>

LoginStep(l, from, to) ==
  /\ login[l].pc = from
  /\ login' = [login EXCEPT ![l].pc = to]

\* Mutant: the setting is in minutes and not multiplied by 60.
StoreJtiMinutes(l) ==
  /\ LoginStep(l, "minted", "stored")
  /\ expiry' = [expiry EXCEPT ![l] = now + (Life \div 60)]
  /\ UNCHANGED <<now, refresh, logout>>

StoreJti(l) ==
  /\ LoginStep(l, "minted", "stored")
  /\ expiry' = [expiry EXCEPT ![l] = now + Life]
  /\ UNCHANGED <<now, refresh, logout>>

Answer(l) ==
  /\ LoginStep(l, "stored", "answered")
  /\ UNCHANGED <<now, expiry, refresh, logout>>

\* Redis or the insertion of the audit event fails; the entry stays.
LoginFails(l) ==
  /\ LoginStep(l, "minted", "failed") \/ LoginStep(l, "stored", "failed")
  /\ UNCHANGED <<now, expiry, refresh, logout>>

-----------------------------------------------------------------------------
(* refresh.                                                                *)

Check(r, l, clock) ==
  /\ refresh[r] = Idle
  /\ l \in Answered
  /\ refresh' = [refresh EXCEPT
       ![r] = [pc |-> IF Decodes(l, clock) /\ Listed(l) THEN "checked" ELSE "refused",
               token |-> l]]
  /\ UNCHANGED <<now, login, expiry, logout>>

\* Mutant: a refresh extends the session.
IssueSliding(r) ==
  /\ refresh[r].pc = "checked"
  /\ refresh' = [refresh EXCEPT ![r].pc = "granted"]
  /\ expiry' = [expiry EXCEPT ![refresh[r].token] = now + Life]
  /\ UNCHANGED <<now, login, logout>>

\* The user is still active: a new access token with the roles of now.
Issue(r) ==
  /\ refresh[r].pc = "checked"
  /\ refresh' = [refresh EXCEPT ![r].pc = "granted"]
  /\ UNCHANGED <<now, login, expiry, logout>>

\* The user was deactivated, which only an operator of the database does, or
\* the database failed.
NotIssued(r) ==
  /\ refresh[r].pc = "checked"
  /\ \E pc \in {"refused", "failed"} : refresh' = [refresh EXCEPT ![r].pc = pc]
  /\ UNCHANGED <<now, login, expiry, logout>>

-----------------------------------------------------------------------------
(* logout, by a client that holds the tokens of a login.                   *)

\* What does not decode is answered at once, and the jti of an access token
\* is on no list.
Receive(o, l, sent, clock) ==
  /\ logout[o] = Idle
  /\ l \in Answered
  /\ logout' = [logout EXCEPT
       ![o] = [pc |-> IF sent = "refresh" /\ Decodes(l, clock) THEN "decoded"
                                                               ELSE "answered",
               token |-> l, deleted |-> FALSE]]
  /\ UNCHANGED <<now, login, expiry, refresh>>

Revoke(o) ==
  /\ logout[o].pc = "decoded"
  /\ logout' = [logout EXCEPT ![o].pc = "revoked", ![o].deleted = TRUE]
  /\ expiry' = [expiry EXCEPT ![logout[o].token] = 0]
  /\ UNCHANGED <<now, login, refresh>>

\* Redis fails before the deletion, or the audit event after it; or all is well.
LogoutEnds(o) ==
  /\ \/ /\ logout[o].pc = "revoked"
        /\ \E pc \in {"answered", "failed"} : logout' = [logout EXCEPT ![o].pc = pc]
     \/ /\ logout[o].pc = "decoded"
        /\ logout' = [logout EXCEPT ![o].pc = "failed"]
  /\ UNCHANGED <<now, login, expiry, refresh>>

-----------------------------------------------------------------------------
Tick ==
  /\ now < MaxTime
  /\ now' = now + 1
  /\ UNCHANGED <<login, expiry, refresh, logout>>

Next ==
  \/ \E l \in Logins :
       \/ \E clock \in Clocks : Mint(l, clock)
       \/ StoreJti(l) \/ Answer(l) \/ LoginFails(l)
  \/ \E r \in Refreshes :
       \/ \E l \in Logins : \E clock \in Clocks : Check(r, l, clock)
       \/ Issue(r) \/ NotIssued(r)
  \/ \E o \in Logouts :
       \/ \E l \in Logins : \E sent \in Sendable : \E clock \in Clocks :
            Receive(o, l, sent, clock)
       \/ Revoke(o) \/ LogoutEnds(o)
  \/ Tick

Spec == Init /\ [][Next]_vars

-----------------------------------------------------------------------------
(* Properties.                                                             *)

\* Every variable has the shape the tokens and the requests give it.
TypeOK ==
  /\ now \in Nat
  /\ login \in [Logins -> {Idle} \cup LoginState]
  /\ expiry \in [Logins -> Nat]
  /\ refresh \in [Refreshes -> {Idle} \cup RefreshState]
  /\ logout \in [Logouts -> {Idle} \cup LogoutState]

\* Once a logout has deleted the token's entry, no refresh with it passes the
\* checks again, whatever refreshes and logouts of it are in progress.
LogoutHolds ==
  [][\A r \in Refreshes :
       refresh[r] = Idle /\ refresh'[r] # Idle /\ refresh'[r].pc = "checked"
         => refresh'[r].token \notin Revoked]_vars

\* A session is not forgotten early: a token that its client holds, that was
\* neither used nor logged out and has more than the skew of the clocks to live
\* is on the list, although the list counts from the store and the token from
\* its minting.
HeldUsable ==
  \A l \in Answered \ (Revoked \cup Used) :
    now + MaxSkew < login[l].exp => Listed(l)

\* What the documents say of the end of a refresh token: tokens rotate and
\* "cannot be reused", and a logout revokes them.  So at the latest a token that
\* was used, and whose client was then told that it is logged out, is of no use.
TokenEnds ==
  \A o \in Logouts :
    logout[o].pc = "answered" /\ logout[o].token \in Used => ~Listed(logout[o].token)

===============================================================================
