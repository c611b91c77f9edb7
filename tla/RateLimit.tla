------------------------------- MODULE RateLimit -------------------------------
(***************************************************************************)
(* enforce_rate_limit for one key, an address with an e-mail: a counter in  *)
(* Redis that the calls of all replicas increment.  The call that finds 1   *)
(* sets the expiry in a second command; a process may die between the two.  *)
(***************************************************************************)
EXTENDS Naturals, FiniteSets

CONSTANTS
  Calls,    \* bound: calls with this key
  Limit,    \* rate_limit_auth_per_minute
  Window,   \* window_seconds, in ticks
  MaxTime   \* bound: ticks

BoundsAssumption == Limit \in Nat \ {0} /\ Window \in Nat \ {0} /\ MaxTime \in Nat

VARIABLES
  now,      \* the time of Redis
  counter,  \* the value of the key, 0 if there is none
  expires,  \* when Redis deletes it, Never if no expiry is set
  call      \* how far each call is, what INCR returned to it, and when

vars == <<now, counter, expires, call>>

-----------------------------------------------------------------------------
Never == 0

Idle == [pc |-> "idle"]

CallState == [pc : {"counted", "dated", "admitted", "refused", "dead"},
              current : Nat, at : Nat]

\* The value that a command sees now.
Live == IF expires # Never /\ expires <= now THEN 0 ELSE counter

Init ==
  /\ now = 0
  /\ counter = 0
  /\ expires = Never
  /\ call = [c \in Calls |-> Idle]

\* INCR creates a key without an expiry, and keeps that of an existing one.
Incr(c) ==
  /\ call[c] = Idle
  /\ counter' = Live + 1
  /\ expires' = IF Live = 0 THEN Never ELSE expires
  /\ call' = [call EXCEPT ![c] = [pc |-> "counted", current |-> Live + 1, at |-> now]]
  /\ UNCHANGED now

\* Mutant: the window is one tick short.
ExpireShort(c) ==
  /\ call[c].pc = "counted"
  /\ call[c].current = 1
  /\ expires' = now + (Window - 1)
  /\ call' = [call EXCEPT ![c].pc = "dated"]
  /\ UNCHANGED <<now, counter>>

Expire(c) ==
  /\ call[c].pc = "counted"
  /\ call[c].current = 1
  /\ expires' = now + Window
  /\ call' = [call EXCEPT ![c].pc = "dated"]
  /\ UNCHANGED <<now, counter>>

\* Mutant: a call within the limit returns before it sets the expiry.
DecideFirst(c) ==
  /\ call[c].pc \in {"counted", "dated"}
  /\ call' = [call EXCEPT
       ![c].pc = IF call[c].current > Limit THEN "refused" ELSE "admitted"]
  /\ UNCHANGED <<now, counter, expires>>

Decide(c) ==
  /\ \/ call[c].pc = "dated"
     \/ call[c].pc = "counted" /\ call[c].current # 1
  /\ call' = [call EXCEPT
       ![c].pc = IF call[c].current > Limit THEN "refused" ELSE "admitted"]
  /\ UNCHANGED <<now, counter, expires>>

\* The process dies or loses Redis.
Die(c) ==
  /\ call[c].pc \in {"counted", "dated"}
  /\ call' = [call EXCEPT ![c].pc = "dead"]
  /\ UNCHANGED <<now, counter, expires>>

Tick ==
  /\ now < MaxTime
  /\ now' = now + 1
  /\ UNCHANGED <<counter, expires, call>>

Next ==
  \/ \E c \in Calls : Incr(c) \/ Expire(c) \/ Decide(c) \/ Die(c)
  \/ Tick

Spec == Init /\ [][Next]_vars

-----------------------------------------------------------------------------
(* Properties.                                                             *)

\* Every variable has the shape Redis and the calls give it.
TypeOK ==
  /\ now \in Nat
  /\ counter \in Nat
  /\ expires \in Nat
  /\ call \in [Calls -> {Idle} \cup CallState]

\* A window ends: a counter has an expiry, except while the call that created
\* it has yet to set it, or for ever if that very call died before it could.
WindowEnds ==
  counter > 0 /\ expires = Never =>
    \E c \in Calls : /\ call[c].pc \in {"counted", "dead"}
                     /\ call[c].current = 1

\* The limit holds up to a factor: a window lasts as long as it should or, if
\* EXPIRE comes late, longer, so any stretch of its length meets two of them,
\* and not the first call of the earlier one.
BurstBound ==
  \A t \in 0 .. now :
    Cardinality({c \in Calls : /\ call[c].pc = "admitted"
                               /\ call[c].at \in t .. t + Window - 1}) <= 2 * Limit - 1

===============================================================================
