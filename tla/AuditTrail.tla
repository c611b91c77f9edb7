------------------------------ MODULE AuditTrail ------------------------------
(***************************************************************************)
(* What the audit trail records of the requests to one API replica.  A      *)
(* change and its event are one transaction; a denial (403, or a login that *)
(* fails) rolls back, so its event is committed by a transaction of its     *)
(* own, on a second connection while the first is still held.               *)
(*                                                                         *)
(* Dependencies and handlers each borrow a thread of the framework's pool   *)
(* for as long as they run; the session keeps its connection between them,  *)
(* from its first statement to its end.  A thread that finds every          *)
(* connection taken waits for one, with a timeout.  get_db is closed on a   *)
(* thread outside of the pool.  Requests without a valid credential leave   *)
(* no event and are left out.                                              *)
(***************************************************************************)
EXTENDS Naturals, FiniteSets

CONSTANTS
  Requests,     \* bound: requests
  Kind,         \* request to "change", "forbidden" or "bad_login"
  Threads,      \* size of the pool of threads
  Connections   \* pool_size and max_overflow of the engine, together

BoundsAssumption ==
  /\ Kind \in [Requests -> {"change", "forbidden", "bad_login"}]
  /\ Threads \in Nat \ {0} /\ Connections \in Nat \ {0}

VARIABLES
  pc,       \* how far each request is
  effects,  \* requests whose change is committed
  events    \* audit_events: requests whose event is committed

vars == <<pc, effects, events>>

-----------------------------------------------------------------------------
(* The stages of a request.  "new" and "admitted" wait for a thread;        *)
(* "authenticating" and "denied" run on one and need a connection.          *)

Ended == {"ok", "denial", "error", "lost"}

OnThread == {"authenticating", "denied", "recording", "handling"}

Connected == {"admitted", "denied", "recording", "handling", "handled", "refused", "raised"}

Stage == {"idle", "new"} \cup OnThread \cup Connected \cup Ended

At(stages) == {r \in Requests : pc[r] \in stages}

ThreadFree == Cardinality(At(OnThread)) < Threads

\* A request that records its denial holds two.
ConnectionFree ==
  Cardinality(At(Connected)) + Cardinality(At({"recording"})) < Connections

Init ==
  /\ pc = [r \in Requests |-> "idle"]
  /\ effects = {}
  /\ events = {}

Move(r, from, to) ==
  /\ pc[r] = from
  /\ pc' = [pc EXCEPT ![r] = to]

Arrive(r) == Move(r, "idle", "new") /\ UNCHANGED <<effects, events>>

\* get_principal or, for a login, the handler.
Start(r) ==
  /\ Move(r, "new", "authenticating")
  /\ ThreadFree
  /\ UNCHANGED <<effects, events>>

\* The credentials are read: a login fails on the same thread, other requests
\* give their thread back before require_roles.
Authenticate(r) ==
  /\ Move(r, "authenticating", IF Kind[r] = "bad_login" THEN "denied" ELSE "admitted")
  /\ ConnectionFree
  /\ UNCHANGED <<effects, events>>

\* require_roles, and the handler if the principal has the role.
Authorize(r) ==
  /\ Move(r, "admitted", IF Kind[r] = "forbidden" THEN "denied" ELSE "handling")
  /\ ThreadFree
  /\ UNCHANGED <<effects, events>>

-----------------------------------------------------------------------------
(* record_event_committed.                                                 *)

Connect(r) ==
  /\ Move(r, "denied", "recording")
  /\ ConnectionFree
  /\ UNCHANGED <<effects, events>>

\* Mutant: the event is written with the session of the request.
RecordInSession(r) ==
  /\ Move(r, "recording", "refused")
  /\ UNCHANGED <<effects, events>>

Record(r) ==
  /\ Move(r, "recording", "refused")
  /\ events' = events \cup {r}
  /\ UNCHANGED effects

-----------------------------------------------------------------------------
(* The handler of a change, and the end of get_db.                         *)

Handle(r) == Move(r, "handling", "handled") /\ UNCHANGED <<effects, events>>

\* Commit, or roll back because an exception came through.
Close(r) ==
  \/ /\ Move(r, "handled", "ok")
     /\ effects' = effects \cup {r}
     /\ events' = events \cup {r}
  \/ /\ Move(r, "refused", "denial") \/ Move(r, "raised", "error")
     /\ UNCHANGED <<effects, events>>

\* Mutant: no timeout for the second connection.
TimeoutFirst(r) ==
  /\ Move(r, "authenticating", "error")
  /\ ~ConnectionFree
  /\ UNCHANGED <<effects, events>>

\* QueuePool gives up after pool_timeout.
Timeout(r) ==
  /\ Move(r, "authenticating", "error") \/ Move(r, "denied", "raised")
  /\ ~ConnectionFree
  /\ UNCHANGED <<effects, events>>

\* A statement or the commit fails.
DatabaseFails(r) ==
  /\ \/ Move(r, "authenticating", "raised") /\ ConnectionFree
     \/ \E stage \in {"recording", "handling"} : Move(r, stage, "raised")
     \/ Move(r, "handled", "error")
  /\ UNCHANGED <<effects, events>>

\* The replica dies with everything it was doing.
Crash ==
  /\ At(Stage \ ({"idle"} \cup Ended)) # {}
  /\ pc' = [r \in Requests |-> IF pc[r] \in {"idle"} \cup Ended THEN pc[r] ELSE "lost"]
  /\ UNCHANGED <<effects, events>>

Proceed(r) ==
  /\ pc[r] \notin {"idle"} \cup Ended
  /\ \/ Start(r) \/ Authenticate(r) \/ Authorize(r) \/ Connect(r) \/ Record(r)
     \/ Handle(r) \/ Close(r) \/ Timeout(r)

Next ==
  \/ \E r \in Requests : Arrive(r) \/ Proceed(r) \/ DatabaseFails(r)
  \/ Crash

Spec == Init /\ [][Next]_vars

\* Threads and the database go on, and a wait for a connection ends.
Fairness == \A r \in Requests : WF_vars(Proceed(r))

-----------------------------------------------------------------------------
(* Properties.                                                             *)

\* Every variable has the shape the stages give it.
TypeOK ==
  /\ pc \in [Requests -> Stage]
  /\ effects \subseteq Requests
  /\ events \subseteq Requests

\* The trail tells what happened: a denial that was answered is on it although
\* its request rolled back, and a change is on it exactly if it took effect.
AnswersAudited ==
  \A r \in Requests :
    /\ pc[r] = "denial" => r \in events
    /\ pc[r] = "ok" => r \in effects
    /\ r \in effects => pc[r] = "ok"
    /\ Kind[r] = "change" => (r \in events <=> r \in effects)

\* Every request is answered unless its replica dies, although requests hold
\* connections while they wait for threads, for second connections, or both.
EveryRequestEnds ==
  \A r \in Requests : pc[r] = "new" ~> pc[r] \in Ended

===============================================================================
