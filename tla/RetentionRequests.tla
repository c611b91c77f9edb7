--------------------------- MODULE RetentionRequests ---------------------------
(***************************************************************************)
(* One retention or erasure request: created by a user or a client, decided *)
(* and completed by administrators.  An update loads the row, checks the    *)
(* transition table, and flushes the columns it has changed, which locks    *)
(* the row to the commit; the load locks nothing.  Each commit also inserts *)
(* an audit event.                                                         *)
(***************************************************************************)
EXTENDS Naturals, Sequences

CONSTANTS
  Updaters,    \* requests of administrators in progress; each has its own user
  NoUser,      \* NULL
  MaxUpdates   \* bound: updates committed

BoundsAssumption == NoUser \notin Updaters /\ MaxUpdates \in Nat

VARIABLES
  row,     \* the row of retention_requests, as committed
  update,  \* what each update has loaded and is to write
  trail    \* the audit events retention_request.<state>, in order of commit

vars == <<row, update, trail>>

-----------------------------------------------------------------------------
State == {"requested", "approved", "rejected", "completed"}

Transitions(state) ==
  CASE state = "requested" -> {"approved", "rejected"}
    [] state = "approved" -> {"completed"}
    [] OTHER -> {}

Final == {state \in State : Transitions(state) = {}}

Row == [state : State \cup {"absent"}, approved_by : Updaters \cup {NoUser},
        completed : BOOLEAN]

Idle == [pc |-> "idle"]

Update == [pc : {"loaded", "flushed"}, new : State]

Event == [state : State, by : Updaters]

Init ==
  /\ row = [state |-> "absent", approved_by |-> NoUser, completed |-> FALSE]
  /\ update = [u \in Updaters |-> Idle]
  /\ trail = <<>>

\* create_request, up to its commit.
Create ==
  /\ row.state = "absent"
  /\ row' = [row EXCEPT !.state = "requested"]
  /\ UNCHANGED <<update, trail>>

-----------------------------------------------------------------------------
(* update_state.                                                           *)

\* Mutant: the transition is not checked.
LoadUnchecked(u, new) ==
  /\ update[u] = Idle
  /\ row.state # "absent"
  /\ new # row.state
  /\ update' = [update EXCEPT ![u] = [pc |-> "loaded", new |-> new]]
  /\ UNCHANGED <<row, trail>>

\* A transition that the table does not have is answered with a conflict.
Load(u, new) ==
  /\ update[u] = Idle
  /\ row.state # "absent"
  /\ new \in Transitions(row.state)
  /\ update' = [update EXCEPT ![u] = [pc |-> "loaded", new |-> new]]
  /\ UNCHANGED <<row, trail>>

RowLocked == \E u \in Updaters : update[u].pc = "flushed"

Flush(u) ==
  /\ update[u].pc = "loaded"
  /\ ~RowLocked
  /\ update' = [update EXCEPT ![u].pc = "flushed"]
  /\ UNCHANGED <<row, trail>>

\* The columns set by update_state; the others stay as they are by now.
Written(u) ==
  [row EXCEPT
     !.state = update[u].new,
     !.approved_by = IF update[u].new = "approved" THEN u ELSE @,
     !.completed = @ \/ update[u].new = "completed"]

Commit(u) ==
  /\ update[u].pc = "flushed"
  /\ Len(trail) < MaxUpdates
  /\ row' = Written(u)
  /\ trail' = Append(trail, [state |-> update[u].new, by |-> u])
  /\ update' = [update EXCEPT ![u] = Idle]

Rollback(u) ==
  /\ update[u].pc \in {"loaded", "flushed"}
  /\ update' = [update EXCEPT ![u] = Idle]
  /\ UNCHANGED <<row, trail>>

Next ==
  \/ Create
  \/ \E u \in Updaters :
       \/ \E new \in State : Load(u, new)
       \/ Flush(u) \/ Commit(u) \/ Rollback(u)

Spec == Init /\ [][Next]_vars

-----------------------------------------------------------------------------
(* Properties.                                                             *)

\* Every variable has the shape the table and the requests give it.
TypeOK ==
  /\ row \in Row
  /\ update \in [Updaters -> {Idle} \cup Update]
  /\ trail \in Seq(Event)

\* Nothing is erased without an approval: a request that has a time of
\* completion names an administrator whose approval is on the audit trail,
\* however approvals, rejections and completions overlap.
ErasureApproved ==
  row.completed =>
    \E i \in DOMAIN trail :
      trail[i] = [state |-> "approved", by |-> row.approved_by]

\* What is rejected or completed stays so: no update commits after it.  One
\* administrator at a time keeps to that; two that overlap may not.
FinalStays ==
  \A i \in DOMAIN trail : i < Len(trail) => trail[i].state \notin Final

===============================================================================
