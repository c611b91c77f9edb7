--------------------------- MODULE DeliveryContract ---------------------------
(***************************************************************************)
(* What a webhook delivery promises its tenant, whatever the workers,      *)
(* queues and transactions underneath.  The deliveries of an event appear  *)
(* together; an open one stays open until the receiver has acknowledged it *)
(* or it is given up; delivered is final, and only an operator reopens a   *)
(* delivery that was given up.  A reopened delivery may be raced: its next *)
(* attempt began while it was still shown as failed, and if the receiver   *)
(* does not acknowledge that one, no other follows.                        *)
(***************************************************************************)
CONSTANTS Delivery,     \* ids of the deliveries
          Batches       \* sets of deliveries that may appear together

VARIABLES state,   \* state[d] \in State
          acked    \* has the receiver acknowledged d?

State == {"none", "open", "raced", "delivered", "failed"}

vars == <<state, acked>>

Init == /\ state = [d \in Delivery |-> "none"]
        /\ acked = [d \in Delivery |-> FALSE]

Publish(B) ==
  /\ \A d \in B : state[d] = "none"
  /\ state' = [d \in Delivery |-> IF d \in B THEN "open" ELSE state[d]]
  /\ UNCHANGED acked

\* The attempt that races the reopening is acknowledged before it or after.
Acknowledge(d) ==
  /\ state[d] \in {"open", "raced", "failed"}
  /\ acked' = [acked EXCEPT ![d] = TRUE]
  /\ UNCHANGED state

Deliver(d) ==
  /\ state[d] \in {"open", "raced"}
  /\ acked[d]
  /\ state' = [state EXCEPT ![d] = "delivered"]
  /\ UNCHANGED acked

GiveUp(d) ==
  /\ state[d] = "open"
  /\ state' = [state EXCEPT ![d] = "failed"]
  /\ UNCHANGED acked

Reopen(B, raced) ==
  /\ B # {}
  /\ \A d \in B : state[d] = "failed"
  /\ state' = [d \in Delivery |-> CASE d \in B \ raced -> "open"
                                   [] d \in B \cap raced -> "raced"
                                   [] d \notin B -> state[d]]
  /\ UNCHANGED acked

Settle(d) == Deliver(d) \/ GiveUp(d)

Next ==
  \/ \E B \in Batches : Publish(B)
  \/ \E B, raced \in SUBSET Delivery : Reopen(B, raced)
  \/ \E d \in Delivery : Acknowledge(d) \/ Settle(d)

\* An open delivery does not stay open for ever, nor one that is acknowledged.
Spec == Init /\ [][Next]_vars /\ \A d \in Delivery : WF_vars(Settle(d))

SafetySpec == Init /\ [][Next]_vars

===============================================================================
