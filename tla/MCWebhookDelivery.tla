-------------------------- MODULE MCWebhookDelivery --------------------------
(* Small instances of WebhookDelivery: every event is subscribed to by every *)
(* endpoint ("*"), so the fan-out is as wide as the instance allows.         *)
EXTENDS WebhookDelivery, TLC

CONSTANTS e1, t1, p1, p2, w1, w2, r1, r2

SubscribedToAll == [e \in Events |-> Endpoints]

Symmetry ==
  Permutations(Workers) \cup Permutations(Replayers) \cup Permutations(Endpoints)

==============================================================================
