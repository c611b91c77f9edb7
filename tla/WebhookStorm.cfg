CONSTANTS
  e1 = e1
  t1 = t1
  p1 = p1
  p2 = p2
  w1 = w1
  w2 = w2
  r1 = r1
  r2 = r2
  Events = {e1}
  TestEvents = {}
  Endpoints = {p1, p2}
  Subscribed <- SubscribedToAll
  Workers = {w1, w2}
  Replayers = {r1, r2}
  MaxAttempts = 2
  MaxReplays = 2
  MaxCrashes = 1
  LateCommits = TRUE
SPECIFICATION Spec
SYMMETRY Symmetry
CHECK_DEADLOCK FALSE
INVARIANTS
  TypeOK
  DeliveredIsAcked
  NoPhantomDelivery
  AttemptsAccounted
