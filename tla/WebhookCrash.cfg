CONSTANTS
  e1 = e1
  t1 = t1
  p1 = p1
  p2 = p2
  w1 = w1
  w2 = w2
  r1 = r1
  r2 = r2
  Events = {e1}
  TestEvents = {t1}
  Endpoints = {p1}
  Subscribed <- SubscribedToAll
  Workers = {w1, w2}
  Replayers = {r1}
  MaxAttempts = 2
  MaxReplays = 0
  MaxCrashes = 1
  LateCommits = FALSE
SPECIFICATION Spec
CHECK_DEADLOCK FALSE
INVARIANT
  NothingStranded
