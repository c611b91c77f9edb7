CONSTANTS
  e1 = e1
  t1 = t1
  p1 = p1
  p2 = p2
  w1 = w1
  w2 = w2
  r1 = r1
  r2 = r2
  Events = {e1}
  TestEvents = {t1}
  Endpoints = {p1, p2}
  Subscribed <- SubscribedToAll
  Workers = {w1, w2}
  Replayers = {r1}
  MaxAttempts = 2
  MaxReplays = 1
  MaxCrashes = 0
  LateCommits = FALSE
SPECIFICATION FairSpec
CHECK_DEADLOCK FALSE
INVARIANTS
  OneCarrier
  AttemptBound
PROPERTIES
  DeliveredIsFinal
  EventuallySettled
  ContractKept
