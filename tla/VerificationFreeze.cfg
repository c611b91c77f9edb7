CONSTANTS
  s1 = s1
  s2 = s2
  d1 = d1
  d2 = d2
  p1 = p1
  b1 = b1
  b2 = b2
  b3 = b3
  b4 = b4
  b5 = b5
  b6 = b6
  Steps = {s1, s2}
  Reports = {b1, b2, b3, b4, b5, b6}
  Content <- Contents
  Deliveries = {d1, d2}
  Replicas = {p1}
  Home <- Together
SPECIFICATION FairSpec
CHECK_DEADLOCK FALSE
PROPERTY
  Answered
