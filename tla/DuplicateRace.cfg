CONSTANTS
  scan = scan
  copy = copy
  pdf = pdf
  Document = {scan, copy, pdf}
  File <- Files
  Owner <- Owners
  Image = {scan, copy}
  Handlers = {h1, h2}
  Workers = {w1, w2}
  MaxFaults = 2
  s1 = s1
  s2 = s2
  d1 = d1
  d2 = d2
  p1 = p1
  p2 = p2
  b1 = b1
  b2 = b2
  b3 = b3
  b4 = b4
  b5 = b5
  b6 = b6
  Steps = {s1, s2}
  Reports = {b1, b2, b3, b4, b5, b6}
  Content <- Contents
  Deliveries = {d1, d2}
  Replicas = {p1, p2}
  Home <- Spread
  MaxSignals = 4
  change1 = change1
  forbidden1 = forbidden1
  forbidden2 = forbidden2
  login1 = login1
  Requests = {change1, forbidden1, forbidden2, login1}
  Kind <- Kinds
  Threads = 2
  Connections = 2
SPECIFICATION EvidenceSpec
CHECK_DEADLOCK FALSE
INVARIANT
  CopiesDetected
