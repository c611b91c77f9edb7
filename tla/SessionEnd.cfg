CONSTANTS
  Logins = {l1}
  Refreshes = {f1}
  Logouts = {o1}
  Sendable = {"empty"}
  Life = 2
  MaxSkew = 0
  MaxTime = 4
SPECIFICATION Spec
CHECK_DEADLOCK FALSE
INVARIANT
  TokenEnds
