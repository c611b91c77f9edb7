CONSTANTS
  r1 = r1
  r2 = r2
  p1 = p1
  p2 = p2
  Code <- Codes
  Reports <- Callbacks
  Party <- Adult
  Required <- Adult
  Calculated <- CalculatedCodes
  Verdict <- VerdictInForce
  Recomputers = {r1, r2}
  Reporters = {p1}
  MaxRecomputes = 3
  MaxReports = 2
  MaxChanges = 1
SPECIFICATION Spec
CHECK_DEADLOCK FALSE
INVARIANT
  DecisionReproducible
