CONSTANTS
  v1 = v1
  v2 = v2
  a1 = a1
  a2 = a2
  r1 = r1
  r2 = r2
  s1 = s1
  Notice = {v1, v2}
  Group <- OneGroup
  Slot <- OwnSlots
  Admins = {a1, a2}
  Recorders = {}
  Submitters = {}
  MaxChanges = 4
  MaxReceipts = 0
SPECIFICATION Spec
SYMMETRY Symmetry
CHECK_DEADLOCK FALSE
INVARIANT
  ExclusiveActivation
