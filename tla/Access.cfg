CONSTANTS
  k1 = k1
  k2 = k2
  u1 = u1
  i1 = i1
  i2 = i2
  q1 = q1
  q2 = q2
  q3 = q3
  a1 = a1
  a2 = a2
  NoKey = NoKey
  NoCase = NoCase
  ApiKeys = {k1, k2}
  Users = {u1}
  IdemKeys = {i1, i2}
  Requests = {q1, q2, q3}
  Admins = {a1, a2}
  Notice = {v1, v2}
  Group <- OneGroup
  Slot <- OwnSlots
  Editors = {e1}
  Recorders = {r1, r2}
  Submitters = {s1}
  MaxChanges = 4
  MaxReceipts = 4
  Logins = {l1}
  Refreshes = {f1, f2}
  Logouts = {o1, o2}
  Sendable = {"refresh", "access", "empty"}
  Life = 2
  MaxSkew = 1
  Calls = {1, 2, 3, 4, 5}
  Limit = 2
  Window = 2
  MaxTime = 4
  Updaters = {p1, p2, p3}
  NoUser = NoUser
  MaxUpdates = 4
SPECIFICATION AccessSpec
SYMMETRY Symmetry
CHECK_DEADLOCK FALSE
INVARIANTS
  TypesOK
  OneCasePerKey
  AnswersHold
  ConflictNeedsTwoCredentials
  ExclusiveActivation
  WithdrawalStands
  SubmittedWithReceipts
  HeldUsable
  WindowEnds
  BurstBound
  ErasureApproved
PROPERTIES
  RevokedForGood
  LogoutHolds
