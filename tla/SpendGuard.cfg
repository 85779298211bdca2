CONSTANTS
  Calls = {c1, c2, c3}
  Users = {u1}
  NoUser = NoUser
  Limits = {0, 1}
  Caps = {0, 3}
  Multiplier = 2
  Estimate = 2
  Costs = {3}
  MaxMonth = 2
  MaxRaises = 1
  MaxLost = 1
SPECIFICATION Spec
SYMMETRY Alike
INVARIANTS TypeOK BookedIsTheSum QuotaHolds ToldOnce
PROPERTY KeepsAccount
CHECK_DEADLOCK FALSE
