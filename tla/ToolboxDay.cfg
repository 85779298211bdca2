CONSTANTS
  Sigs = {s1, s2}
  Punches = {p1}
  Tabs = {t1, t2}
  DayLen = 2
  MaxAhead = 1
  End = 2
SPECIFICATION Spec
SYMMETRY Alike
VIEW Matters
INVARIANTS TypeOK OwnDayOnly
PROPERTIES GateStaysOpen ConfirmationIsNewest FollowerIsNotSpent
CHECK_DEADLOCK FALSE
