CONSTANTS
  People = {ana, ben}
  Openings = {o1, o2}
  Field = Field
  Nothing = Nothing
  Calls = {h1, h2}
  MaxNeeded = 2
  MaxActs = 4
SPECIFICATION Spec
SYMMETRY Alike
VIEW Matters
INVARIANTS TypeOK OneThingAtATime SeatsMatchStatus PointsFollowSeats
PROPERTIES OffTheClock BreakGivesBack EndedCallStopsItsOwn
CHECK_DEADLOCK FALSE
