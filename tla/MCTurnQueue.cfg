SPECIFICATION AllSpec
CONSTANTS
  x1 = x1
  x2 = x2
  None = None
  Users = {u1, u2}
  Deliveries = {d1}
  NoRow = NoRow
  MaxCrashes = 1
  MaxStops = 1
  MaxMoves = 1
  MaxForces = 1
SYMMETRY Symmetry
CHECK_DEADLOCK FALSE
INVARIANTS TypeOK OneHome SentOnce JournalExact HistoryWhole
PROPERTIES HoldHonoured
