SPECIFICATION StreamSpec
CONSTANTS
  None = None
  c1 = c1 c2 = c2 g1 = g1 g2 = g2 r1 = r1
  Calls = {c1, c2}
  Goroutines = {g1, g2}
  CallOf <- MCCallOf
  RunIDs = {r1}
  RunOf <- MCRunOf
  MaxEmits = 1
  StreamBuffer = 2
  Patient = {k1}
  Hasty = {k2}
INVARIANTS NothingMissed CallOrder
PROPERTIES IsStreamFeed RunNeverWaits
