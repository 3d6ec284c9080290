CONSTANTS
  u1 = u1
  d1 = d1
  d2 = d2
  Users = {u1}
  Decks = {d1}
  Days = {1, 2, 3}
  Events <- MCEvents
  Procs = {p1, p2}
  MaxDeliveries = 4
  MaxFaults = 1
SPECIFICATION Spec
SYMMETRY Symmetry
INVARIANTS TypeOK StreakIsEarned BucketsCoverCards AcknowledgedIsCounted
CHECK_DEADLOCK FALSE
