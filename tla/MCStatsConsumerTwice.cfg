CONSTANTS
  u1 = u1
  d1 = d1
  d2 = d2
  Users = {u1}
  Decks = {d1, d2}
  Days = {1}
  Events <- MCDeletion
  Procs = {p1, p2}
  MaxDeliveries = 6
  MaxFaults = 1
SPECIFICATION Spec
SYMMETRY Symmetry
INVARIANTS DeletionSubtractsOnce
CHECK_DEADLOCK FALSE
