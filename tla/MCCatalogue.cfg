CONSTANTS
  d1 = d1
  d2 = d2
  u1 = u1
  u2 = u2
  Decks = {d1, d2}
  Cards = {c1, c2}
  Users = {u1, u2}
  Owner <- MCOwner
  Anonymous = Anonymous
  NoDocument = NoDocument
  Deletes = {r1, r2}
  Clones = {k1}
  NoDeck = NoDeck
  NoCard = NoCard
  MaxOps = 5
  MaxFaults = 1
SPECIFICATION Spec
SYMMETRY Symmetry
INVARIANTS TypeOK CountIsExact DeletedStaysHidden ShownWasPublic
CHECK_DEADLOCK FALSE
