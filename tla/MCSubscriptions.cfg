CONSTANTS
  u1 = u1
  o1 = o1
  o2 = o2
  User = {u1}
  Order = {o1, o2}
  Owner <- MCOwner
  Duration <- MCDuration
  OtherAmount = {}
  Proc = {p1, p2}
  CheckoutTTL = 1
  MaxTime = 1
  MaxFaults = 1
SPECIFICATION Spec
SYMMETRY Symmetry
INVARIANTS TypeOK PaidNeverCancelled FullPeriod
PROPERTIES ImplementsPlusGrant
CHECK_DEADLOCK FALSE
