CONSTANTS
  u1 = u1
  o1 = o1
  o2 = o2
  User = {u1}
  Order = {o1}
  Owner <- MCOwner
  Duration <- MCDuration
  OtherAmount = {o1}
  Proc = {p1, p2}
  CheckoutTTL = 1
  MaxTime = 1
  MaxFaults = 1
SPECIFICATION FairSpec
PROPERTIES PaidIsHonoured
CHECK_DEADLOCK FALSE
