CONSTANTS
  c1 = c1
  e1 = e1
  e2 = e2
  Creator = {c1}
  Earning = {e1, e2}
  Month <- MCMonth
  PoolMonth <- MCPoolMonth
  Payee <- MCPayee
  Withdrawal = {w1}
  Requester <- MCRequester
  Amount = {2}
  Minimum = 1
  Proc = {p1, p2}
  MaxBatches = 1
  MaxFaults = 1
SPECIFICATION Spec
SYMMETRY Symmetry
INVARIANTS TypeOK ClaimIsExclusive TransferIsDebited FailedIsRefunded
PROPERTIES PaidIsFinal ImplementsEarningPayment
CHECK_DEADLOCK FALSE
