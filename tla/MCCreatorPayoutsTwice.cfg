CONSTANTS
  c1 = c1
  e1 = e1
  e2 = e2
  Creator = {c1}
  Earning = {e1}
  Month <- MCMonth
  PoolMonth <- MCPoolMonth
  Payee <- MCPayee
  Withdrawal = {}
  Requester <- MCRequester
  Amount = {2}
  Minimum = 1
  Proc = {p1, p2}
  MaxBatches = 1
  MaxFaults = 1
SPECIFICATION Spec
SYMMETRY Symmetry
INVARIANTS DisbursedOnce
CHECK_DEADLOCK FALSE
