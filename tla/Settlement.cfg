\* Three payouts, two batches, two attempts, one reorganisation, one faulty observer.
SPECIFICATION SettlementSpec
CONSTANTS
  First = o1
  Second = o2
  Recipients = {o1, o2}
  Batches = {1, 2}
  MaxItems = 3
  Payouts = {1, 2, 3}
  Owner <- MCOwner
  Amount <- MCAmount
  Redemptions <- MCRedemptions
  Observers = {n1, n2, n3}
  Faulty = {n3}
  Quorum = 2
  Confirmations = 2
  Collateral = 3
  TopUp = 1
  Supply = 4
  MaxRequests = 2
  MaxHeight = 3
  MaxReorgs = 1
  MaxDepth = 1
INVARIANTS Solvent NobodyOverpaid ReadyClaimsPay
CHECK_DEADLOCK FALSE
