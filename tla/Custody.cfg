\* Two deposits feed two withdrawals of any rail, two approvals at once, one restart.
SPECIFICATION CustodyFairSpec
CONSTANTS
  Owners = {o1}
  Ids = {w1, w2}
  Rails = {"swervpay", "manual_bep20", "synthetic"}
  Amounts = {2}
  Calls = {c1, c2}
  Keys = {k1, k2}
  MaxCrashes = 1
  Intents = {i1, i2}
  Targets = {1, 2}
  EventIds = {e1, e2}
 
PROPERTIES ImplementsPayouts PayoutsAreAnswered
CHECK_DEADLOCK FALSE
