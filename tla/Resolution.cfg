\* Both market types; capabilities overlap, so that every forbidden combination is tried.
SPECIFICATION FairSpec
CONSTANTS
  creator = creator
  p1 = p1
  p2 = p2
  r1 = r1
  r2 = r2
  r3 = r3
  fin = fin
  Accounts = {creator, p1, p2, r1, r2, r3, fin}
  Creator = creator
  Proposers = {creator, p1, p2, r2}
  Reviewers = {creator, p2, r1, r2, r3}
  Finalizers = {creator, p1, r1, fin}
  BondAsset = "NGN"
  Cutoff = 1
  EventAt = 2
  Deadline = 4
  ChallengeWindow = 1
  Timelock = 1
  PanelSize = 3
  Threshold = 2
  Bond = 3
  Funds <- MCFunds
  Horizon = 5
  Assets = {"NGN", "USDT"}
  MaxOrders = 1
  FillIds = {"f1", "f2"}
  FillOf <- MCFills
  MarketTypes = {"binary", "scalar"}
  Outcomes = {"short", "long"}
  Lower <- MCLower
  Upper = 1
  Results <- MCResults
  CloseBatch = 1
  RedeemBatch = 1
INVARIANTS  BondsFollowCase EscrowBacksClaims
 
CHECK_DEADLOCK FALSE
