\* Two AMM markets, or one with requests for quotes, or one with both.
SPECIFICATION LiquiditySpec
CONSTANTS
  m1 = m1
  m2 = m2
  u1 = u1
  u2 = u2
  e1 = e1
  e2 = e2
  ContractUnit = 31
  FeeBps = 1000
  Users = {u1, u2}
  Markets = {m1, m2}
  Outcomes = {"yes"}
  Results = {"yes", "cancelled"}
  Programs <- MCPrograms
  Cutoff = 2
  Funds <- MCFunds
  Sizes = {1}
  Connections = {c1, c2}
  Horizon = 2
  Pools <- MCPools
  Limits <- MCLimits
  Impacts = {1000}
  Fundings = {20}
  References <- MCReferences
  LimitPrices = {400000, 600000}
  QuoteLife = 2
  MaxReferences = 1
  MaxAmmQuotes = 2
  Entities = {e1, e2}
  ExposureLimit <- MCExposure
  Requesters <- MCRequesters
  Dealers <- MCDealers
  RequestSides = {"sell"}
  RfqPrices = {400000}
  Expiries = {1, 2}
  DealerLife = 1
  MaxRequests = 2
  MaxRfqQuotes = 2
  RedeemBatch = 1
  MaxRows <- MCMaxRows
SYMMETRY Symmetry
INVARIANTS LossWithinLimits LedgerFollowsPositions
INVARIANTS EntityExposureWithinLimit
 
CHECK_DEADLOCK FALSE
