\* One book, three traders, three orders of one or two contracts at two prices.
SPECIFICATION Spec
CONSTANTS
  ContractUnit = 31
  FeeBps = 1000
  Users = {u1, u2, u3}
  Books = {b1}
  Outcomes = {yes}
  OrderIds = {1, 2, 3}
  Prices <- MCPrices
  Quantities = {1, 2}
  Funds <- MCFunds
  ExposureLimit = 93
  CloseBatch = 2
SYMMETRY Symmetry
INVARIANTS ReservationFollowsOrder EscrowBacksFills
INVARIANTS NoCrossedBook ExposureWithinLimit ExecutionWithinReservation
PROPERTY PriceTimePriority
