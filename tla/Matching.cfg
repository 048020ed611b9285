\* Every book of three resting orders, every incoming order.
SPECIFICATION Spec
CONSTANTS
  ContractUnit = 31
  FeeBps = 1000
  Ids = {1, 2, 3}
  Prices <- MCPrices
  Quantities = {1, 2, 5}
INVARIANT LoopComputesMatch
CHECK_DEADLOCK FALSE
