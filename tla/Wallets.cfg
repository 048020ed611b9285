\* Two requests race for one transfer, two customers for one inventory.
SPECIFICATION Spec
CONSTANTS
  Owners = {o1, o2}
  Addresses = {a1}
  Receiver = a1
  Transfers = {"t"}
  Recipient <- MCRecipient
  Amount <- MCAmount
  MinimumAmount = 2
  Confirmations = 3
  Sessions = {s1, s2}
  HeadLimit = 4
  MaxReorgs = 1
  MaxDepth = 3
  Customers = {o1, o2}
  Opening <- MCOpening
  Terms <- MCTerms
  Expiries = {1, 2}
  RateLimit = 2
  Quotes = {q1, q2}
  SourceMinor <- MCSourceMinor
  Acceptances = {x1, x2}
  QuoteLife = 1
  Fundings = {1}
  SpendLimit = 1
  FundingLimit = 1
  ClockLimit = 2
SYMMETRY Symmetry
INVARIANTS CreditedOnceToRecipient ContradictedCreditIsReported WalletsAddUp NobodyGainsByConverting
CHECK_DEADLOCK FALSE
