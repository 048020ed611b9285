\* Two server processes, one restart, one deposit that expires.
SPECIFICATION FairCollectSpec
CONSTANTS
  IntentLimit = 2
  Minimum = 2
  Amounts = {1, 2, 3}
  Transactions = {t1, t2}
  EventLimit = 2
  Workers = {p1, p2}
  PageLimit = 2
  Expiring = {1}
  MaxCrashes = 1
INVARIANTS AskedAtMostOnce CreditsAreReceived
PROPERTY RequestsAreAnswered
CHECK_DEADLOCK FALSE
