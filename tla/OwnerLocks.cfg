SPECIFICATION FairLocksSpec
CONSTANTS
  Transactions = {t1, t2}
  Owners = {1, 2, 3}
  Books = {b1, b2}
  Fillings = 2
INVARIANTS DeadlocksSpanBooks
PROPERTY EveryCommandEnds
CHECK_DEADLOCK FALSE
