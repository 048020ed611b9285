SPECIFICATION FairSpec
CONSTANTS
  Markets = {m1, m2}
  PageLimit = 1
  MaxBuffered = 1
  SubscribeLimit = 1
  EventLimit = 2
  ConnectLimit = 2
INVARIANTS  SnapshotsCoverTheirSequence
PROPERTY SubscriberCatchesUp
CHECK_DEADLOCK FALSE
