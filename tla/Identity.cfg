\* Two accounts, two requests at a time; an hour is three ticks, a code lives for two.
SPECIFICATION Spec
CONSTANTS
  Accounts = {"a1", "a2"}
  Requests = {r1, r2}
  None = None
  CodeLife = 2
  MaxAttempts = 2
  MaxClock = 2
  MaxCrashes = 1
  Holder = "a1"
  MaxFailures = 2
  LockTime = 1
  MaxChallenges = 2
  MaxSessions = 2
  SendLimit = 2
  CheckLimit = 1
  SendLimitIp = 2
  CheckLimitIp = 2
  Window = 3
  Cooldown = 1
  Claimant = "a1"
  Inquiries = {"q1", "q2"}
  Events <- MCEvents
SYMMETRY RequestSymmetry
INVARIANTS SessionsUnderCurrentPassword ChangedOncePerChallenge 
PROPERTY VerifiedStands
CHECK_DEADLOCK FALSE
