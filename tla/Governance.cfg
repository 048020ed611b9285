\* Two drafts, a proposal and an image, two versions, two transactions at a time.
SPECIFICATION Spec
CONSTANTS
  Accounts = {"cy", "ada", "ben", "chi", "dan"}
  Roles <- MCRoles
  Markets = {"m1", "m2"}
  Proposals = {"p1"}
  Images = {"i1"}
  Owner <- MCOwner
  Terms <- MCTerms
  Entries = {"tpl", "NG"}
  Connections = {"k1", "k2"}
  None = None
  Scopes <- MCScopes
  MaxVersion = 2
  MaxClock = 1
INVARIANTS PublishedAsReviewed ImagesKept
PROPERTY PublishedUnderPolicy
CHECK_DEADLOCK FALSE
