CONSTANTS
  Call = {c1, c2, c3}
  Backends = {"redis", "postgres", "sqlite", "mongo"}
  LeaseTtl = 1
  MaxAttempts = 1
  MaxTime = 2
  LockFault = {"crash", "release", "statement", "index"}
  NoRow = NoRow
SPECIFICATION LeaseSpec
INVARIANTS
  LeaseTypeOK
  ExclusiveUnlessOverrun
PROPERTIES
  LeaseIsRespected
  AbandonedLockIsTaken
CHECK_DEADLOCK FALSE
