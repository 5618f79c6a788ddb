CONSTANTS
  Call = {c1, c2, c3}
  Op <- ReadOps
  t1 = t1
  t2 = t2
  s1 = s1
  s2 = s2
  Title = {t1, t2}
  Signature = {s1, s2}
  SignatureOf <- MCSignatureOf
  MaxHistory = 2
  DefaultTtl = NoTtl
  MaxTime = 3
  ObjectResult = {}
  Fault = {"crash", "get", "read"}
  NoTtl = NoTtl
  Undefined = Undefined
  Snapshot <- NoSnapshot
  Backends = {"redis", "postgres", "sqlite", "mongo"}
  LeaseTtl = 1
  MaxAttempts = 1
  LockFault = {"crash", "release", "statement", "index"}
  NoRow = NoRow
SYMMETRY Symmetry
CONSTRAINT NoOverrun
SPECIFICATION SafeSpec
INVARIANTS
  SoundUnlessOverrun
CHECK_DEADLOCK FALSE
