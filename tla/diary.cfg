CONSTANTS
  Call = {c1, c2, c3}
  Op <- AllOps
  t1 = t1
  t1b = t1b
  t2 = t2
  t3 = t3
  s1 = s1
  s2 = s2
  s3 = s3
  Title = {t1, t1b, t2, t3}
  Signature = {s1, s2, s3}
  SignatureOf <- MCSignatureOf
  MaxHistory = 2
  DefaultTtl = NoTtl
  MaxTime = 2
  ObjectResult = {}
  Snapshot <- LongSnapshot
  Fault = {"fn", "callback", "storage", "get"}
  NoTtl = NoTtl
  Undefined = Undefined
  NoCall = NoCall
SYMMETRY Symmetry
SPECIFICATION SafeSpec
INVARIANTS
  TypeOK
  DiaryAgrees
  ReportedAreGone
PROPERTIES
  ExclusiveClaim
  OnlyClaimsAddRecords
  ResultsAreKept
CHECK_DEADLOCK FALSE
