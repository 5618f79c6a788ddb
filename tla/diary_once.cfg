CONSTANTS
  Call = {c1, c2, c3}
  Op <- OnceOps
  t1 = t1
  t1b = t1b
  t2 = t2
  t3 = t3
  s1 = s1
  s2 = s2
  s3 = s3
  Title = {t1, t1b, t2, t3}
  Signature = {s1, s2, s3}
  SignatureOf <- MCSignatureOf
  MaxHistory = 3
  DefaultTtl = NoTtl
  MaxTime = 0
  ObjectResult = {c2}
  Snapshot <- NoSnapshot
  Fault = {"fn"}
  NoTtl = NoTtl
  Undefined = Undefined
  NoCall = NoCall
SPECIFICATION Spec
PROPERTIES
  ExecutesOnce
CHECK_DEADLOCK FALSE
