CONSTANTS
  Call = {c1, c2, c3}
  Op <- OnceOps
  t1 = t1
  t2 = t2
  s1 = s1
  s2 = s2
  Title = {t1, t2}
  Signature = {s1, s2}
  SignatureOf <- MCSignatureOf
  MaxHistory = 2
  DefaultTtl = NoTtl
  MaxTime = 0
  ObjectResult = {}
  Snapshot <- NoSnapshot
  Fault = {}
  NoTtl = NoTtl
  Undefined = Undefined
  NoCall = NoCall
  Created = {FALSE}
SPECIFICATION SafeSpec
INVARIANTS
  AtMostOnce
CHECK_DEADLOCK FALSE
