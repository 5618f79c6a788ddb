CONSTANTS
  Call = {c1, c2}
  Op <- Executions
  Worker = {k1, k2}
  Signature = {s1}
  Workflow = {w1}
  Earlier = {w1}
  k1 = k1
  k2 = k2
  s1 = s1
  Unknown = Unknown
  Persistence = {"memory"}
  Fault = {}
  NoRecord = NoRecord
  NoCall = NoCall
  Undefined = Undefined
SPECIFICATION SafeSpec
INVARIANTS
  ClaimIsExclusive
CHECK_DEADLOCK FALSE
