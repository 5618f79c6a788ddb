CONSTANTS
  Call = {c1, c2}
  Op <- AllOps
  Worker = {k1, k2}
  Signature = {s1}
  Workflow = {w1, w2}
  Earlier = {w1}
  k1 = k1
  k2 = k2
  s1 = s1
  Unknown = Unknown
  Persistence = {"memory", "bridge"}
  Fault = {"fn", "lock", "get", "save", "log", "crash"}
  NoRecord = NoRecord
  NoCall = NoCall
  Undefined = Undefined
SPECIFICATION Spec
INVARIANTS
  TypeOK
  ExecutionIsSound
PROPERTIES
  OperationsAreAtomic
  EveryCallEnds
  ClaimedIsSettled
CHECK_DEADLOCK FALSE
