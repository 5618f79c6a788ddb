CONSTANTS
  Call = {c1, c2, c3, n1}
  NoCall = NoCall
  Nested = {n1}
SPECIFICATION Spec
INVARIANTS
  TypeOK
  MutualExclusion
  FirstInFirstOut
PROPERTIES
  Fifo
  EveryCallRuns
  NestedCallBlocksForGood
CHECK_DEADLOCK FALSE
