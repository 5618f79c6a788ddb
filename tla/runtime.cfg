CONSTANTS
  Client = {c1, c2, c3, c4}
  c1 = c1
  c2 = c2
  c3 = c3
  c4 = c4
  a1 = a1
  a2 = a2
  x1 = x1
  x2 = x2
  y = y
  X = X
  Y = Y
  Tool = {x1, x2, y}
  ToolName = {X, Y}
  AgentId = {a1, a2}
  NameOf <- MCNameOf
  CostOf <- MCCostOf
  MetaOf <- MCMetaOf
  AgentMetaOf <- MCAgentMetaOf
  Required <- MCRequired
  Workload <- MCWorkload
  Preset <- MCPreset
  Known <- MCKnown
  Saves = {TRUE, FALSE}
  Window = 2
  Duration = {1, 2}
  RunDuration = {1}
  MaxRetries = 1
  HookFails = TRUE
  NoTool = NoTool
  NoAgent = NoAgent
  Gone = Gone
SPECIFICATION Spec
INVARIANTS
  TypeOK
  CollectorExact
  OneStory
  EnvironmentSound
PROPERTIES
  AbortEndsRetries
  EverythingEnds
CHECK_DEADLOCK FALSE
