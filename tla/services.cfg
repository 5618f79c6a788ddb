CONSTANTS
  Client = {c1, c2, c3}
  c1 = c1
  c2 = c2
  c3 = c3
  NoClient = NoClient
  h1 = h1
  h2 = h2
  w = w
  Handler = {h1, h2, w}
  OnceHandler = {w}
  MaxReactions = 2
  v1 = v1
  v2 = v2
  Value = {v1, v2}
  Empty = Empty
  NoTrace = NoTrace
  p = p
  P = P
  q = q
  k1 = k1
  k2 = k2
  Input = {p, P, q}
  KeyOf <- MCKeyOf
  NoValue = NoValue
  MaxEvents = 2
  MaxClock = 1
  g1 = g1
  g2 = g2
  g3 = g3
  G = G
  H = H
  Plugin = {g1, g2, g3}
  PluginName <- MCPluginName
  s1 = s1
  s2 = s2
  Provider = {s1, s2}
  MaxHealth = 2
  Installed <- MCInstalled
  Available <- MCAvailable
  w1 = w1
  w2 = w2
  Worker = {w1, w2}
  MaxInactivity = 1
  Registered <- MCRegistered
  Workload <- MCWorkload
  Subscribed <- MCSubscribed
SPECIFICATION MCSpec
INVARIANTS
  BusDelivers
  CacheIsFresh
  LeaseIsExclusive
  NothingIsLost
  EventsAreKept
  AnswersAgree
  ListsAreWalked
  WorkersAreTracked
CHECK_DEADLOCK FALSE
