\* Two projects and two calls, runs up to twice the TTL, requests cancelled
\* anywhere, two pools: one is evicted, the next is started.
CONSTANTS
  Projects = {p1, p2}
  Calls = {c1, c2}
  Pools = {i1, i2}
  None = None
  dash = dash
  under = under
  other = other
  Names = {dash, under, other}
  PyName <- MCPyName
  Nobody = None
  IdleTTL = 1
  RunLimit = 2
  MaxTime = 3
SPECIFICATION FairSpec
INVARIANTS OnePoolPerProject UsedPoolStays
PROPERTIES EvictedPoolsGoOut AsksEnd
\* The clock stops at MaxTime and the pools are bounded.
CHECK_DEADLOCK FALSE
