\* Three ids over two places, time for a TTL to run out, in a child process
\* and in the server's.
CONSTANTS
  Sids = {s1, s2, s3}
  Names = {x}
  Values = {v}
  LiveValues = {f}
  Unbound = Unbound
  Gone = Gone
  NoRun = NoRun
  TTL = 1
  MaxSessions = 2
  MaxBlocks = 2
  MaxBorn = 2
  MaxTime = 2
  MaxQueue = 1
  MaxRestarts = 1
SPECIFICATION Spec
SYMMETRY Symmetry
INVARIANTS TypeOK OwnOutputs VarsPersistIfAny
PROPERTY EvictsExpiredOrLeastRecent
\* The clock and the sessions' blocks are bounded.
CHECK_DEADLOCK FALSE
