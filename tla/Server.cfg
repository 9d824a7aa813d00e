\* Two sessions with two requests between them, in one session at once or one
\* in each under the same number; two pools, so that one may be started anew.
CONSTANTS
  Sessions = {s1, s2}
  Ids = {1, 2}
  Pools = {i1, i2}
  None = None
  MaxRequests = 2
SPECIFICATION FairSpec
INVARIANTS OneGlobalPool
PROPERTIES SessionsStart ProjectStays NoReplyAfterCancel UncancelledAnswered
\* The sessions end.
CHECK_DEADLOCK FALSE
