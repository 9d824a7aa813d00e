\* One run whose call is retried after a reconnect.
CONSTANTS
  t1 = t1
  t2 = t2
  s1 = s1
  Tools = {t1, t2}
  AnyTool = any
  Skills = {s1}
  None = None
  Calls <- MCCalls
  Permissions <- MCPermissions
  MaxRefusals = 2
  MaxRuns = 1
  MaxCalls = 1
SPECIFICATION GateSpec
INVARIANT SentWithinBudget
\* The session ends after MaxRuns runs.
CHECK_DEADLOCK FALSE
