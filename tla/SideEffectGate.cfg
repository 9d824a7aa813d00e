\* Two runs of three calls, a memory of two refusals, a reload between them.
CONSTANTS
  t1 = t1
  t2 = t2
  s1 = s1
  Tools = {t1, t2}
  AnyTool = any
  Skills = {s1}
  None = None
  Calls <- MCCalls
  Permissions <- MCPermissions
  MaxRefusals = 2
  MaxRuns = 2
  MaxCalls = 3
SPECIFICATION GateSpec
INVARIANTS BudgetHolds RepeatIsJust RefusedBounded
\* The session ends after MaxRuns runs.
CHECK_DEADLOCK FALSE
