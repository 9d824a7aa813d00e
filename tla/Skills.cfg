CONSTANTS
  sql = sql
  report = report
  t = t
  u = u
  Names = {sql, report}
  Saves = {t, u}
  Tried = {t}
  NameOf <- MCNameOf
  Runs = {r1, r2}
  Boot = Boot
  Old = {sql}
  Torn = Torn
  Absent = Absent
  NoOne = NoOne
SPECIFICATION Spec
SYMMETRY Symmetry
INVARIANTS ServesTheSaved UntriedStaysOut TrialTriesItsVersion DrainsItsCalls
           CallsStayHome
\* Every call has ended.
CHECK_DEADLOCK FALSE
