\* Two tasks, with cancellation.
CONSTANTS
  Tasks = {t1, t2}
  None = None
  MaxRequests = 3
SPECIFICATION Spec
INVARIANT AnswersMatch
\* The run is over once the parent is done.
CHECK_DEADLOCK FALSE
