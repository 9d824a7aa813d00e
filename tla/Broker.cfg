\* Three tasks and three calls: enough for an answer to meet the wrong call,
\* for a queued call to be cancelled and for a call after a cancelled one.
CONSTANTS
  Tasks = {t1, t2, t3}
  None = None
  MaxRequests = 3
SPECIFICATION FairSpec
INVARIANT AnswersMatchUnlessAbandoned
PROPERTIES ImplementsRemoteCalls RunEnds
\* The run is over once the parent is done.
CHECK_DEADLOCK FALSE
