\* A server that accepts the connection and never answers.
CONSTANTS
  Callers = {c1}
  Startup = startup
  Hosts = {h1, h2}
  None = None
  MaxCalls = 1
  LegitErrorsMatch = TRUE
  ServerMayHang = TRUE
SPECIFICATION FairSpec
PROPERTY StoppedHostsClose
\* The callers stop after MaxCalls calls.
CHECK_DEADLOCK FALSE
