\* Two callers, a call of each or two calls of one, each with its retry: three
\* hosts are enough for the startup connection and one reconnect per call.
CONSTANTS
  Callers = {c1, c2}
  Startup = startup
  Hosts = {h1, h2, h3}
  None = None
  MaxCalls = 2
  LegitErrorsMatch = TRUE
  ServerMayHang = TRUE
SPECIFICATION FairSpec
INVARIANTS NoOrphan OneServerProcess SessionMatchesHost
PROPERTIES ImplementsServerSlot CallsEnd StoppedHostsCloseUnlessHung
\* The callers stop after MaxCalls calls.
CHECK_DEADLOCK FALSE
