\* All the requests, while the host removes and registers applications, one of
\* the registrations perhaps with no CORS origins.
SPECIFICATION Spec
CONSTANTS
  Workers = {w1, w2}
  Requests <- AllRequests
  Origins = {"good", "evil"}
  NoOrigin = "none"
  CorsLists <- AnyCors
  NullCors = nullcors
  InitCors <- Cors
  SleepPassword = TRUE
  Host = host
  Nobody = nobody
  Pids = {p1}
  NoPid = nopid
  AnyChild = anychild
  MaxRequests = 2
  MaxHostCalls = 2
SYMMETRY Symmetry
INVARIANTS TypeOK MuxDiscipline AppOutlivesHandler OneResponse
\* A registration that fails blocks the server.
CHECK_DEADLOCK FALSE
