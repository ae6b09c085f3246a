\* Two requests to start Netflix before the first has executed it.
SPECIFICATION Spec
CONSTANTS
  Workers = {w1, w2}
  Requests <- NetflixRequests
  Origins = {"good", "evil"}
  NoOrigin = "none"
  CorsLists <- GoodCors
  NullCors = nullcors
  InitCors <- Cors
  SleepPassword = TRUE
  Host = host
  Nobody = nobody
  Pids = {p1, p2}
  NoPid = nopid
  AnyChild = anychild
  MaxRequests = 2
  MaxHostCalls = 0
INVARIANT OneNetflix
