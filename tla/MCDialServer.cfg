\* Requests that start, look at and stop Netflix, in two threads: which processes
\* run, and who waits for them.
SPECIFICATION FairSpec
CONSTANTS
  Workers = {w1, w2}
  Requests <- NetflixRequests
  Origins = {"good", "evil"}
  NoOrigin = "none"
  CorsLists <- GoodCors
  NullCors = nullcors
  InitCors <- Cors
  SleepPassword = TRUE
  Host = host
  Nobody = nobody
  Pids = {p1, p2}
  NoPid = nopid
  AnyChild = anychild
  MaxRequests = 3
  MaxHostCalls = 0
INVARIANTS StoppedBeforeAnswer SecondNetflixOnlyInWindow
PROPERTIES EventuallyAnswered StoppedIsReaped
