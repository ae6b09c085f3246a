\* Liveness, when no pthread call fails.
SPECIFICATION FairSpec
CONSTANTS
  Workers = {w1, w2}
  Conns = {c1, c2, c3}
  QueueSize = 1
  MaxFaults = 0
  Master = master
  Nobody = nobody
  NoConn = noconn
PROPERTIES ServedUnlessStopped StopHangsOnlyAsleep
\* The server stops, and may hang when it is stopped.
CHECK_DEADLOCK FALSE
