\* A worker between its test of the ring and its wait when the server stops.
SPECIFICATION FairSpec
CONSTANTS
  Workers = {w1, w2}
  Conns = {c1}
  QueueSize = 1
  MaxFaults = 0
  Master = master
  Nobody = nobody
  NoConn = noconn
PROPERTY StopWakesWorkers
\* The server stops, and may hang when it is stopped.
CHECK_DEADLOCK FALSE
