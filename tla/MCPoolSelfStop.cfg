\* The master stops the server by itself, then mg_stop is called.
SPECIFICATION Spec
CONSTANTS
  Workers = {w1, w2}
  Conns = {c1}
  QueueSize = 1
  MaxFaults = 1
  Master = master
  Nobody = nobody
  NoConn = noconn
PROPERTY DoneStaysSignalled
\* The server stops, and may hang when it is stopped.
CHECK_DEADLOCK FALSE
