\* Safety and refinement, with up to two pthread calls that fail.
SPECIFICATION Spec
CONSTANTS
  Workers = {w1, w2}
  Conns = {c1, c2, c3, c4}
  QueueSize = 2
  MaxFaults = 2
  Master = master
  Nobody = nobody
  NoConn = noconn
SYMMETRY Symmetry
INVARIANTS TypeOK RingWithinBounds TakeFindsSocket MutualExclusion HoldsSockets
           ServesOne CountsWorkers ExitBeforeFree
PROPERTY ServesInOrder
\* The server stops, and may hang when it is stopped.
CHECK_DEADLOCK FALSE
