------------------------------ MODULE ConnQueue ------------------------------
(***************************************************************************)
(* What the embedded web server promises about connections, without its    *)
(* threads, its ring of sockets or its condition variables: connections    *)
(* are served one at a time by each worker, in the order in which the      *)
(* clients connected, each by one worker, and none is dropped before the   *)
(* server is told to stop.  MongoosePool is shown to implement it.         *)
(***************************************************************************)
EXTENDS Integers, Sequences, SequencesExt

CONSTANTS
  Workers,    \* the worker threads
  Conns,      \* the connections clients may open
  NoConn      \* a worker that serves nobody

VARIABLES
  waiting,    \* connections nobody serves yet, oldest first
  serving,    \* serving[w] is the connection w serves, or NoConn
  closed,     \* connections that were served and closed
  stopping    \* whether the server was told to stop, or gave up

vars == <<waiting, serving, closed, stopping>>

Init ==
  /\ waiting = <<>>
  /\ serving = [w \in Workers |-> NoConn]
  /\ closed = {}
  /\ stopping = FALSE

Connect(c) ==
  /\ c \notin ToSet(waiting) \cup closed
  /\ \A w \in Workers : serving[w] # c
  /\ waiting' = Append(waiting, c)
  /\ UNCHANGED <<serving, closed, stopping>>

Take(w) ==
  /\ waiting # <<>>
  /\ serving[w] = NoConn
  /\ serving' = [serving EXCEPT ![w] = Head(waiting)]
  /\ waiting' = Tail(waiting)
  /\ UNCHANGED <<closed, stopping>>

Close(w) ==
  /\ serving[w] # NoConn
  /\ closed' = closed \cup {serving[w]}
  /\ serving' = [serving EXCEPT ![w] = NoConn]
  /\ UNCHANGED <<waiting, stopping>>

\* Stopping, the server may abandon connections nobody has taken yet: the one
\* it was about to queue, or all that came after those it had queued.
Abandon(i, j) ==
  /\ i =< j
  /\ stopping' = TRUE
  /\ waiting' = SubSeq(waiting, 1, i) \o SubSeq(waiting, j + 1, Len(waiting))
  /\ UNCHANGED <<serving, closed>>

Next ==
  \/ \E c \in Conns : Connect(c)
  \/ \E w \in Workers : Take(w) \/ Close(w)
  \/ \E i, j \in 0 .. Len(waiting) : Abandon(i, j)

Spec == Init /\ [][Next]_vars
==============================================================================
