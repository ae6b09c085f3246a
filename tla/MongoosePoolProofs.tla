-------------------------- MODULE MongoosePoolProofs --------------------------
(***************************************************************************)
(* Proofs about MongoosePool, for any number of workers and connections,   *)
(* any size of the ring and any number of failures of the pthread calls    *)
(* that the code tests; after one of these, nothing is promised of the     *)
(* shutdown.  The calls whose result the code ignores are taken to         *)
(* succeed (PthreadFault): the workers' pthread_mutex_lock among them,     *)
(* without which no two threads would exclude each other.                  *)
(***************************************************************************)
EXTENDS MongoosePool, FiniteSetTheorems, TLAPS

\* The inductive invariant.  A worker may take a socket because nobody else
\* can have emptied the ring since it looked (MutualExclusion), the ring is
\* never left with fewer than none (TakeFindsSocket), and what it takes is a
\* socket because every slot in use holds one (HoldsSockets).
IInv == /\ TypeOK /\ RingWithinBounds /\ TakeFindsSocket /\ MutualExclusion
        /\ HoldsSockets

-------------------------------------------------------------------------------
\* Positions of the ring.

\* A position, reduced modulo QueueSize, is the index of a slot.
LEMMA SlotInRange ==
  ASSUME NEW Q \in Nat \ {0}, NEW k \in Nat
  PROVE  k % Q \in 0 .. Q - 1
OBVIOUS

\* Subtracting QueueSize from a position does not change its slot: the loop
\* at the end of consume_socket moves no socket.
LEMMA WrapKeepsSlot ==
  ASSUME NEW Q \in Nat \ {0}, NEW k \in 0 .. Q - 1
  PROVE  (k + Q) % Q = k /\ k % Q = k
OBVIOUS

-------------------------------------------------------------------------------
LEMMA InitIInv == Init => IInv
  BY PoolAssumption DEF Init, IInv, TypeOK, RingWithinBounds, TakeFindsSocket,
     MutualExclusion, HoldsSockets, HoldPoints, WorkerPoints, MasterPoints

LEMMA CallerKeepsIInv == IInv /\ (CallerStep \/ CallStop) => IInv'
<1> SUFFICES ASSUME IInv, CallerStep \/ CallStop PROVE IInv'
  OBVIOUS
<1> USE PoolAssumption DEF IInv, TypeOK, RingWithinBounds, TakeFindsSocket,
        MutualExclusion, HoldsSockets, HoldPoints, WorkerPoints, ringVars,
        netVars, startVars, Goto
<1>1. ASSUME NEW w \in Workers, SpawnWorker(w) PROVE IInv'
  BY <1>1 DEF SpawnWorker
<1>2. CASE LoadCount
  BY <1>2 DEF LoadCount
<1>3. CASE StoreCount
  BY <1>3 DEF StoreCount
<1>4. CASE StartReturns
  BY <1>4 DEF StartReturns
<1>5. CASE StopReturns
  BY <1>5 DEF StopReturns
<1>6. CASE CallStop
  BY <1>6 DEF CallStop
<1> QED
  BY <1>1, <1>2, <1>3, <1>4, <1>5, <1>6 DEF CallerStep

LEMMA ConnectKeepsIInv ==
  ASSUME IInv, NEW c \in Conns, Connect(c)
  PROVE  IInv'
  BY PoolAssumption DEF Connect, IInv, TypeOK, RingWithinBounds,
     TakeFindsSocket, MutualExclusion, HoldsSockets, ringVars, startVars

-------------------------------------------------------------------------------
\* Queuing a socket: the ring has a free slot, and whatever the slots in use
\* held they still hold.
LEMMA EnqueueKeepsRing ==
  ASSUME IInv, Enqueue
  PROVE  /\ queue' \in [0 .. QueueSize - 1 -> Conns \cup {NoConn}]
         /\ sq_head' \in 0 .. 2 * QueueSize /\ RingWithinBounds'
         /\ \A k \in sq_tail' .. sq_head' - 1 : queue'[k % QueueSize] \in Conns
<1> USE DEF Enqueue, QueueFull, IInv, TypeOK, RingWithinBounds
<1>1. sq_head - sq_tail < QueueSize /\ sq_head' = sq_head + 1 /\ sq_tail' = sq_tail
  BY PoolAssumption
<1>2. accepted \in Conns
  BY DEF HoldsSockets
<1>3. queue' \in [0 .. QueueSize - 1 -> Conns \cup {NoConn}]
  BY <1>2
<1>4. sq_head' \in 0 .. 2 * QueueSize /\ RingWithinBounds'
  BY <1>1, PoolAssumption
<1>5. ASSUME NEW k \in sq_tail' .. sq_head' - 1
      PROVE  queue'[k % QueueSize] \in Conns
  <2>1. k \in Nat /\ k % QueueSize \in 0 .. QueueSize - 1
    BY <1>1, SlotInRange, PoolAssumption
  <2>2. CASE k = sq_head
    BY <2>1, <2>2, <1>2
  <2>3. CASE k \in sq_tail .. sq_head - 1
    BY <2>1, <2>3, <1>2 DEF HoldsSockets
  <2> QED
    BY <1>1, <2>2, <2>3
<1> QED
  BY <1>3, <1>4, <1>5

\* A worker that sleeps and is signalled, or not.
LEMMA SignalKeepsPoints ==
  ASSUME pc \in [Workers -> WorkerPoints], SignalFull
  PROVE  /\ pc' \in [Workers -> WorkerPoints]
         /\ \A w \in Workers : pc'[w] = pc[w] \/ pc'[w] = "lock"
  BY DEF SignalFull, Goto, WorkerPoints

\* Queuing a socket, whether or not the mutex is released afterwards.
LEMMA EnqueueKeepsIInv ==
  ASSUME IInv, Enqueue, mutex' \in {mutex, Nobody},
         stop_flag' \in {stop_flag, 1}, faults' \in 0 .. MaxFaults
  PROVE  IInv'
<1>1. mpc = "test" /\ mutex = Master
  BY DEF Enqueue, IInv, MutualExclusion
<1>2. /\ pc' \in [Workers -> WorkerPoints]
      /\ \A w \in Workers : pc'[w] = pc[w] \/ pc'[w] = "lock"
  BY SignalKeepsPoints DEF IInv, TypeOK, Enqueue
<1>3. \A w \in Workers : pc'[w] \notin HoldPoints
  BY <1>1, <1>2, PoolAssumption DEF IInv, MutualExclusion, HoldPoints
<1>4. TypeOK'
  BY <1>2, EnqueueKeepsRing, PoolAssumption
     DEF IInv, TypeOK, Enqueue, startVars, netVars, MasterPoints
<1>5. TakeFindsSocket' /\ MutualExclusion'
  BY <1>3 DEF TakeFindsSocket, MutualExclusion, HoldPoints, Enqueue
<1>6. HoldsSockets'
  BY <1>2, EnqueueKeepsRing DEF IInv, HoldsSockets, Enqueue
<1> QED
  BY <1>4, <1>5, <1>6, EnqueueKeepsRing DEF IInv

LEMMA MasterKeepsIInv == IInv /\ MasterStep => IInv'
<1> SUFFICES ASSUME IInv, MasterStep PROVE IInv'
  OBVIOUS
<1>1. CASE Produce
  BY <1>1, EnqueueKeepsIInv DEF Produce, IInv, TypeOK
<1> USE PoolAssumption DEF IInv, TypeOK, RingWithinBounds, TakeFindsSocket,
        MutualExclusion, HoldsSockets, HoldPoints, WorkerPoints, MasterPoints,
        ClosedPoints, ringVars, netVars, startVars
<1>2. CASE MasterLoop
  <2>1. backlog' \in Seq(Conns)
    BY <1>2 DEF MasterLoop
  <2> QED
    BY <1>2, <2>1 DEF MasterLoop
<1>3. CASE Accept
  BY <1>3 DEF Accept
<1>4. CASE AcceptTimesOut
  BY <1>4 DEF AcceptTimesOut
<1>5. CASE ProduceLock
  BY <1>5 DEF ProduceLock
<1>6. CASE ProduceWait
  BY <1>6 DEF ProduceWait
<1>7. CASE Broadcast
  BY <1>7 DEF Broadcast
<1>8. CASE JoinLock
  BY <1>8 DEF JoinLock
<1>9. CASE Join
  BY <1>9 DEF Join
<1>10. CASE Destroy
  BY <1>10 DEF Destroy
<1> QED
  BY <1>1, <1>2, <1>3, <1>4, <1>5, <1>6, <1>7, <1>8, <1>9, <1>10 DEF MasterStep

-------------------------------------------------------------------------------
\* Taking a socket moves sq_tail over one slot in use and keeps the others.
LEMMA ConsumeKeepsRing ==
  ASSUME IInv, NEW w \in Workers, Consume(w)
  PROVE  /\ sq_tail' \in 0 .. QueueSize /\ sq_head' \in 0 .. 2 * QueueSize
         /\ RingWithinBounds'
         /\ \A k \in sq_tail' .. sq_head' - 1 : queue'[k % QueueSize] \in Conns
         /\ client'[w] \in Conns
<1>1. /\ sq_tail \in 0 .. QueueSize /\ sq_head \in 0 .. 2 * QueueSize
      /\ sq_head - sq_tail \in 0 .. QueueSize /\ sq_head > sq_tail
      /\ QueueSize \in Nat \ {0}
  BY PoolAssumption DEF IInv, TypeOK, RingWithinBounds, TakeFindsSocket, Consume
<1>2. /\ sq_tail' = sq_tail + 1 - Wraps * QueueSize
      /\ sq_head' = sq_head - Wraps * QueueSize
      /\ queue' = queue
  BY DEF Consume
<1>3. /\ sq_tail' \in 0 .. QueueSize /\ sq_head' \in 0 .. 2 * QueueSize
      /\ RingWithinBounds'
  <2>1. CASE sq_tail + 1 > QueueSize
    BY <1>1, <1>2, <2>1 DEF Wraps, RingWithinBounds
  <2>2. CASE ~(sq_tail + 1 > QueueSize)
    BY <1>1, <1>2, <2>2 DEF Wraps, RingWithinBounds
  <2> QED
    BY <2>1, <2>2
<1>4. client'[w] \in Conns
  <2>1. sq_tail \in sq_tail .. sq_head - 1
    BY <1>1
  <2> QED
    BY <2>1 DEF Consume, IInv, TypeOK, HoldsSockets
<1>5. ASSUME NEW k \in sq_tail' .. sq_head' - 1
      PROVE  queue'[k % QueueSize] \in Conns
  <2>1. CASE sq_tail + 1 > QueueSize
    <3>1. k \in 0 .. QueueSize - 1 /\ k + QueueSize \in sq_tail .. sq_head - 1
      BY <1>1, <1>2, <2>1 DEF Wraps
    <3>2. queue[(k + QueueSize) % QueueSize] \in Conns
      BY <3>1 DEF IInv, HoldsSockets
    <3> QED
      BY <1>1, <1>2, <3>1, <3>2, WrapKeepsSlot
  <2>2. CASE ~(sq_tail + 1 > QueueSize)
    <3>1. k \in sq_tail .. sq_head - 1
      BY <1>1, <1>2, <2>2 DEF Wraps
    <3> QED
      BY <1>2, <3>1 DEF IInv, HoldsSockets
  <2> QED
    BY <2>1, <2>2
<1> QED
  BY <1>3, <1>4, <1>5

LEMMA ConsumeKeepsIInv ==
  ASSUME IInv, NEW w \in Workers, Consume(w)
  PROVE  IInv'
<1> USE PoolAssumption DEF IInv
<1>1. \A v \in Workers \ {w} : pc'[v] = pc[v] /\ pc[v] \notin HoldPoints
  BY DEF Consume, Goto, TypeOK, MutualExclusion, HoldPoints
<1>2. pc'[w] = "serve" /\ mpc' \notin {"test", "join"}
  BY DEF Consume, Goto, TypeOK, MutualExclusion, HoldPoints
<1>3. TypeOK'
  BY ConsumeKeepsRing
     DEF TypeOK, Consume, Goto, startVars, netVars, MasterPoints, WorkerPoints
<1>4. TakeFindsSocket' /\ MutualExclusion'
  BY <1>1, <1>2 DEF TakeFindsSocket, MutualExclusion, HoldPoints
<1>5. HoldsSockets'
  <2>1. \A v \in Workers : pc'[v] = "serve" => client'[v] \in Conns
    BY <1>1, ConsumeKeepsRing DEF HoldsSockets, Consume, TypeOK
  <2>2. mpc' \in {"lock", "test", "wait", "relock"} => accepted' \in Conns
    BY DEF HoldsSockets, Consume
  <2> QED
    BY <2>1, <2>2, ConsumeKeepsRing DEF HoldsSockets
<1> QED
  BY <1>3, <1>4, <1>5, ConsumeKeepsRing

\* A worker that finds the ring empty, while it may still serve, waits.
LEMMA WorkerKeepsIInv ==
  ASSUME IInv, NEW w \in Workers, WorkerStep(w)
  PROVE  IInv'
<1>1. CASE Consume(w)
  BY <1>1, ConsumeKeepsIInv
<1> USE PoolAssumption DEF IInv, TypeOK, RingWithinBounds, TakeFindsSocket,
        MutualExclusion, HoldsSockets, HoldPoints, WorkerPoints, MasterPoints,
        ClosedPoints, ringVars, netVars, startVars, Goto
<1>2. CASE WorkerLoop(w)
  BY <1>2 DEF WorkerLoop
<1>3. CASE ConsumeLock(w)
  BY <1>3 DEF ConsumeLock
<1>4. CASE ConsumeTest(w)
  BY <1>4 DEF ConsumeTest
<1>5. CASE ConsumeWait(w)
  BY <1>5 DEF ConsumeWait
<1>6. CASE ConsumeStops(w)
  BY <1>6 DEF ConsumeStops
<1>7. CASE Serve(w)
  BY <1>7 DEF Serve
<1>8. CASE Exit(w)
  BY <1>8 DEF Exit
<1> QED
  BY <1>1, <1>2, <1>3, <1>4, <1>5, <1>6, <1>7, <1>8 DEF WorkerStep

-------------------------------------------------------------------------------
\* Calls that fail, and waits that end without a signal.

LEMMA FaultKeepsIInv == IInv /\ PthreadFault => IInv'
<1> SUFFICES ASSUME IInv, PthreadFault PROVE IInv'
  OBVIOUS
<1> USE PoolAssumption DEF Fault
<1>1. CASE ProduceFails /\ Enqueue
  BY <1>1, EnqueueKeepsIInv DEF ProduceFails, IInv, TypeOK
<1> USE DEF IInv, TypeOK, RingWithinBounds, TakeFindsSocket, MutualExclusion,
        HoldsSockets, HoldPoints, WorkerPoints, MasterPoints, ClosedPoints,
        ringVars, netVars, startVars, Goto
<1>2. CASE ProduceFails /\ ~Enqueue
  <2>1. stop_flag' = 1 /\ faults' \in 0 .. MaxFaults
    BY <1>2 DEF ProduceFails
  <2>2. /\ accepted' = NoConn /\ mpc' = "loop"
        /\ UNCHANGED <<num_threads, ringVars, pc, client, startVars, netVars>>
    BY <1>2 DEF ProduceFails
  <2>3. mutex' = mutex \/ (mutex = Master /\ mutex' = Nobody)
    BY <1>2 DEF ProduceFails
  <2>4. MutualExclusion'
    BY <2>2, <2>3
  <2> QED
    BY <2>1, <2>2, <2>3, <2>4
<1>3. ASSUME NEW w \in Workers, SpawnFails(w) PROVE IInv'
  BY <1>3 DEF SpawnFails
<1>4. CASE JoinLockFails
  BY <1>4 DEF JoinLockFails
<1> QED
  BY <1>1, <1>2, <1>3, <1>4 DEF PthreadFault

LEMMA WakeUpKeepsIInv == IInv /\ SpuriousWakeUp => IInv'
<1> SUFFICES ASSUME IInv, SpuriousWakeUp PROVE IInv'
  OBVIOUS
<1> USE PoolAssumption DEF IInv, TypeOK, RingWithinBounds, TakeFindsSocket,
        MutualExclusion, HoldsSockets, HoldPoints, WorkerPoints, MasterPoints,
        ClosedPoints, ringVars, netVars, startVars, Goto
<1>1. CASE MasterWakesUp
  BY <1>1 DEF MasterWakesUp
<1>2. ASSUME NEW w \in Workers, WorkerWakesUp(w) PROVE IInv'
  BY <1>2 DEF WorkerWakesUp
<1> QED
  BY <1>1, <1>2 DEF SpuriousWakeUp

LEMMA StutterKeepsIInv == IInv /\ UNCHANGED vars => IInv'
  BY DEF vars, ringVars, netVars, startVars, IInv, TypeOK, RingWithinBounds,
     TakeFindsSocket, MutualExclusion, HoldsSockets

-------------------------------------------------------------------------------
\* The invariant that the theorems below rest on.
THEOREM Inductive == Spec => []IInv
<1>1. IInv /\ [Next]_vars => IInv'
  BY CallerKeepsIInv, ConnectKeepsIInv, MasterKeepsIInv, WorkerKeepsIInv,
     FaultKeepsIInv, WakeUpKeepsIInv, StutterKeepsIInv DEF Next
<1> QED
  BY InitIInv, <1>1, PTL DEF Spec

\* However long the server runs, sq_tail and sq_head stay small.
THEOREM TypesOK == Spec => []TypeOK
<1>1. IInv => TypeOK
  BY DEF IInv
<1> QED
  BY <1>1, Inductive, PTL

\* The ring neither overflows nor underflows, for any size of the ring and
\* whichever threads were woken or saw a call fail.
THEOREM RingSafe == Spec => []RingWithinBounds
<1>1. IInv => RingWithinBounds
  BY DEF IInv
<1> QED
  BY <1>1, Inductive, PTL

\* The assertion in consume_socket holds: a worker about to take a socket
\* finds one.
THEOREM TakeSafe == Spec => []TakeFindsSocket
<1>1. IInv => TakeFindsSocket
  BY DEF IInv
<1> QED
  BY <1>1, Inductive, PTL

\* The ring is changed by one thread at a time, through every wait, wake-up and
\* failure that the code tests, provided that the locks of consume_socket and
\* worker_thread, whose results are ignored, do not fail.
THEOREM MutexSafe == Spec => []MutualExclusion
<1>1. IInv => MutualExclusion
  BY DEF IInv
<1> QED
  BY <1>1, Inductive, PTL

\* No worker ever serves an empty slot.
THEOREM SocketsSafe == Spec => []HoldsSockets
<1>1. IInv => HoldsSockets
  BY DEF IInv
<1> QED
  BY <1>1, Inductive, PTL

-------------------------------------------------------------------------------
\* The count of workers and the order of the shutdown.

\* The workers that run, and those of them mg_start has yet to count.
Alive == {w \in Workers : pc[w] \notin {"unborn", "gone"}}
Uncounted == IF cpc \in {"load", "store"} THEN 1 ELSE 0

\* The count is right because ctx->num_threads++ is never interrupted by a
\* decrement: while mg_start is creating workers nobody has told the server to
\* stop, so none of them leaves.  The context is freed last because the master
\* destroys its mutex only when it finds the count zero.
Starting ==
  cpc \in {"start", "load", "store", "running"} =>
    /\ stop_flag = 0 /\ mpc \notin ClosedPoints
    /\ \A w \in Workers : pc[w] \notin {"exit", "gone"}
Started ==
  cpc \in {"running", "stopping", "freed"} =>
    \A w \in Workers : pc[w] # "unborn"
Counted == num_threads + Uncounted = Cardinality(Alive)
LoadIsFresh == cpc = "store" => loaded = num_threads
DestroysLast == mpc \in {"destroy", "gone"} => \A w \in Workers : pc[w] = "gone"
DoneMeansGone == stop_flag = 2 => mpc = "gone"

CountInv ==
  faults = 0 =>
    /\ Starting /\ Started /\ Counted /\ LoadIsFresh /\ DestroysLast
    /\ DoneMeansGone

-------------------------------------------------------------------------------
\* Counting workers.

LEMMA AliveIsFinite == IsFiniteSet(Alive) /\ Cardinality(Alive) \in Nat
  BY FinitelyManyWorkers, FS_Subset, FS_CardinalityType DEF Alive

LEMMA OneMoreAlive ==
  ASSUME NEW w \in Workers, pc \in [Workers -> WorkerPoints],
         pc[w] = "unborn", Goto(w, "loop")
  PROVE  Cardinality(Alive') = Cardinality(Alive) + 1
<1>1. Alive' = Alive \cup {w} /\ w \notin Alive
  BY DEF Alive, Goto
<1> QED
  BY <1>1, AliveIsFinite, FS_AddElement

LEMMA OneLessAlive ==
  ASSUME NEW w \in Workers, pc \in [Workers -> WorkerPoints],
         pc[w] = "exit", Goto(w, "gone")
  PROVE  Cardinality(Alive') = Cardinality(Alive) - 1
<1>1. Alive' = Alive \ {w} /\ w \in Alive
  BY DEF Alive, Goto
<1> QED
  BY <1>1, AliveIsFinite, FS_RemoveElement

\* When the count is zero and no worker is unborn, all have gone.
LEMMA NobodyAlive ==
  ASSUME Cardinality(Alive) = 0, \A w \in Workers : pc[w] # "unborn"
  PROVE  \A w \in Workers : pc[w] = "gone"
<1>1. Alive = {}
  BY AliveIsFinite, FS_EmptySet
<1> QED
  BY <1>1 DEF Alive

-------------------------------------------------------------------------------
LEMMA InitCountInv == Init => CountInv
<1>1. Init => Alive = {}
  BY DEF Init, Alive
<1> QED
  BY <1>1, FS_EmptySet DEF Init, CountInv, Starting, Started, Counted, Uncounted,
     LoadIsFresh, DestroysLast, DoneMeansGone, ClosedPoints

\* A step at which no worker is born, goes or is counted, and the master stays
\* on the same side of the shutdown, keeps the invariant.
LEMMA QuietKeepsCountInv ==
  ASSUME CountInv, TypeOK,
         UNCHANGED <<num_threads, cpc, loaded>>,
         faults' = faults, stop_flag' = stop_flag,
         mpc' \in ClosedPoints => mpc \in ClosedPoints,
         mpc' \in {"destroy", "gone"} <=> mpc \in {"destroy", "gone"},
         mpc = "gone" => mpc' = "gone",
         \A w \in Workers :
           /\ pc'[w] = "unborn" <=> pc[w] = "unborn"
           /\ pc'[w] = "gone" <=> pc[w] = "gone"
           /\ pc'[w] = "exit" => pc[w] = "exit" \/ stop_flag # 0
  PROVE  CountInv'
<1> SUFFICES ASSUME faults' = 0
             PROVE  (Starting /\ Started /\ Counted /\ LoadIsFresh
                       /\ DestroysLast /\ DoneMeansGone)'
  BY DEF CountInv
<1>1. Alive' = Alive
  BY DEF Alive
<1>2. Counted'
  BY <1>1 DEF CountInv, Counted, Uncounted
<1>3. Starting' /\ Started'
  BY DEF CountInv, Starting, Started
<1>4. LoadIsFresh' /\ DestroysLast' /\ DoneMeansGone'
  BY DEF CountInv, LoadIsFresh, DestroysLast, DoneMeansGone
<1> QED
  BY <1>2, <1>3, <1>4

LEMMA CallerKeepsCountInv == TypeOK /\ CountInv /\ (CallerStep \/ CallStop) => CountInv'
<1> SUFFICES ASSUME TypeOK, CountInv, CallerStep \/ CallStop PROVE CountInv'
  OBVIOUS
<1> SUFFICES ASSUME faults' = 0
             PROVE  (Starting /\ Started /\ Counted /\ LoadIsFresh
                       /\ DestroysLast /\ DoneMeansGone)'
  BY DEF CountInv
<1>0. faults = 0
  BY DEF CallerStep, CallStop, SpawnWorker, LoadCount, StoreCount, StartReturns,
     StopReturns
<1> USE <1>0 DEF CountInv, Starting, Started, LoadIsFresh, DestroysLast,
        DoneMeansGone, ClosedPoints
<1>1. ASSUME NEW w \in Workers, SpawnWorker(w)
      PROVE  (Starting /\ Started /\ Counted /\ LoadIsFresh
                /\ DestroysLast /\ DoneMeansGone)'
  <2>1. Counted'
    BY <1>1, OneMoreAlive, AliveIsFinite
       DEF SpawnWorker, Counted, Uncounted, TypeOK
  <2> QED
    BY <1>1, <2>1 DEF SpawnWorker, Goto, TypeOK
<1>2. CASE LoadCount
  BY <1>2 DEF LoadCount, Counted, Uncounted, Alive
<1>3. CASE StoreCount
  BY <1>3, AliveIsFinite DEF StoreCount, Counted, Uncounted, Alive, TypeOK
<1>4. CASE StartReturns
  BY <1>4 DEF StartReturns, Counted, Uncounted, Alive
<1>5. CASE StopReturns
  BY <1>5 DEF StopReturns, Counted, Uncounted, Alive
<1>6. CASE CallStop
  BY <1>6 DEF CallStop, Counted, Uncounted, Alive
<1> QED
  BY <1>1, <1>2, <1>3, <1>4, <1>5, <1>6 DEF CallerStep

\* Signals and broadcasts move workers from "wait" to "lock".
LEMMA MasterKeepsCountInv == TypeOK /\ CountInv /\ MasterStep => CountInv'
<1> SUFFICES ASSUME TypeOK, CountInv, MasterStep PROVE CountInv'
  OBVIOUS
<1> USE DEF ClosedPoints
<1>1. CASE Produce
  <2>1. \A w \in Workers : pc'[w] = pc[w] \/ (pc[w] = "wait" /\ pc'[w] = "lock")
    BY <1>1 DEF Produce, Enqueue, SignalFull, Goto, TypeOK
  <2> QED
    BY <1>1, <2>1, QuietKeepsCountInv DEF Produce, Enqueue, startVars
<1>2. CASE MasterLoop
  <2>1. CASE stop_flag = 0
    BY <1>2, <2>1, QuietKeepsCountInv DEF MasterLoop, startVars
  <2>2. CASE stop_flag # 0
    BY <1>2, <2>2 DEF MasterLoop, startVars, CountInv, Starting, Started,
       Counted, Uncounted, Alive, LoadIsFresh, DestroysLast, DoneMeansGone
  <2> QED
    BY <2>1, <2>2
<1>3. CASE Accept
  BY <1>3, QuietKeepsCountInv DEF Accept, startVars
<1>4. CASE AcceptTimesOut
  BY <1>4, QuietKeepsCountInv DEF AcceptTimesOut, startVars
<1>5. CASE ProduceLock
  BY <1>5, QuietKeepsCountInv DEF ProduceLock, startVars
<1>6. CASE ProduceWait
  BY <1>6, QuietKeepsCountInv DEF ProduceWait, startVars
<1>7. CASE Broadcast
  <2>1. \A w \in Workers : pc'[w] = pc[w] \/ (pc[w] = "wait" /\ pc'[w] = "lock")
    BY <1>7 DEF Broadcast
  <2> QED
    BY <1>7, <2>1, QuietKeepsCountInv DEF Broadcast, startVars
<1>8. CASE JoinLock
  BY <1>8, QuietKeepsCountInv DEF JoinLock, startVars
<1>9. CASE Join
  <2>1. CASE num_threads > 0
    BY <1>9, <2>1, QuietKeepsCountInv DEF Join, startVars
  <2>2. CASE ~(num_threads > 0)
    <3>1. faults = 0 => cpc \in {"stopping", "freed"}
      BY <1>9 DEF Join, CountInv, Starting, TypeOK
    <3>2. faults = 0 => Cardinality(Alive) = 0
      BY <2>2, <3>1, AliveIsFinite DEF CountInv, Counted, Uncounted, TypeOK
    <3>3. faults = 0 => \A w \in Workers : pc[w] = "gone"
      BY <3>1, <3>2, NobodyAlive DEF CountInv, Started
    <3> QED
      BY <1>9, <3>1, <3>3 DEF Join, startVars, CountInv, Starting, Started,
         Counted, Uncounted, Alive, LoadIsFresh, DestroysLast, DoneMeansGone
  <2> QED
    BY <2>1, <2>2
<1>10. CASE Destroy
  BY <1>10 DEF Destroy, startVars, CountInv, Starting, Started,
     Counted, Uncounted, Alive, LoadIsFresh, DestroysLast, DoneMeansGone
<1> QED
  BY <1>1, <1>2, <1>3, <1>4, <1>5, <1>6, <1>7, <1>8, <1>9, <1>10 DEF MasterStep

LEMMA WorkerKeepsCountInv ==
  ASSUME TypeOK, CountInv, NEW w \in Workers, WorkerStep(w)
  PROVE  CountInv'
<1> USE DEF Goto, startVars, TypeOK, WorkerPoints, HoldPoints, ClosedPoints
<1>1. CASE WorkerLoop(w)
  BY <1>1, QuietKeepsCountInv DEF WorkerLoop
<1>2. CASE ConsumeLock(w)
  BY <1>2, QuietKeepsCountInv DEF ConsumeLock
<1>3. CASE ConsumeTest(w)
  BY <1>3, QuietKeepsCountInv DEF ConsumeTest
<1>4. CASE ConsumeWait(w)
  BY <1>4, QuietKeepsCountInv DEF ConsumeWait
<1>5. CASE Consume(w)
  BY <1>5, QuietKeepsCountInv DEF Consume
<1>6. CASE ConsumeStops(w)
  BY <1>6, QuietKeepsCountInv DEF ConsumeStops
<1>7. CASE Serve(w)
  BY <1>7, QuietKeepsCountInv DEF Serve
<1>8. CASE Exit(w)
  <2>1. Cardinality(Alive') = Cardinality(Alive) - 1
    BY <1>8, OneLessAlive DEF Exit
  <2>2. faults = 0 => mpc \notin {"destroy", "gone"} /\ cpc \in {"stopping", "freed"}
    BY <1>8 DEF Exit, CountInv, DestroysLast, Starting
  <2> QED
    BY <1>8, <2>1, <2>2, AliveIsFinite
       DEF Exit, CountInv, Starting, Started, Counted, Uncounted, LoadIsFresh,
           DestroysLast, DoneMeansGone
<1> QED
  BY <1>1, <1>2, <1>3, <1>4, <1>5, <1>6, <1>7, <1>8 DEF WorkerStep

\* After a call that failed nothing is promised.
LEMMA FaultKeepsCountInv == TypeOK /\ PthreadFault => CountInv'
  BY DEF TypeOK, PthreadFault, SpawnFails, ProduceFails, JoinLockFails, Fault,
     CountInv

LEMMA OthersKeepCountInv ==
  ASSUME TypeOK, CountInv,
         \/ \E c \in Conns : Connect(c)
         \/ SpuriousWakeUp
         \/ UNCHANGED vars
  PROVE  CountInv'
<1> USE DEF startVars, ClosedPoints, Goto, TypeOK
<1>1. CASE \E c \in Conns : Connect(c)
  BY <1>1, QuietKeepsCountInv DEF Connect
<1>2. CASE MasterWakesUp
  BY <1>2, QuietKeepsCountInv DEF MasterWakesUp
<1>3. CASE \E w \in Workers : WorkerWakesUp(w)
  BY <1>3, QuietKeepsCountInv DEF WorkerWakesUp
<1>4. CASE UNCHANGED vars
  BY <1>4, QuietKeepsCountInv DEF vars
<1> QED
  BY <1>1, <1>2, <1>3, <1>4 DEF SpuriousWakeUp

THEOREM CountInductive == Spec => []CountInv
<1>1. TypeOK /\ CountInv /\ [Next]_vars => CountInv'
  BY CallerKeepsCountInv, MasterKeepsCountInv, WorkerKeepsCountInv,
     FaultKeepsCountInv, OthersKeepCountInv DEF Next
<1> QED
  BY InitCountInv, <1>1, TypesOK, PTL DEF Spec

\* num_threads is the number of workers that run, however many mg_start
\* creates and whenever they are told to leave, as long as no call fails: the
\* increment made without the mutex loses nothing.
THEOREM CountSafe == Spec => []CountsWorkers
<1>1. CountInv => CountsWorkers
  BY DEF CountInv, CountsWorkers, Counted, Uncounted, Alive
<1> QED
  BY <1>1, CountInductive, PTL

\* mg_stop gets its answer, and frees the context, only when every worker has
\* stopped using it, as long as no call fails.
THEOREM FreeSafe == Spec => []ExitBeforeFree
<1>1. CountInv => ExitBeforeFree
  BY DEF CountInv, ExitBeforeFree, DestroysLast, DoneMeansGone
<1> QED
  BY <1>1, CountInductive, PTL
===============================================================================
