----------------------------- MODULE MongoosePool -----------------------------
(***************************************************************************)
(* server/mongoose.c: the master thread that accepts connections, the      *)
(* worker threads that serve them, the ring of accepted sockets between    *)
(* them, and the thread that calls mg_start and mg_stop.                   *)
(*                                                                         *)
(* Every access to the ring is made under ctx->mutex, so what a thread     *)
(* does between taking and releasing it is one step, except where it reads *)
(* ctx->stop_flag: that flag is written without the mutex, and each of its *)
(* reads is a step.  A thread that waits on a condition variable is at a   *)
(* "wait" control point; a signal moves it to the point where it takes the *)
(* mutex again, and so may a spurious wake-up.  Serving a connection       *)
(* (process_new_connection and close_connection) is one step here.         *)
(***************************************************************************)
EXTENDS Integers, Sequences, FiniteSets

CONSTANTS
  Workers,      \* the worker threads mg_start creates (NUM_THREADS of them)
  Conns,        \* the connections clients open; each connects once
  QueueSize,    \* ARRAY_SIZE(ctx->queue)
  MaxFaults,    \* bound on the pthread calls that fail, see PthreadFault
  Master,       \* the master thread, as a holder of the mutex
  Nobody,       \* the mutex is free
  NoConn        \* no socket

ASSUME PoolAssumption ==
  /\ QueueSize \in Nat \ {0}
  /\ MaxFaults \in Nat
  /\ Master \notin Workers
  /\ Nobody \notin Workers \cup {Master}
  /\ NoConn \notin Conns

\* NUM_THREADS is a number.
ASSUME FinitelyManyWorkers == IsFiniteSet(Workers)

VARIABLES
  stop_flag,    \* ctx->stop_flag: 0 run, 1 stop, 2 the master is done
  num_threads,  \* ctx->num_threads
  mutex,        \* who holds ctx->mutex
  queue,        \* ctx->queue
  sq_head,      \* ctx->sq_head: next free slot, not reduced modulo QueueSize
  sq_tail,      \* ctx->sq_tail: next socket to take
  mpc,          \* control point of master_thread
  accepted,     \* its local variable: the socket it just accepted
  pc,           \* pc[w]: control point of worker_thread
  client,       \* client[w]: conn->client of that worker
  cpc,          \* control point of the thread in mg_start and mg_stop
  loaded,       \* the value of num_threads it loaded to increment it
  backlog,      \* connections the kernel holds for accept()
  fresh,        \* connections no client has opened yet
  closed,       \* connections a worker has served and closed
  faults        \* pthread calls that failed so far

ringVars  == <<queue, sq_head, sq_tail>>
netVars   == <<backlog, fresh, closed>>
startVars == <<cpc, loaded>>
vars == <<stop_flag, num_threads, mutex, ringVars, mpc, accepted, pc, client,
          startVars, netVars, faults>>

\* Control points of a worker at which it holds the mutex.
HoldPoints == {"test", "block", "take"}
WorkerPoints == {"unborn", "loop", "lock", "wait", "serve", "exit", "gone"}
                  \cup HoldPoints

\* Control points of the master at which its listening socket is closed.
ClosedPoints == {"broadcast", "joinlock", "join", "joinwait", "rejoin",
                 "destroy", "gone"}
MasterPoints == {"loop", "accept", "lock", "test", "wait", "relock"}
                  \cup ClosedPoints

Init ==
  /\ stop_flag = 0 /\ num_threads = 0 /\ mutex = Nobody
  /\ queue = [i \in 0 .. QueueSize - 1 |-> NoConn]
  /\ sq_head = 0 /\ sq_tail = 0
  /\ mpc = "loop" /\ accepted = NoConn
  /\ pc = [w \in Workers |-> "unborn"]
  /\ client = [w \in Workers |-> NoConn]
  /\ cpc = "start" /\ loaded = 0
  /\ backlog = <<>> /\ fresh = Conns /\ closed = {}
  /\ faults = 0

Goto(w, point) == pc' = [pc EXCEPT ![w] = point]

\* One more pthread call fails.
Fault ==
  /\ faults < MaxFaults
  /\ faults' = faults + 1

-------------------------------------------------------------------------------
\* The thread that calls mg_start and, later, mg_stop.

SpawnWorker(w) ==
  /\ cpc = "start" /\ pc[w] = "unborn"
  /\ Goto(w, "loop")
  /\ cpc' = "load"
  /\ UNCHANGED <<stop_flag, num_threads, mutex, ringVars, mpc, accepted,
                 client, loaded, netVars, faults>>

\* pthread_create fails: the thread is not counted and mg_start goes on.
SpawnFails(w) ==
  /\ cpc = "start" /\ pc[w] = "unborn"
  /\ Fault
  /\ Goto(w, "gone")
  /\ UNCHANGED <<stop_flag, num_threads, mutex, ringVars, mpc, accepted,
                 client, startVars, netVars>>

\* ctx->num_threads++, made without the mutex: a load, then a store.
LoadCount ==
  /\ cpc = "load"
  /\ loaded' = num_threads
  /\ cpc' = "store"
  /\ UNCHANGED <<stop_flag, num_threads, mutex, ringVars, mpc, accepted, pc,
                 client, netVars, faults>>

StoreCount ==
  /\ cpc = "store"
  /\ num_threads' = loaded + 1
  /\ cpc' = "start"
  /\ UNCHANGED <<stop_flag, mutex, ringVars, mpc, accepted, pc, client,
                 loaded, netVars, faults>>

StartReturns ==
  /\ cpc = "start"
  /\ \A w \in Workers : pc[w] # "unborn"
  /\ cpc' = "running"
  /\ UNCHANGED <<stop_flag, num_threads, mutex, ringVars, mpc, accepted, pc,
                 client, loaded, netVars, faults>>

CallStop ==
  /\ cpc = "running"
  /\ stop_flag' = 1
  /\ cpc' = "stopping"
  /\ UNCHANGED <<num_threads, mutex, ringVars, mpc, accepted, pc, client,
                 loaded, netVars, faults>>

\* mg_stop polls stop_flag, frees the context and returns.
StopReturns ==
  /\ cpc = "stopping" /\ stop_flag = 2
  /\ cpc' = "freed"
  /\ UNCHANGED <<stop_flag, num_threads, mutex, ringVars, mpc, accepted, pc,
                 client, loaded, netVars, faults>>

-------------------------------------------------------------------------------
\* Clients and the kernel.

Connect(c) ==
  /\ c \in fresh /\ mpc \notin ClosedPoints
  /\ fresh' = fresh \ {c}
  /\ backlog' = Append(backlog, c)
  /\ UNCHANGED <<stop_flag, num_threads, mutex, ringVars, mpc, accepted, pc,
                 client, startVars, closed, faults>>

-------------------------------------------------------------------------------
\* The master thread.

\* The head of master_thread's loop.  Leaving it closes the listening socket,
\* and the kernel resets what is in its backlog.
MasterLoop ==
  /\ mpc = "loop"
  /\ \/ /\ stop_flag = 0
        /\ mpc' = "accept"
        /\ UNCHANGED backlog
     \/ /\ stop_flag # 0
        /\ mpc' = "broadcast"
        /\ backlog' = <<>>
  /\ UNCHANGED <<stop_flag, num_threads, mutex, ringVars, accepted, pc,
                 client, startVars, fresh, closed, faults>>

Accept ==
  /\ mpc = "accept" /\ backlog # <<>>
  /\ accepted' = Head(backlog)
  /\ backlog' = Tail(backlog)
  /\ mpc' = "lock"
  /\ UNCHANGED <<stop_flag, num_threads, mutex, ringVars, pc, client,
                 startVars, fresh, closed, faults>>

\* The listening socket has a receive timeout, so accept() comes back.
AcceptTimesOut ==
  /\ mpc = "accept" /\ backlog = <<>>
  /\ mpc' = "loop"
  /\ UNCHANGED <<stop_flag, num_threads, mutex, ringVars, accepted, pc,
                 client, startVars, netVars, faults>>

\* produce_socket takes the mutex, the first time or after a wait.
ProduceLock ==
  /\ mpc \in {"lock", "relock"} /\ mutex = Nobody
  /\ mutex' = Master
  /\ mpc' = "test"
  /\ UNCHANGED <<stop_flag, num_threads, ringVars, accepted, pc, client,
                 startVars, netVars, faults>>

\* Mutant: an off-by-one in the test for a full ring.
QueueFullLate == sq_head - sq_tail > QueueSize

QueueFull == sq_head - sq_tail >= QueueSize

ProduceWait ==
  /\ mpc = "test" /\ QueueFull
  /\ mutex' = Nobody
  /\ mpc' = "wait"
  /\ UNCHANGED <<stop_flag, num_threads, ringVars, accepted, pc, client,
                 startVars, netVars, faults>>

\* Mutant: no worker is told that a socket was queued.
SignalNobody == UNCHANGED pc

\* Mutant: a worker that is signalled goes on without taking the mutex again.
SignalWithoutRelock ==
  LET sleepers == {w \in Workers : pc[w] = "wait"}
  IN  \/ sleepers = {} /\ UNCHANGED pc
      \/ \E w \in sleepers : Goto(w, "test")

\* pthread_cond_signal(&ctx->sq_full): one waiting worker, if there is one.
SignalFull ==
  LET sleepers == {w \in Workers : pc[w] = "wait"}
  IN  \/ sleepers = {} /\ UNCHANGED pc
      \/ \E w \in sleepers : Goto(w, "lock")

Enqueue ==
  /\ mpc = "test" /\ ~QueueFull
  /\ queue' = [queue EXCEPT ![sq_head % QueueSize] = accepted]
  /\ sq_head' = sq_head + 1
  /\ accepted' = NoConn
  /\ SignalFull
  /\ mpc' = "loop"
  /\ UNCHANGED <<num_threads, sq_tail, client, startVars, netVars>>

Produce ==
  /\ Enqueue
  /\ mutex' = Nobody
  /\ UNCHANGED <<stop_flag, faults>>

\* produce_socket returns 0 and the master sets stop_flag: the mutex could
\* not be taken, the wait failed, or (with the socket queued) the mutex could
\* not be released.
ProduceFails ==
  /\ Fault
  /\ stop_flag' = 1
  /\ \/ Enqueue /\ UNCHANGED mutex
     \/ /\ \/ mpc = "lock" /\ UNCHANGED mutex
           \/ mpc = "test" /\ QueueFull /\ mutex' = Nobody
        /\ accepted' = NoConn
        /\ mpc' = "loop"
        /\ UNCHANGED <<num_threads, ringVars, pc, client, startVars, netVars>>

\* pthread_cond_broadcast(&ctx->sq_full), made without the mutex.
Broadcast ==
  /\ mpc = "broadcast"
  /\ pc' = [w \in Workers |-> IF pc[w] = "wait" THEN "lock" ELSE pc[w]]
  /\ mpc' = "joinlock"
  /\ UNCHANGED <<stop_flag, num_threads, mutex, ringVars, accepted, client,
                 startVars, netVars, faults>>

\* Mutant: the wait for the workers to exit is guarded by an if, not a while.
JoinLockOnce ==
  /\ mpc \in {"joinlock", "rejoin"} /\ mutex = Nobody
  /\ mpc' = IF mpc = "joinlock" THEN "join" ELSE "destroy"
  /\ mutex' = IF mpc = "joinlock" THEN Master ELSE Nobody
  /\ UNCHANGED <<stop_flag, num_threads, ringVars, accepted, pc, client,
                 startVars, netVars, faults>>

JoinLock ==
  /\ mpc \in {"joinlock", "rejoin"} /\ mutex = Nobody
  /\ mutex' = Master
  /\ mpc' = "join"
  /\ UNCHANGED <<stop_flag, num_threads, ringVars, accepted, pc, client,
                 startVars, netVars, faults>>

\* The mutex cannot be taken: skip the join and clean up.
JoinLockFails ==
  /\ mpc = "joinlock"
  /\ Fault
  /\ mpc' = "destroy"
  /\ UNCHANGED <<stop_flag, num_threads, mutex, ringVars, accepted, pc,
                 client, startVars, netVars>>

Join ==
  /\ mpc = "join"
  /\ mutex' = Nobody
  /\ mpc' = IF num_threads > 0 THEN "joinwait" ELSE "destroy"
  /\ UNCHANGED <<stop_flag, num_threads, ringVars, accepted, pc, client,
                 startVars, netVars, faults>>

\* Destroys the mutex and the condition variables, then tells mg_stop.
Destroy ==
  /\ mpc = "destroy"
  /\ stop_flag' = 2
  /\ mpc' = "gone"
  /\ UNCHANGED <<num_threads, mutex, ringVars, accepted, pc, client,
                 startVars, netVars, faults>>

MasterWakesUp ==
  /\ mpc \in {"wait", "joinwait"}
  /\ mpc' = IF mpc = "wait" THEN "relock" ELSE "rejoin"
  /\ UNCHANGED <<stop_flag, num_threads, mutex, ringVars, accepted, pc,
                 client, startVars, netVars, faults>>

-------------------------------------------------------------------------------
\* A worker thread.

WorkerLoop(w) ==
  /\ pc[w] = "loop"
  /\ Goto(w, IF stop_flag = 0 THEN "lock" ELSE "exit")
  /\ UNCHANGED <<stop_flag, num_threads, mutex, ringVars, mpc, accepted,
                 client, startVars, netVars, faults>>

\* Mutant: the wait is guarded by an if, not a while.
ConsumeLockNoRetest(w) ==
  /\ pc[w] = "lock" /\ mutex = Nobody
  /\ mutex' = w
  /\ \E point \in {"test", "take"} : Goto(w, point)
  /\ UNCHANGED <<stop_flag, num_threads, ringVars, mpc, accepted, client,
                 startVars, netVars, faults>>

\* consume_socket takes the mutex, the first time or after a wait.
ConsumeLock(w) ==
  /\ pc[w] = "lock" /\ mutex = Nobody
  /\ mutex' = w
  /\ Goto(w, "test")
  /\ UNCHANGED <<stop_flag, num_threads, ringVars, mpc, accepted, client,
                 startVars, netVars, faults>>

ConsumeTest(w) ==
  /\ pc[w] = "test"
  /\ Goto(w, IF sq_head = sq_tail /\ stop_flag = 0 THEN "block" ELSE "take")
  /\ UNCHANGED <<stop_flag, num_threads, mutex, ringVars, mpc, accepted,
                 client, startVars, netVars, faults>>

ConsumeWait(w) ==
  /\ pc[w] = "block"
  /\ mutex' = Nobody
  /\ Goto(w, "wait")
  /\ UNCHANGED <<stop_flag, num_threads, ringVars, mpc, accepted, client,
                 startVars, netVars, faults>>

\* Mutant: the positions are never brought back below QueueSize.
WrapsNever == 0

\* How often the loop at the end of consume_socket subtracts QueueSize.
Wraps == IF sq_tail + 1 > QueueSize THEN 1 ELSE 0

\* Mutant: the newest socket is taken, not the oldest.
ConsumeNewest(w) ==
  /\ pc[w] = "take" /\ stop_flag = 0
  /\ client' = [client EXCEPT ![w] = queue[(sq_head - 1) % QueueSize]]
  /\ sq_tail' = sq_tail + 1 - Wraps * QueueSize
  /\ sq_head' = sq_head - Wraps * QueueSize
  /\ mpc' = IF mpc = "wait" THEN "relock" ELSE mpc
  /\ mutex' = Nobody
  /\ Goto(w, "serve")
  /\ UNCHANGED <<stop_flag, num_threads, queue, accepted, startVars, netVars,
                 faults>>

Consume(w) ==
  /\ pc[w] = "take" /\ stop_flag = 0
  /\ client' = [client EXCEPT ![w] = queue[sq_tail % QueueSize]]
  /\ sq_tail' = sq_tail + 1 - Wraps * QueueSize
  /\ sq_head' = sq_head - Wraps * QueueSize
  /\ mpc' = IF mpc = "wait" THEN "relock" ELSE mpc
  /\ mutex' = Nobody
  /\ Goto(w, "serve")
  /\ UNCHANGED <<stop_flag, num_threads, queue, accepted, startVars, netVars,
                 faults>>

ConsumeStops(w) ==
  /\ pc[w] = "take" /\ stop_flag # 0
  /\ mutex' = Nobody
  /\ Goto(w, "exit")
  /\ UNCHANGED <<stop_flag, num_threads, ringVars, mpc, accepted, client,
                 startVars, netVars, faults>>

Serve(w) ==
  /\ pc[w] = "serve"
  /\ closed' = closed \cup {client[w]}
  /\ client' = [client EXCEPT ![w] = NoConn]
  /\ Goto(w, "loop")
  /\ UNCHANGED <<stop_flag, num_threads, mutex, ringVars, mpc, accepted,
                 startVars, backlog, fresh, faults>>

\* Mutant: the master is not told that one more worker has gone.
ExitSilently(w) ==
  /\ pc[w] = "exit" /\ mutex = Nobody
  /\ num_threads' = num_threads - 1
  /\ Goto(w, "gone")
  /\ UNCHANGED <<stop_flag, mutex, ringVars, mpc, accepted, client, startVars,
                 netVars, faults>>

\* Mutant: a worker leaves without decrementing num_threads.
ExitUncounted(w) ==
  /\ pc[w] = "exit" /\ mutex = Nobody
  /\ mpc' = IF mpc = "joinwait" THEN "rejoin" ELSE mpc
  /\ Goto(w, "gone")
  /\ UNCHANGED <<stop_flag, num_threads, mutex, ringVars, accepted, client,
                 startVars, netVars, faults>>

Exit(w) ==
  /\ pc[w] = "exit" /\ mutex = Nobody
  /\ num_threads' = num_threads - 1
  /\ mpc' = IF mpc = "joinwait" THEN "rejoin" ELSE mpc
  /\ Goto(w, "gone")
  /\ UNCHANGED <<stop_flag, mutex, ringVars, accepted, client, startVars,
                 netVars, faults>>

WorkerWakesUp(w) ==
  /\ pc[w] = "wait"
  /\ Goto(w, "lock")
  /\ UNCHANGED <<stop_flag, num_threads, mutex, ringVars, mpc, accepted,
                 client, startVars, netVars, faults>>

-------------------------------------------------------------------------------
CallerStep == \/ \E w \in Workers : SpawnWorker(w)
              \/ LoadCount \/ StoreCount \/ StartReturns \/ StopReturns
MasterStep == \/ MasterLoop \/ Accept \/ AcceptTimesOut
              \/ ProduceLock \/ ProduceWait \/ Produce
              \/ Broadcast \/ JoinLock \/ Join \/ Destroy
WorkerStep(w) == \/ WorkerLoop(w) \/ ConsumeLock(w) \/ ConsumeTest(w)
                 \/ ConsumeWait(w) \/ Consume(w) \/ ConsumeStops(w)
                 \/ Serve(w) \/ Exit(w)
\* The failures that the code tests for: of pthread_create, of the calls in
\* produce_socket, of the lock before the join.  The calls whose result is
\* ignored are taken to succeed: the locks of the workers (their failure would
\* put a worker into its critical section without the mutex; the comment in
\* worker_thread admits it), and the waits and unlocks of workers and join.
PthreadFault == \/ \E w \in Workers : SpawnFails(w)
                \/ ProduceFails \/ JoinLockFails
SpuriousWakeUp == MasterWakesUp \/ \E w \in Workers : WorkerWakesUp(w)

Next == \/ CallerStep \/ CallStop
        \/ \E c \in Conns : Connect(c)
        \/ MasterStep
        \/ \E w \in Workers : WorkerStep(w)
        \/ PthreadFault \/ SpuriousWakeUp

Spec == Init /\ [][Next]_vars

\* Threads that can run do run; nobody has to call mg_stop, to connect or to
\* fail.  pthread_cond_wait returns without a signal only now and then: were
\* it to do so for ever, one thread could keep the mutex from another.
Fairness == /\ WF_vars(CallerStep) /\ WF_vars(MasterStep)
            /\ \A w \in Workers : WF_vars(WorkerStep(w))
            /\ <>[][~SpuriousWakeUp]_vars

FairSpec == Spec /\ Fairness

-------------------------------------------------------------------------------
\* Properties.

\* The types.  The positions stay small: sq_tail is brought back as soon as
\* it passes QueueSize, so neither counter can overflow however long the
\* server runs.
TypeOK ==
  /\ stop_flag \in 0 .. 2 /\ num_threads \in Int /\ loaded \in Int
  /\ mutex \in Workers \cup {Master, Nobody}
  /\ queue \in [0 .. QueueSize - 1 -> Conns \cup {NoConn}]
  /\ sq_tail \in 0 .. QueueSize /\ sq_head \in 0 .. 2 * QueueSize
  /\ mpc \in MasterPoints /\ accepted \in Conns \cup {NoConn}
  /\ pc \in [Workers -> WorkerPoints]
  /\ client \in [Workers -> Conns \cup {NoConn}]
  /\ cpc \in {"start", "load", "store", "running", "stopping", "freed"}
  /\ backlog \in Seq(Conns) /\ fresh \subseteq Conns /\ closed \subseteq Conns
  /\ faults \in 0 .. MaxFaults

\* The ring never holds more sockets than it has slots, nor fewer than none,
\* whoever was waiting, woken or failing with an error the code tests for when it
\* changed (the assertions in consume_socket and produce_socket).
RingWithinBounds == sq_head - sq_tail \in 0 .. QueueSize

\* A worker that is about to take a socket finds one: between its test of the
\* ring and its taking the socket nobody else empties it, and a worker woken
\* for a socket that another one took goes back to sleep.
TakeFindsSocket ==
  \A w \in Workers : pc[w] = "take" /\ stop_flag = 0 => sq_head > sq_tail

\* At most one thread is inside produce_socket, consume_socket or the join of
\* master_thread, and it is the one that holds ctx->mutex, unless a lock whose
\* result is ignored fails.
MutualExclusion ==
  /\ \A w \in Workers : pc[w] \in HoldPoints => mutex = w
  /\ mpc \in {"test", "join"} => mutex = Master

\* Where there should be a socket there is one: in every slot of the ring in
\* use, in the master's hand while it queues it, in a worker that serves it.
HoldsSockets ==
  /\ \A k \in sq_tail .. sq_head - 1 : queue[k % QueueSize] \in Conns
  /\ mpc \in {"lock", "test", "wait", "relock"} => accepted \in Conns
  /\ \A w \in Workers : pc[w] = "serve" => client[w] \in Conns

\* A worker outside its idle part serves a connection, never an empty slot of
\* the ring, and no two workers serve the same one.
ServesOne ==
  \A w \in Workers :
    /\ pc[w] = "serve" <=> client[w] \in Conns
    /\ \A v \in Workers \ {w} : client[w] \in Conns => client[v] # client[w]

\* num_threads, incremented without the mutex and decremented with it, is the
\* number of workers that have not gone, but for the one mg_start is counting:
\* no increment is lost and no worker exits before it is counted (the
\* assertion in worker_thread), as long as no pthread call fails.
CountsWorkers ==
  LET alive == {w \in Workers : pc[w] \notin {"unborn", "gone"}}
      uncounted == IF cpc \in {"load", "store"} THEN 1 ELSE 0
  IN  faults = 0 => num_threads + uncounted = Cardinality(alive)

\* If no pthread call fails, mg_stop gets its answer, and frees the context,
\* only after every worker has stopped using it.
ExitBeforeFree ==
  faults = 0 /\ stop_flag = 2 => \A w \in Workers : pc[w] = "gone"

\* The connections that wait for a worker, oldest first: those in the ring,
\* the one the master has in hand and those in the kernel's backlog.
InRing == [i \in 1 .. sq_head - sq_tail |-> queue[(sq_tail + i - 1) % QueueSize]]
InHand == IF accepted = NoConn THEN <<>> ELSE <<accepted>>

Queue == INSTANCE ConnQueue
           WITH waiting <- InRing \o InHand \o backlog, serving <- client,
                stopping <- stop_flag # 0

\* The pool of threads serves connections as ConnQueue says: in the order
\* they arrived, each by one worker, none dropped before the server stops.
ServesInOrder == Queue!Spec

\* A client that connects is served, unless the server is stopped: no wake-up
\* that the master or a worker owes the other is lost while it runs.
ServedUnlessStopped ==
  \A c \in Conns : c \notin fresh ~> c \in closed \/ stop_flag # 0

\* mg_stop returns, unless a thread sleeps for ever on a condition variable
\* that nobody signals any more: a worker on sq_full or the master on sq_empty.
StopHangsOnlyAsleep ==
  \/ cpc = "stopping" ~> cpc = "freed"
  \/ <>[](\E w \in Workers : pc[w] = "wait")
  \/ <>[](mpc = "wait")

\* "This function blocks until all Mongoose threads are stopped"; the master
\* wakes "workers that are waiting for connections to handle": told to stop,
\* no worker sleeps for ever on sq_full.
StopWakesWorkers ==
  \A w \in Workers : cpc = "stopping" /\ pc[w] = "wait" ~> pc[w] # "wait"

\* stop_flag = 2 is the master's "Signal mg_stop() that we're done": once it
\* is given nobody takes it back before mg_stop has seen it.
DoneStaysSignalled == [][stop_flag = 2 => stop_flag' = 2]_stop_flag
===============================================================================
