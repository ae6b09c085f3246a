-------------------------- MODULE PoolServiceProofs --------------------------
(***************************************************************************)
(* Proofs that MongoosePool serves every connection once, and in order:    *)
(* that it implements ConnQueue, for any number of workers, connections,   *)
(* slots and failures of the pthread calls that the code tests (the others *)
(* are taken to succeed, see PthreadFault in MongoosePool).                *)
(***************************************************************************)
EXTENDS MongoosePoolProofs, SequenceTheorems

\* Where a connection may be: in the kernel's backlog, in the master's hand,
\* in a slot of the ring in use, or with a worker.
InUse == sq_tail .. sq_head - 1
Slot(k) == queue[k % QueueSize]
Backlogged == {backlog[i] : i \in DOMAIN backlog}
Ringed == {Slot(k) : k \in InUse}
Served == {client[w] : w \in Workers}

\* The master has a connection in hand only inside produce_socket.
InHandWhileProducing ==
  mpc \notin {"lock", "test", "wait", "relock"} => accepted = NoConn

\* No connection is in two of these places, nor twice in one of them, and one
\* that no client has opened is in none.
NowhereTwice ==
  /\ \A i, j \in DOMAIN backlog : backlog[i] = backlog[j] => i = j
  /\ \A k, l \in InUse : Slot(k) = Slot(l) => k = l
  /\ fresh \cap (Backlogged \cup {accepted} \cup Ringed \cup Served \cup closed) = {}
  /\ Backlogged \cap ({accepted} \cup Ringed \cup Served) = {}
  /\ accepted \in Conns => accepted \notin Ringed \cup Served
  /\ Ringed \cap Served = {}

OnceInv == NowhereTwice /\ InHandWhileProducing /\ ServesOne

-------------------------------------------------------------------------------
\* Different positions in use are different slots, and the next free position
\* is a slot of its own.
LEMMA SlotsDiffer ==
  ASSUME NEW Q \in Nat \ {0}, NEW j \in 0 .. 2 * Q - 1, NEW k \in 0 .. 2 * Q - 1,
         j < k, k - j < Q
  PROVE  j % Q # k % Q
<1>1. CASE k < Q
  BY <1>1, WrapKeepsSlot
<1>2. CASE k >= Q /\ j < Q
  <2>1. k - Q \in 0 .. Q - 1 /\ k = (k - Q) + Q
    BY <1>2
  <2>2. k % Q = k - Q
    BY <2>1, WrapKeepsSlot
  <2>3. j % Q = j
    BY <1>2, WrapKeepsSlot
  <2> QED
    BY <1>2, <2>2, <2>3
<1>3. CASE j >= Q
  <2>1. /\ k - Q \in 0 .. Q - 1 /\ k = (k - Q) + Q
        /\ j - Q \in 0 .. Q - 1 /\ j = (j - Q) + Q
    BY <1>3
  <2>2. k % Q = k - Q
    BY <2>1, WrapKeepsSlot
  <2>3. j % Q = j - Q
    BY <2>1, WrapKeepsSlot
  <2> QED
    BY <2>2, <2>3
<1> QED
  BY <1>1, <1>2, <1>3

-------------------------------------------------------------------------------
LEMMA InitOnceInv == Init => OnceInv
<1> SUFFICES ASSUME Init PROVE OnceInv
  OBVIOUS
<1>1. DOMAIN backlog = {} /\ InUse = {}
  BY DEF Init, InUse
<1>2. Backlogged = {} /\ Ringed = {} /\ Served \subseteq {NoConn}
  BY <1>1 DEF Init, Backlogged, Ringed, Served
<1>3. fresh = Conns /\ closed = {} /\ accepted = NoConn /\ NoConn \notin Conns
  BY PoolAssumption DEF Init
<1>4. NowhereTwice
  BY <1>1, <1>2, <1>3 DEF NowhereTwice
<1>5. InHandWhileProducing /\ ServesOne
  BY <1>3 DEF Init, InHandWhileProducing, ServesOne
<1> QED
  BY <1>4, <1>5 DEF OnceInv

\* Every socket is a connection: NoConn is in none of the places.
LEMMA PlacesAreConns ==
  ASSUME IInv
  PROVE  Backlogged \subseteq Conns /\ Ringed \subseteq Conns
  BY DEF IInv, TypeOK, HoldsSockets, Backlogged, Ringed, InUse, Slot

\* A step that moves no connection, though the master may drop the one it has
\* in hand, keeps the invariant.
LEMMA QuietKeepsOnceInv ==
  ASSUME IInv, OnceInv,
         UNCHANGED <<ringVars, netVars, client>>,
         accepted' \in {accepted, NoConn},
         mpc' \notin {"lock", "test", "wait", "relock"} =>
           accepted' = NoConn \/ mpc \notin {"lock", "test", "wait", "relock"},
         \A w \in Workers : pc'[w] = "serve" <=> pc[w] = "serve"
  PROVE  OnceInv'
<1>1. /\ Backlogged' = Backlogged /\ Ringed' = Ringed /\ Served' = Served
      /\ InUse' = InUse /\ \A k : Slot(k)' = Slot(k)
  BY DEF Backlogged, Ringed, Served, InUse, Slot, ringVars, netVars
<1>2. NowhereTwice'
  BY <1>1, PlacesAreConns, PoolAssumption
     DEF OnceInv, NowhereTwice, netVars, IInv, TypeOK
<1>3. InHandWhileProducing' /\ ServesOne'
  BY DEF OnceInv, InHandWhileProducing, ServesOne
<1> QED
  BY <1>2, <1>3 DEF OnceInv

LEMMA ConnectKeepsOnceInv ==
  ASSUME IInv, OnceInv, NEW c \in Conns, Connect(c)
  PROVE  OnceInv'
<1> USE DEF Connect
<1>1. backlog \in Seq(Conns) /\ backlog' = Append(backlog, c)
  BY DEF IInv, TypeOK
<1>2. /\ Len(backlog') = Len(backlog) + 1
      /\ DOMAIN backlog = 1 .. Len(backlog) /\ DOMAIN backlog' = 1 .. Len(backlog')
      /\ \A i \in 1 .. Len(backlog) : backlog'[i] = backlog[i]
      /\ backlog'[Len(backlog) + 1] = c
  BY <1>1, AppendProperties
<1>3. Backlogged' = Backlogged \cup {c}
  BY <1>1, <1>2 DEF Backlogged
<1>4. /\ Ringed' = Ringed /\ Served' = Served
      /\ InUse' = InUse /\ \A k : Slot(k)' = Slot(k)
  BY DEF Ringed, Served, InUse, Slot, ringVars
<1>5. c \in fresh /\ c \notin Backlogged \cup {accepted} \cup Ringed \cup Served
  BY DEF OnceInv, NowhereTwice
<1>6. \A i, j \in DOMAIN backlog' : backlog'[i] = backlog'[j] => i = j
  BY <1>1, <1>2, <1>5 DEF OnceInv, NowhereTwice, Backlogged
<1>7. NowhereTwice'
  BY <1>3, <1>4, <1>5, <1>6 DEF OnceInv, NowhereTwice
<1> QED
  BY <1>7 DEF OnceInv, InHandWhileProducing, ServesOne, startVars

LEMMA AcceptKeepsOnceInv ==
  ASSUME IInv, OnceInv, Accept
  PROVE  OnceInv'
<1> USE DEF Accept
<1>1. backlog \in Seq(Conns) /\ backlog # <<>> /\ backlog' = Tail(backlog)
  BY DEF IInv, TypeOK
<1>2. /\ DOMAIN backlog = 1 .. Len(backlog) /\ Len(backlog) \in Nat \ {0}
      /\ DOMAIN backlog' = 1 .. Len(backlog) - 1
      /\ \A i \in 1 .. Len(backlog) - 1 : backlog'[i] = backlog[i + 1]
      /\ accepted' = backlog[1]
  BY <1>1, HeadTailProperties
<1>3. accepted' \in Backlogged
  BY <1>2 DEF Backlogged
<1>4. \A i \in DOMAIN backlog' :
        i + 1 \in DOMAIN backlog /\ i + 1 # 1 /\ backlog'[i] = backlog[i + 1]
  BY <1>2
<1>5. accepted' \notin Backlogged' /\ Backlogged' \subseteq Backlogged
  BY <1>2, <1>4 DEF OnceInv, NowhereTwice, Backlogged
<1>6. \A i, j \in DOMAIN backlog' : backlog'[i] = backlog'[j] => i = j
  BY <1>2, <1>4 DEF OnceInv, NowhereTwice
<1>7. /\ Ringed' = Ringed /\ Served' = Served
      /\ InUse' = InUse /\ \A k : Slot(k)' = Slot(k)
  BY DEF Ringed, Served, InUse, Slot, ringVars
<1>8. NowhereTwice'
  BY <1>3, <1>5, <1>6, <1>7 DEF OnceInv, NowhereTwice
<1> QED
  BY <1>8 DEF OnceInv, InHandWhileProducing, ServesOne, startVars

\* The connection the master queues gets a slot that was not in use.
LEMMA EnqueueMovesOne ==
  ASSUME IInv, Enqueue
  PROVE  /\ accepted \in Conns
         /\ InUse' = InUse \cup {sq_head} /\ sq_head \notin InUse
         /\ queue'[sq_head % QueueSize] = accepted
         /\ \A k \in InUse : Slot(k)' = Slot(k)
<1> USE DEF Enqueue, QueueFull
<1>1. /\ sq_tail \in 0 .. QueueSize /\ sq_head - sq_tail \in 0 .. QueueSize - 1
      /\ sq_head \in Nat /\ QueueSize \in Nat \ {0}
      /\ sq_head' = sq_head + 1 /\ sq_tail' = sq_tail
  BY PoolAssumption DEF IInv, TypeOK, RingWithinBounds
<1>2. accepted \in Conns
  BY DEF IInv, HoldsSockets
<1>3. InUse' = InUse \cup {sq_head} /\ sq_head \notin InUse
  BY <1>1 DEF InUse
<1>4. sq_head % QueueSize \in 0 .. QueueSize - 1
  BY <1>1, SlotInRange
<1>5. queue'[sq_head % QueueSize] = accepted
  BY <1>4 DEF IInv, TypeOK
<1>6. ASSUME NEW k \in InUse PROVE Slot(k)' = Slot(k)
  <2>1. /\ k \in 0 .. 2 * QueueSize - 1 /\ sq_head \in 0 .. 2 * QueueSize - 1
        /\ k < sq_head /\ sq_head - k < QueueSize /\ k \in Nat
    BY <1>1, <1>6 DEF InUse
  <2>2. k % QueueSize # sq_head % QueueSize /\ k % QueueSize \in 0 .. QueueSize - 1
    BY <1>1, <2>1, SlotsDiffer, SlotInRange
  <2> QED
    BY <2>2 DEF Slot, IInv, TypeOK
<1> QED
  BY <1>2, <1>3, <1>5, <1>6

LEMMA EnqueueKeepsOnceInv ==
  ASSUME IInv, OnceInv, Enqueue
  PROVE  OnceInv'
<1>1. /\ accepted \in Conns
      /\ InUse' = InUse \cup {sq_head} /\ sq_head \notin InUse
      /\ queue'[sq_head % QueueSize] = accepted
      /\ \A k \in InUse : Slot(k)' = Slot(k)
  BY EnqueueMovesOne
<1>2. /\ accepted' = NoConn /\ mpc' = "loop"
      /\ UNCHANGED <<client, fresh, closed, backlog>>
      /\ \A w \in Workers : pc'[w] = "serve" <=> pc[w] = "serve"
  BY DEF Enqueue, netVars, SignalFull, Goto, IInv, TypeOK
<1> DEFINE NewSlot(k) == queue'[k % QueueSize]
<1>3. Ringed' = Ringed \cup {accepted}
  <2>1. Ringed' = {NewSlot(k) : k \in InUse'}
    BY DEF Ringed, Slot
  <2>2. NewSlot(sq_head) = accepted /\ \A k \in InUse : NewSlot(k) = Slot(k)
    BY <1>1 DEF Slot
  <2> HIDE DEF NewSlot
  <2> QED
    BY <1>1, <2>1, <2>2 DEF Ringed
<1>4. Backlogged' = Backlogged /\ Served' = Served
  BY <1>2 DEF Backlogged, Served
<1>5. accepted \notin Ringed
  BY <1>1 DEF OnceInv, NowhereTwice
<1>6. ASSUME NEW k \in InUse', NEW l \in InUse', Slot(k)' = Slot(l)'
      PROVE  k = l
  <2>1. \A m \in InUse : Slot(m)' # accepted
    BY <1>1, <1>5 DEF Ringed
  <2>2. k = sq_head => Slot(k)' = accepted
    BY <1>1 DEF Slot
  <2>3. l = sq_head => Slot(l)' = accepted
    BY <1>1 DEF Slot
  <2> QED
    BY <1>1, <1>6, <2>1, <2>2, <2>3 DEF OnceInv, NowhereTwice
<1>7. NowhereTwice'
  <2>1. \A k, l \in InUse' : Slot(k)' = Slot(l)' => k = l
    BY <1>6
  <2>2. /\ (fresh \cap (Backlogged \cup {accepted} \cup Ringed \cup Served \cup closed) = {})'
        /\ (Backlogged \cap ({accepted} \cup Ringed \cup Served) = {})'
        /\ (Ringed \cap Served = {})'
    BY <1>1, <1>2, <1>3, <1>4, PlacesAreConns, PoolAssumption
       DEF OnceInv, NowhereTwice, IInv, TypeOK
  <2> QED
    BY <1>2, <2>1, <2>2, PoolAssumption DEF OnceInv, NowhereTwice
<1> QED
  BY <1>2, <1>7 DEF OnceInv, InHandWhileProducing, ServesOne

-------------------------------------------------------------------------------
\* Bringing the positions back moves no socket: after a worker has taken one,
\* each position in use stands for a slot that was in use before.
LEMMA ConsumeMovesOne ==
  ASSUME IInv, NEW w \in Workers, Consume(w)
  PROVE  /\ sq_tail \in InUse /\ client'[w] = Slot(sq_tail)
         /\ \A k \in InUse' : /\ k + Wraps * QueueSize \in InUse \ {sq_tail}
                              /\ Slot(k)' = Slot(k + Wraps * QueueSize)
<1>1. /\ sq_tail \in 0 .. QueueSize /\ sq_head \in 0 .. 2 * QueueSize
      /\ sq_head - sq_tail \in 0 .. QueueSize /\ sq_head > sq_tail
      /\ QueueSize \in Nat \ {0}
  BY PoolAssumption DEF IInv, TypeOK, RingWithinBounds, TakeFindsSocket, Consume
<1>2. /\ sq_tail' = sq_tail + 1 - Wraps * QueueSize
      /\ sq_head' = sq_head - Wraps * QueueSize
      /\ queue' = queue
  BY DEF Consume
<1>3. sq_tail \in InUse /\ client'[w] = Slot(sq_tail)
  BY <1>1 DEF InUse, Slot, Consume, IInv, TypeOK
<1>4. ASSUME NEW k \in InUse'
      PROVE  /\ k + Wraps * QueueSize \in InUse \ {sq_tail}
             /\ Slot(k)' = Slot(k + Wraps * QueueSize)
  <2>1. CASE sq_tail + 1 > QueueSize
    <3>1. /\ k \in 0 .. QueueSize - 1 /\ Wraps * QueueSize = QueueSize
          /\ k + QueueSize \in InUse \ {sq_tail}
      BY <1>1, <1>2, <1>4, <2>1 DEF Wraps, InUse
    <3> QED
      BY <1>1, <1>2, <3>1, WrapKeepsSlot DEF Slot
  <2>2. CASE ~(sq_tail + 1 > QueueSize)
    <3>1. k \in Int /\ Wraps * QueueSize = 0 /\ k \in InUse \ {sq_tail}
      BY <1>1, <1>2, <1>4, <2>2 DEF Wraps, InUse
    <3> QED
      BY <1>2, <3>1 DEF Slot
  <2> QED
    BY <2>1, <2>2
<1> QED
  BY <1>3, <1>4

LEMMA ConsumeKeepsOnceInv ==
  ASSUME IInv, OnceInv, NEW w \in Workers, Consume(w)
  PROVE  OnceInv'
<1> DEFINE taken == Slot(sq_tail)
           back(k) == k + Wraps * QueueSize
<1>1. /\ sq_tail \in InUse /\ client'[w] = taken
      /\ \A k \in InUse' : back(k) \in InUse \ {sq_tail} /\ Slot(k)' = Slot(back(k))
  BY ConsumeMovesOne
<1>2. /\ UNCHANGED <<accepted, fresh, closed, backlog>>
      /\ mpc' \notin {"lock", "test", "wait", "relock"} <=>
           mpc \notin {"lock", "test", "wait", "relock"}
      /\ pc'[w] = "serve" /\ \A v \in Workers \ {w} : pc'[v] = pc[v] /\ client'[v] = client[v]
      /\ pc[w] # "serve"
  BY DEF Consume, netVars, Goto, IInv, TypeOK
<1>3. taken \in Ringed /\ taken \in Conns /\ taken \notin Served
  <2>1. taken \in Ringed
    BY <1>1 DEF Ringed
  <2> QED
    BY <2>1, PlacesAreConns DEF OnceInv, NowhereTwice
<1>4. Ringed' \subseteq Ringed \ {taken}
  <2>1. ASSUME NEW k \in InUse' PROVE Slot(k)' \in Ringed \ {taken}
    BY <1>1 DEF Ringed, OnceInv, NowhereTwice
  <2>2. Ringed' = {Slot(k)' : k \in InUse'}
    BY DEF Ringed, Slot
  <2> QED
    BY <2>1, <2>2
<1>5. Served' \subseteq Served \cup {taken}
  BY <1>1, <1>2 DEF Served
<1>6. Backlogged' = Backlogged
  BY <1>2 DEF Backlogged
<1>7. ASSUME NEW k \in InUse', NEW l \in InUse', Slot(k)' = Slot(l)'
      PROVE  k = l
  <2>1. back(k) = back(l)
    BY <1>1, <1>7 DEF OnceInv, NowhereTwice
  <2>2. k \in Int /\ l \in Int /\ Wraps * QueueSize \in Int
    BY PoolAssumption DEF InUse, Wraps, Consume, IInv, TypeOK
  <2> QED
    BY <2>1, <2>2
<1>8. NowhereTwice'
  <2>1. \A k, l \in InUse' : Slot(k)' = Slot(l)' => k = l
    BY <1>7
  <2>2. \A i, j \in DOMAIN backlog' : backlog'[i] = backlog'[j] => i = j
    BY <1>2 DEF OnceInv, NowhereTwice
  <2>3. /\ taken \notin fresh \cup Backlogged /\ taken # accepted
    BY <1>3 DEF OnceInv, NowhereTwice
  <2>4. /\ (fresh \cap (Backlogged \cup {accepted} \cup Ringed \cup Served \cup closed) = {})'
        /\ (Backlogged \cap ({accepted} \cup Ringed \cup Served) = {})'
        /\ (accepted \in Conns => accepted \notin Ringed \cup Served)'
        /\ (Ringed \cap Served = {})'
    BY <1>2, <1>4, <1>5, <1>6, <2>3 DEF OnceInv, NowhereTwice
  <2> QED
    BY <2>1, <2>2, <2>4 DEF NowhereTwice
<1>9. ServesOne'
  <2>1. \A v \in Workers : client'[v] = (IF v = w THEN taken ELSE client[v])
    BY <1>1, <1>2
  <2>2. \A v \in Workers : client[v] # taken
    BY <1>3 DEF Served
  <2> QED
    BY <1>2, <1>3, <2>1, <2>2 DEF OnceInv, ServesOne
<1> QED
  BY <1>2, <1>8, <1>9 DEF OnceInv, InHandWhileProducing

LEMMA ServeKeepsOnceInv ==
  ASSUME IInv, OnceInv, NEW w \in Workers, Serve(w)
  PROVE  OnceInv'
<1> USE DEF Serve
<1>1. /\ Backlogged' = Backlogged /\ Ringed' = Ringed
      /\ InUse' = InUse /\ \A k : Slot(k)' = Slot(k)
  BY DEF Backlogged, Ringed, InUse, Slot, ringVars
<1>2. /\ client[w] \in Served /\ closed' = closed \cup {client[w]}
      /\ Served' \subseteq Served \cup {NoConn}
  BY DEF Served, IInv, TypeOK
<1>3. NowhereTwice'
  BY <1>1, <1>2, PlacesAreConns, PoolAssumption
     DEF OnceInv, NowhereTwice, IInv, TypeOK
<1>4. ServesOne'
  BY PoolAssumption DEF OnceInv, ServesOne, Goto, IInv, TypeOK
<1> QED
  BY <1>3, <1>4 DEF OnceInv, InHandWhileProducing

LEMMA CallerKeepsOnceInv == IInv /\ OnceInv /\ (CallerStep \/ CallStop) => OnceInv'
<1> SUFFICES ASSUME IInv, OnceInv, CallerStep \/ CallStop PROVE OnceInv'
  OBVIOUS
<1>1. UNCHANGED <<ringVars, netVars, client, accepted, mpc>>
  BY DEF CallerStep, CallStop, SpawnWorker, LoadCount, StoreCount, StartReturns,
     StopReturns
<1>2. \A w \in Workers : pc'[w] = "serve" <=> pc[w] = "serve"
  BY DEF CallerStep, CallStop, SpawnWorker, LoadCount, StoreCount, StartReturns,
     StopReturns, Goto, IInv, TypeOK
<1> QED
  BY <1>1, <1>2, QuietKeepsOnceInv DEF OnceInv, InHandWhileProducing

LEMMA MasterKeepsOnceInv == IInv /\ OnceInv /\ MasterStep => OnceInv'
<1> SUFFICES ASSUME IInv, OnceInv, MasterStep PROVE OnceInv'
  OBVIOUS
<1> USE DEF OnceInv, InHandWhileProducing
<1>1. CASE Produce
  BY <1>1, EnqueueKeepsOnceInv DEF Produce
<1>2. CASE Accept
  BY <1>2, AcceptKeepsOnceInv
<1>3. CASE MasterLoop
  <2>1. CASE UNCHANGED backlog
    BY <1>3, <2>1, QuietKeepsOnceInv DEF MasterLoop, netVars
  <2>2. CASE backlog' = <<>> /\ mpc' = "broadcast"
    <3>1. /\ UNCHANGED <<accepted, fresh, closed, client, pc>>
          /\ Ringed' = Ringed /\ Served' = Served
          /\ InUse' = InUse /\ \A k : Slot(k)' = Slot(k)
      BY <1>3 DEF MasterLoop, ringVars, Ringed, Served, InUse, Slot
    <3>2. DOMAIN backlog' = {} /\ Backlogged' = {}
      BY <2>2 DEF Backlogged
    <3>3. NowhereTwice'
      BY <3>1, <3>2 DEF NowhereTwice
    <3> QED
      BY <1>3, <3>1, <3>3 DEF MasterLoop, ServesOne
  <2> QED
    BY <1>3, <2>1, <2>2 DEF MasterLoop
<1>4. CASE AcceptTimesOut
  BY <1>4, QuietKeepsOnceInv DEF AcceptTimesOut
<1>5. CASE ProduceLock
  BY <1>5, QuietKeepsOnceInv DEF ProduceLock
<1>6. CASE ProduceWait
  BY <1>6, QuietKeepsOnceInv DEF ProduceWait
<1>7. CASE Broadcast
  <2>1. \A w \in Workers : pc'[w] = "serve" <=> pc[w] = "serve"
    BY <1>7 DEF Broadcast
  <2> QED
    BY <1>7, <2>1, QuietKeepsOnceInv DEF Broadcast
<1>8. CASE JoinLock
  BY <1>8, QuietKeepsOnceInv DEF JoinLock
<1>9. CASE Join
  BY <1>9, QuietKeepsOnceInv DEF Join
<1>10. CASE Destroy
  BY <1>10, QuietKeepsOnceInv DEF Destroy
<1> QED
  BY <1>1, <1>2, <1>3, <1>4, <1>5, <1>6, <1>7, <1>8, <1>9, <1>10 DEF MasterStep

LEMMA WorkerKeepsOnceInv ==
  ASSUME IInv, OnceInv, NEW w \in Workers, WorkerStep(w)
  PROVE  OnceInv'
<1>0. pc \in [Workers -> WorkerPoints]
  BY DEF IInv, TypeOK
<1> USE <1>0 DEF OnceInv, InHandWhileProducing, Goto
<1>1. CASE Consume(w)
  BY <1>1, ConsumeKeepsOnceInv
<1>2. CASE Serve(w)
  BY <1>2, ServeKeepsOnceInv
<1>3. CASE WorkerLoop(w)
  BY <1>3, QuietKeepsOnceInv DEF WorkerLoop
<1>4. CASE ConsumeLock(w)
  BY <1>4, QuietKeepsOnceInv DEF ConsumeLock
<1>5. CASE ConsumeTest(w)
  BY <1>5, QuietKeepsOnceInv DEF ConsumeTest
<1>6. CASE ConsumeWait(w)
  BY <1>6, QuietKeepsOnceInv DEF ConsumeWait
<1>7. CASE ConsumeStops(w)
  BY <1>7, QuietKeepsOnceInv DEF ConsumeStops
<1>8. CASE Exit(w)
  BY <1>8, QuietKeepsOnceInv DEF Exit
<1> QED
  BY <1>1, <1>2, <1>3, <1>4, <1>5, <1>6, <1>7, <1>8 DEF WorkerStep

LEMMA FaultKeepsOnceInv == IInv /\ OnceInv /\ PthreadFault => OnceInv'
<1> SUFFICES ASSUME IInv, OnceInv, PthreadFault PROVE OnceInv'
  OBVIOUS
<1>1. CASE ProduceFails /\ Enqueue
  BY <1>1, EnqueueKeepsOnceInv
<1>2. CASE ProduceFails /\ ~Enqueue
  <2>1. /\ accepted' = NoConn
        /\ UNCHANGED <<ringVars, netVars, client, pc>>
    BY <1>2 DEF ProduceFails
  <2> QED
    BY <2>1, QuietKeepsOnceInv
<1>3. ASSUME NEW w \in Workers, SpawnFails(w) PROVE OnceInv'
  <2>1. \A v \in Workers : pc'[v] = "serve" <=> pc[v] = "serve"
    BY <1>3 DEF SpawnFails, Goto, IInv, TypeOK
  <2> QED
    BY <1>3, <2>1, QuietKeepsOnceInv DEF SpawnFails, OnceInv, InHandWhileProducing
<1>4. CASE JoinLockFails
  BY <1>4, QuietKeepsOnceInv DEF JoinLockFails, OnceInv, InHandWhileProducing
<1> QED
  BY <1>1, <1>2, <1>3, <1>4 DEF PthreadFault

LEMMA WakeUpKeepsOnceInv ==
  IInv /\ OnceInv /\ (SpuriousWakeUp \/ UNCHANGED vars) => OnceInv'
<1> SUFFICES ASSUME IInv, OnceInv, SpuriousWakeUp \/ UNCHANGED vars PROVE OnceInv'
  OBVIOUS
<1> USE DEF OnceInv, InHandWhileProducing
<1>1. CASE MasterWakesUp
  BY <1>1, QuietKeepsOnceInv DEF MasterWakesUp
<1>2. ASSUME NEW w \in Workers, WorkerWakesUp(w) PROVE OnceInv'
  BY <1>2, QuietKeepsOnceInv DEF WorkerWakesUp, Goto, IInv, TypeOK
<1>3. CASE UNCHANGED vars
  BY <1>3, QuietKeepsOnceInv DEF vars
<1> QED
  BY <1>1, <1>2, <1>3 DEF SpuriousWakeUp

THEOREM OnceInductive == Spec => []OnceInv
<1>1. IInv /\ OnceInv /\ [Next]_vars => OnceInv'
  BY CallerKeepsOnceInv, ConnectKeepsOnceInv, MasterKeepsOnceInv,
     WorkerKeepsOnceInv, FaultKeepsOnceInv, WakeUpKeepsOnceInv DEF Next
<1> QED
  BY InitOnceInv, <1>1, Inductive, PTL DEF Spec

\* No connection is served by two workers, whatever is woken, fails (of the calls
\* that the code tests) or is brought back to the start of the ring.
THEOREM ServesOneSafe == Spec => []ServesOne
<1>1. OnceInv => ServesOne
  BY DEF OnceInv
<1> QED
  BY <1>1, OnceInductive, PTL

-------------------------------------------------------------------------------
\* Sequences.

LEMMA HeadThenTail ==
  ASSUME NEW S, NEW s \in Seq(S), s # <<>>
  PROVE  s = <<Head(s)>> \o Tail(s)
<1>1. /\ Head(s) \in S /\ Tail(s) \in Seq(S) /\ Len(Tail(s)) = Len(s) - 1
      /\ Len(s) \in Nat \ {0} /\ Head(s) = s[1]
      /\ \A i \in 1 .. Len(Tail(s)) : Tail(s)[i] = s[i + 1]
  BY HeadTailProperties
<1>2. <<Head(s)>> \in Seq(S) /\ Len(<<Head(s)>>) = 1 /\ <<Head(s)>>[1] = Head(s)
  BY <1>1
<1>3. /\ <<Head(s)>> \o Tail(s) \in Seq(S)
      /\ Len(<<Head(s)>> \o Tail(s)) = 1 + Len(Tail(s))
      /\ \A i \in 1 .. 1 + Len(Tail(s)) :
           (<<Head(s)>> \o Tail(s))[i] =
              IF i <= 1 THEN <<Head(s)>>[i] ELSE Tail(s)[i - 1]
  BY <1>1, <1>2, ConcatProperties
<1>4. ASSUME NEW i \in 1 .. Len(s) PROVE s[i] = (<<Head(s)>> \o Tail(s))[i]
  BY <1>1, <1>2, <1>3
<1> QED
  BY <1>1, <1>3, <1>4, SeqEqual

\* The converse.
LEMMA HeadOfCons ==
  ASSUME NEW S, NEW x \in S, NEW s \in Seq(S)
  PROVE  /\ <<x>> \o s \in Seq(S) /\ <<x>> \o s # <<>>
         /\ Head(<<x>> \o s) = x /\ Tail(<<x>> \o s) = s
<1>1. <<x>> \in Seq(S) /\ Len(<<x>>) = 1 /\ <<x>>[1] = x
  OBVIOUS
<1>2. /\ <<x>> \o s \in Seq(S) /\ Len(<<x>> \o s) = 1 + Len(s)
      /\ \A i \in 1 .. 1 + Len(s) :
           (<<x>> \o s)[i] = IF i <= 1 THEN <<x>>[i] ELSE s[i - 1]
  BY <1>1, ConcatProperties
<1>3. Len(s) \in Nat /\ <<x>> \o s # <<>> /\ Head(<<x>> \o s) = x
  BY <1>1, <1>2
<1>4. /\ Tail(<<x>> \o s) \in Seq(S) /\ Len(Tail(<<x>> \o s)) = Len(s)
      /\ \A i \in 1 .. Len(s) : Tail(<<x>> \o s)[i] = (<<x>> \o s)[i + 1]
  BY <1>2, <1>3, HeadTailProperties
<1>5. \A i \in 1 .. Len(s) : Tail(<<x>> \o s)[i] = s[i]
  BY <1>2, <1>3, <1>4
<1> QED
  BY <1>2, <1>3, <1>4, <1>5, SeqEqual

\* What is left of a sequence when the elements after i, up to j, go.
Cut(s, i, j) == SubSeq(s, 1, i) \o SubSeq(s, j + 1, Len(s))

\* What is left of three sequences in a row when the one in the middle goes.
LEMMA CutMiddle ==
  ASSUME NEW S, NEW s \in Seq(S), NEW t \in Seq(S), NEW u \in Seq(S)
  PROVE  Cut((s \o t) \o u, Len(s), Len(s) + Len(t)) = s \o u
<1> DEFINE all == (s \o t) \o u
           first == SubSeq(all, 1, Len(s))
           last == SubSeq(all, Len(s) + Len(t) + 1, Len(all))
<1>1. Len(s) \in Nat /\ Len(t) \in Nat /\ Len(u) \in Nat
  BY LenProperties
<1>2. /\ s \o t \in Seq(S) /\ Len(s \o t) = Len(s) + Len(t)
      /\ \A i \in 1 .. Len(s) + Len(t) :
           (s \o t)[i] = IF i <= Len(s) THEN s[i] ELSE t[i - Len(s)]
  BY ConcatProperties
<1>3. /\ all \in Seq(S) /\ Len(all) = Len(s \o t) + Len(u)
      /\ \A i \in 1 .. Len(s \o t) + Len(u) :
           all[i] = IF i <= Len(s \o t) THEN (s \o t)[i] ELSE u[i - Len(s \o t)]
  BY <1>2, ConcatProperties
<1>4. DOMAIN all = 1 .. Len(all) /\ \A i \in 1 .. Len(all) : all[i] \in S
  BY <1>3, LenProperties, ElementOfSeq
<1> HIDE DEF all
<1>5. first \in Seq(S) /\ Len(first) = Len(s) /\ \A i \in 1 .. Len(s) : first[i] = all[i]
  <2>1. \A i \in 1 .. Len(s) : all[i] \in S
    BY <1>1, <1>2, <1>3, <1>4
  <2> QED
    BY <1>1, <2>1, SubSeqProperties
<1>6. first = s
  BY <1>1, <1>2, <1>3, <1>5, SeqEqual
<1>7. /\ last \in Seq(S) /\ Len(last) = Len(u)
      /\ \A i \in 1 .. Len(u) : last[i] = all[Len(s) + Len(t) + i]
  <2> DEFINE m == Len(s) + Len(t) + 1
             n == Len(all)
  <2>1. m \in Int /\ n \in Int /\ n - m + 1 = Len(u) /\ \A i \in m .. n : all[i] \in S
    BY <1>1, <1>2, <1>3, <1>4
  <2>2. /\ SubSeq(all, m, n) \in Seq(S)
        /\ Len(SubSeq(all, m, n)) = IF m <= n THEN n - m + 1 ELSE 0
        /\ \A i \in 1 .. n - m + 1 : SubSeq(all, m, n)[i] = all[m + i - 1]
    <3> HIDE DEF m, n
    <3> QED
      BY <2>1, SubSeqProperties
  <2> QED
    BY <1>1, <2>1, <2>2
<1>8. last = u
  BY <1>1, <1>2, <1>3, <1>7, SeqEqual
<1> QED
  BY <1>6, <1>8 DEF all, Cut

-------------------------------------------------------------------------------
\* MongoosePool implements ConnQueue.

\* The connections that wait, as the refinement maps them.
Line == InRing \o InHand \o backlog

LEMMA RingIsSeq ==
  ASSUME IInv
  PROVE  /\ InRing \in Seq(Conns) /\ Len(InRing) = sq_head - sq_tail
         /\ \A i \in 1 .. sq_head - sq_tail : InRing[i] = Slot(sq_tail + i - 1)
<1> DEFINE n == sq_head - sq_tail
<1>1. n \in Nat /\ sq_tail \in Nat /\ sq_head \in Nat
  BY PoolAssumption DEF IInv, TypeOK, RingWithinBounds
<1>2. \A i \in 1 .. n : sq_tail + i - 1 \in InUse
  BY <1>1 DEF InUse
<1>3. \A i \in 1 .. n : Slot(sq_tail + i - 1) \in Conns
  BY <1>2, PlacesAreConns DEF Ringed
<1>4. InRing = [i \in 1 .. n |-> Slot(sq_tail + i - 1)]
  BY DEF InRing, Slot
<1>5. InRing \in [1 .. n -> Conns]
  BY <1>3, <1>4
<1>6. InRing \in Seq(Conns)
  BY <1>1, <1>5, SeqDef
<1>7. DOMAIN InRing = 1 .. n
  BY <1>4
<1>8. Len(InRing) = n
  BY <1>1, <1>6, <1>7, LenProperties
<1> QED
  BY <1>4, <1>6, <1>8

LEMMA PartsAreSeqs ==
  ASSUME IInv
  PROVE  /\ InRing \in Seq(Conns) /\ InHand \in Seq(Conns) /\ backlog \in Seq(Conns)
         /\ InRing \o InHand \in Seq(Conns) /\ Line \in Seq(Conns)
<1>1. /\ InRing \in Seq(Conns) /\ InHand \in Seq(Conns) /\ backlog \in Seq(Conns)
  BY RingIsSeq DEF IInv, TypeOK, InHand
<1>2. InRing \o InHand \in Seq(Conns)
  BY <1>1, ConcatProperties
<1> QED
  BY <1>1, <1>2, ConcatProperties DEF Line

\* Who waits for a worker is in the backlog, in hand or in the ring.
LEMMA LineIsPlaces ==
  ASSUME IInv, NEW i \in DOMAIN Line
  PROVE  Line[i] \in Backlogged \cup {accepted} \cup Ringed
<1> USE PartsAreSeqs
<1>1. /\ Len(InRing \o InHand) = Len(InRing) + Len(InHand)
      /\ \A j \in 1 .. Len(InRing) + Len(InHand) : (InRing \o InHand)[j] =
           IF j <= Len(InRing) THEN InRing[j] ELSE InHand[j - Len(InRing)]
  BY ConcatProperties
<1>2. /\ Len(Line) = Len(InRing \o InHand) + Len(backlog)
      /\ \A j \in 1 .. Len(InRing \o InHand) + Len(backlog) : Line[j] =
           IF j <= Len(InRing \o InHand) THEN (InRing \o InHand)[j]
           ELSE backlog[j - Len(InRing \o InHand)]
  BY ConcatProperties DEF Line
<1>3. /\ Len(InRing) \in Nat /\ Len(InHand) \in Nat /\ Len(backlog) \in Nat
      /\ DOMAIN Line = 1 .. Len(Line) /\ DOMAIN backlog = 1 .. Len(backlog)
  BY LenProperties
<1>4. \A j \in 1 .. Len(InRing) : InRing[j] \in Ringed
  <2>1. /\ Len(InRing) = sq_head - sq_tail /\ sq_tail \in Nat /\ sq_head \in Nat
        /\ \A j \in 1 .. sq_head - sq_tail : InRing[j] = Slot(sq_tail + j - 1)
    BY RingIsSeq, PoolAssumption DEF IInv, TypeOK
  <2>2. \A j \in 1 .. sq_head - sq_tail : sq_tail + j - 1 \in InUse
    BY <2>1 DEF InUse
  <2> QED
    BY <2>1, <2>2 DEF Ringed
<1>5. \A j \in 1 .. Len(InHand) : InHand[j] = accepted
  BY DEF InHand
<1>6. \A j \in 1 .. Len(backlog) : backlog[j] \in Backlogged
  BY <1>3 DEF Backlogged
<1>7. CASE i <= Len(InRing)
  BY <1>1, <1>2, <1>3, <1>4, <1>7
<1>8. CASE Len(InRing) < i /\ i <= Len(InRing) + Len(InHand)
  <2>1. i - Len(InRing) \in 1 .. Len(InHand) /\ Line[i] = InHand[i - Len(InRing)]
    BY <1>1, <1>2, <1>3, <1>8
  <2> QED
    BY <1>5, <2>1
<1>9. CASE i > Len(InRing) + Len(InHand)
  <2>1. /\ i - Len(InRing \o InHand) \in 1 .. Len(backlog)
        /\ Line[i] = backlog[i - Len(InRing \o InHand)]
    BY <1>1, <1>2, <1>3, <1>9
  <2> QED
    BY <1>6, <2>1
<1> QED
  BY <1>1, <1>2, <1>3, <1>7, <1>8, <1>9

\* A step that moves no connection and does not start the shutdown.
LEMMA QuietIsStutter ==
  ASSUME UNCHANGED <<ringVars, accepted, backlog, client, closed>>,
         stop_flag' # 0 <=> stop_flag # 0
  PROVE  UNCHANGED Queue!vars
  BY DEF Queue!vars, InRing, InHand, ringVars

\* A step at which the server, stopping, abandons some of those who wait.
LEMMA AbandonIsNext ==
  ASSUME NEW i \in 0 .. Len(Line), NEW j \in 0 .. Len(Line), i =< j,
         Line' = Cut(Line, i, j),
         UNCHANGED <<client, closed>>, stop_flag' # 0
  PROVE  Queue!Next
<1>1. (stop_flag' # 0) = TRUE
  OBVIOUS
<1>2. Queue!Abandon(i, j)
  BY <1>1 DEF Queue!Abandon, Line, Cut
<1> QED
  BY <1>2 DEF Queue!Next, Line

\* A step that moves no connection while the server stops.
LEMMA StopIsAbandon ==
  ASSUME IInv, Line' = Line, UNCHANGED <<client, closed>>, stop_flag' # 0
  PROVE  Queue!Next
<1>1. Len(Line) \in Nat /\ Line \in Seq(Conns) /\ <<>> \in Seq(Conns)
  BY PartsAreSeqs, LenProperties, EmptySeq
<1>2. SubSeq(Line, 1, Len(Line)) = Line
  BY <1>1, SubSeqFull
<1>3. SubSeq(Line, Len(Line) + 1, Len(Line)) = <<>>
  BY <1>1, SubSeqEmpty
<1>4. Line' = Cut(Line, Len(Line), Len(Line))
  BY <1>1, <1>2, <1>3, ConcatEmptySeq DEF Cut
<1>5. Len(Line) \in 0 .. Len(Line) /\ Len(Line) =< Len(Line)
  BY <1>1
<1> QED
  BY <1>4, <1>5, AbandonIsNext, Zenon

\* A step at which the server, stopping, drops the middle of three parts.
LEMMA DropIsAbandon ==
  ASSUME NEW s \in Seq(Conns), NEW t \in Seq(Conns), NEW u \in Seq(Conns),
         Line = (s \o t) \o u, Line' = s \o u,
         UNCHANGED <<client, closed>>, stop_flag' # 0
  PROVE  Queue!Next
<1>1. Len(s) \in Nat /\ Len(t) \in Nat /\ Len(u) \in Nat
  BY LenProperties
<1>2. Line' = Cut(Line, Len(s), Len(s) + Len(t))
  BY CutMiddle
<1>3. Len(Line) = Len(s) + Len(t) + Len(u)
  <2>1. s \o t \in Seq(Conns) /\ Len(s \o t) = Len(s) + Len(t)
    BY ConcatProperties
  <2> QED
    BY <2>1, ConcatProperties
<1>4. /\ Len(s) \in 0 .. Len(Line) /\ Len(s) + Len(t) \in 0 .. Len(Line)
      /\ Len(s) =< Len(s) + Len(t)
  BY <1>1, <1>3
<1> QED
  BY <1>2, <1>4, AbandonIsNext, Zenon

LEMMA InitIsQueueInit == Init => Queue!Init
<1> SUFFICES ASSUME Init PROVE Queue!Init
  OBVIOUS
<1>1. IInv /\ sq_head = 0 /\ sq_tail = 0
  BY InitIInv DEF Init
<1>2. InRing \in Seq(Conns) /\ Len(InRing) = 0
  BY <1>1, RingIsSeq
<1>3. InRing = <<>>
  BY <1>2, EmptySeq
<1>4. InHand = <<>> /\ backlog = <<>>
  BY DEF Init, InHand
<1>5. <<>> \o <<>> = <<>>
  BY EmptySeq, ConcatEmptySeq
<1> QED
  BY <1>3, <1>4, <1>5 DEF Queue!Init, Init

LEMMA ConnectIsConnect ==
  ASSUME IInv, OnceInv, NEW c \in Conns, Connect(c)
  PROVE  Queue!Connect(c)
<1> USE DEF Connect
<1>1. c \notin closed /\ c \notin Backlogged \cup {accepted} \cup Ringed \cup Served
  BY DEF OnceInv, NowhereTwice
<1>2. \A i \in DOMAIN Line : Line[i] # c
  BY <1>1, LineIsPlaces
<1>3. \A w \in Workers : client[w] # c
  BY <1>1 DEF Served
<1>4. InRing' = InRing /\ InHand' = InHand
  BY DEF InRing, InHand, ringVars
<1>5. Line' = Append(Line, c)
  <2>1. InRing \o InHand \in Seq(Conns) /\ backlog \in Seq(Conns) /\ <<c>> \in Seq(Conns)
        /\ Line \in Seq(Conns)
    BY PartsAreSeqs
  <2>2. backlog' = backlog \o <<c>>
    BY <2>1, AppendIsConcat
  <2>3. Line' = (InRing \o InHand) \o (backlog \o <<c>>)
    BY <1>4, <2>2 DEF Line
  <2>4. Line' = ((InRing \o InHand) \o backlog) \o <<c>>
    BY <2>1, <2>3, ConcatAssociative
  <2> QED
    BY <2>1, <2>4, AppendIsConcat DEF Line
<1>6. c \notin Queue!ToSet(Line) \cup closed
  BY <1>1, <1>2 DEF Queue!ToSet
<1> QED
  BY <1>3, <1>5, <1>6 DEF Queue!Connect, Line

\* accept() hands the master the oldest connection of the backlog.
LEMMA AcceptIsStutter ==
  ASSUME IInv, OnceInv, Accept
  PROVE  UNCHANGED Queue!vars
<1> USE DEF Accept
<1>1. backlog \in Seq(Conns) /\ backlog # <<>> /\ InRing \in Seq(Conns)
  BY PartsAreSeqs
<1>2. Head(backlog) \in Conns /\ Tail(backlog) \in Seq(Conns)
      /\ backlog = <<Head(backlog)>> \o Tail(backlog)
  BY <1>1, HeadTailProperties, HeadThenTail
<1>3. InHand = <<>>
  BY DEF OnceInv, InHandWhileProducing, InHand
<1>4. InHand' = <<Head(backlog)>> /\ InRing' = InRing
  BY <1>2, PoolAssumption DEF InHand, InRing, ringVars
<1>5. Line' = (InRing \o <<Head(backlog)>>) \o Tail(backlog)
  BY <1>4 DEF Line
<1>6. Line' = InRing \o (<<Head(backlog)>> \o Tail(backlog))
  <2>1. <<Head(backlog)>> \in Seq(Conns)
    BY <1>2
  <2> QED
    BY <1>1, <1>2, <1>5, <2>1, ConcatAssociative
<1>7. Line = InRing \o backlog
  BY <1>1, <1>3, ConcatEmptySeq DEF Line
<1>8. Line' = Line
  BY <1>2, <1>6, <1>7
<1> QED
  BY <1>8 DEF Queue!vars, Line

\* The master puts the connection it has in hand behind those in the ring.
LEMMA EnqueueKeepsLine ==
  ASSUME IInv, Enqueue
  PROVE  Line' = Line
<1>1. /\ accepted \in Conns /\ accepted' = NoConn /\ backlog' = backlog
      /\ InRing \in Seq(Conns) /\ backlog \in Seq(Conns)
  BY EnqueueMovesOne, PartsAreSeqs DEF Enqueue, netVars
<1>6. <<accepted>> \in Seq(Conns)
  BY <1>1
<1>2. InHand = <<accepted>> /\ InHand' = <<>>
  BY <1>1, PoolAssumption DEF InHand
<1>3. InRing' = Append(InRing, accepted)
  <2> DEFINE n == sq_head - sq_tail
             new == InRing'
  <2>1. /\ sq_tail \in Nat /\ sq_head \in Nat /\ n \in Nat
        /\ sq_head' = sq_head + 1 /\ sq_tail' = sq_tail
    BY PoolAssumption DEF IInv, TypeOK, RingWithinBounds, Enqueue
  <2>2. Len(InRing) = n /\ \A i \in 1 .. n : InRing[i] = Slot(sq_tail + i - 1)
    BY RingIsSeq
  <2>3. new = [i \in 1 .. n + 1 |-> queue'[(sq_tail + i - 1) % QueueSize]]
    BY <2>1 DEF InRing
  <2>4. /\ Append(InRing, accepted) \in Seq(Conns)
        /\ Len(Append(InRing, accepted)) = n + 1
        /\ \A i \in 1 .. n : Append(InRing, accepted)[i] = InRing[i]
        /\ Append(InRing, accepted)[n + 1] = accepted
    BY <1>1, <2>2, AppendProperties
  <2>5. queue'[sq_head % QueueSize] = accepted
        /\ \A k \in InUse : queue'[k % QueueSize] = Slot(k)
    BY EnqueueMovesOne DEF Slot
  <2>6. ASSUME NEW i \in 1 .. n + 1
        PROVE  new[i] = Append(InRing, accepted)[i]
    <3> DEFINE k == sq_tail + i - 1
    <3>1. new[i] = queue'[k % QueueSize]
      BY <2>3
    <3>2. CASE i = n + 1
      <4>1. k = sq_head
        BY <2>1, <3>2
      <4> QED
        BY <2>4, <2>5, <3>1, <3>2, <4>1
    <3>3. CASE i \in 1 .. n
      <4>1. k \in InUse
        BY <2>1, <3>3 DEF InUse
      <4> HIDE DEF k
      <4>2. queue'[k % QueueSize] = Slot(k)
        BY <2>5, <4>1
      <4> QED
        BY <2>2, <2>4, <3>1, <3>3, <4>2 DEF k
    <3>4. i = n + 1 \/ i \in 1 .. n
      BY <2>1
    <3> QED
      BY <3>2, <3>3, <3>4
  <2> HIDE DEF n
  <2>7. DOMAIN new = 1 .. n + 1 /\ DOMAIN Append(InRing, accepted) = 1 .. n + 1
    BY <2>3, <2>4, LenProperties
  <2>8. Append(InRing, accepted) \in [1 .. n + 1 -> Conns]
    BY <2>4, LenProperties
  <2> QED
    BY <2>3, <2>6, <2>8
<1>4. InRing' = InRing \o <<accepted>>
  BY <1>1, <1>3, AppendIsConcat
<1>5. InRing' \o <<>> = InRing'
  BY <1>1, <1>3, AppendProperties, ConcatEmptySeq
<1> QED
  BY <1>1, <1>2, <1>4, <1>5 DEF Line

\* A worker takes the connection that has waited longest.
LEMMA ConsumeIsTake ==
  ASSUME IInv, OnceInv, NEW w \in Workers, Consume(w)
  PROVE  Queue!Take(w)
<1> DEFINE n == sq_head - sq_tail
           new == InRing'
<1>1. /\ sq_tail \in Nat /\ sq_head \in Nat /\ n \in Nat \ {0}
  BY PoolAssumption DEF IInv, TypeOK, RingWithinBounds, TakeFindsSocket, Consume
<1>2. /\ InRing \in Seq(Conns) /\ Len(InRing) = n
      /\ \A i \in 1 .. n : InRing[i] = Slot(sq_tail + i - 1)
  BY RingIsSeq
<1>3. InRing # <<>> /\ Head(InRing) = client'[w]
  <2>1. InRing[1] = Slot(sq_tail)
    BY <1>1, <1>2
  <2> QED
    BY <1>1, <1>2, <2>1, ConsumeMovesOne
<1>4. Tail(InRing) \in Seq(Conns) /\ Len(Tail(InRing)) = n - 1
      /\ \A i \in 1 .. n - 1 : Tail(InRing)[i] = InRing[i + 1]
  BY <1>1, <1>2, <1>3, HeadTailProperties
<1>5. InRing' = Tail(InRing)
  <2> DEFINE back == Wraps * QueueSize
  <2>1. /\ sq_tail' = sq_tail + 1 - back /\ sq_head' = sq_head - back
        /\ back \in Int /\ queue' = queue
    BY PoolAssumption DEF Consume, Wraps
  <2> HIDE DEF back
  <2>2. sq_head' - sq_tail' = n - 1
    BY <1>1, <2>1
  <2>3. new = [i \in 1 .. n - 1 |-> queue'[(sq_tail' + i - 1) % QueueSize]]
    BY <2>2 DEF InRing
  <2>4. ASSUME NEW i \in 1 .. n - 1
        PROVE  new[i] = Tail(InRing)[i]
    <3> DEFINE k == sq_tail' + i - 1
    <3>1. k \in InUse' /\ k + back = sq_tail + (i + 1) - 1
      BY <1>1, <2>1 DEF InUse
    <3>2. new[i] = queue'[k % QueueSize]
      BY <2>3
    <3> HIDE DEF k
    <3>3. queue'[k % QueueSize] = Slot(k + back)
      BY <3>1, ConsumeMovesOne DEF Slot, back
    <3>4. Slot(k + back) = InRing[i + 1]
      BY <1>1, <1>2, <3>1
    <3> QED
      BY <1>4, <3>2, <3>3, <3>4
  <2> HIDE DEF n
  <2>5. Tail(InRing) \in [1 .. n - 1 -> Conns]
    BY <1>4, LenProperties
  <2> QED
    BY <2>3, <2>4, <2>5
<1>6. InHand' = InHand /\ backlog' = backlog /\ closed' = closed
  BY DEF Consume, netVars, InHand
<1>7. stop_flag' = stop_flag
  BY DEF Consume
<1>8. Line # <<>> /\ Head(Line) = client'[w] /\ Tail(Line) = Line'
  <2> DEFINE h == Head(InRing)
             t == Tail(InRing)
  <2>1. /\ h \in Conns /\ t \in Seq(Conns) /\ InRing = <<h>> \o t
        /\ InHand \in Seq(Conns) /\ backlog \in Seq(Conns)
    BY <1>2, <1>3, HeadTailProperties, HeadThenTail, PartsAreSeqs
  <2> HIDE DEF h, t
  <2>2. <<h>> \in Seq(Conns)
    BY <2>1
  <2>3. (<<h>> \o t) \o InHand = <<h>> \o (t \o InHand)
    BY <2>1, <2>2, ConcatAssociative
  <2>4. t \o InHand \in Seq(Conns)
    BY <2>1, ConcatProperties
  <2>5. (<<h>> \o (t \o InHand)) \o backlog = <<h>> \o ((t \o InHand) \o backlog)
    BY <2>1, <2>2, <2>4, ConcatAssociative
  <2>6. Line = <<h>> \o ((t \o InHand) \o backlog)
    BY <2>1, <2>3, <2>5 DEF Line
  <2>7. (t \o InHand) \o backlog \in Seq(Conns)
    BY <2>1, <2>4, ConcatProperties
  <2>8. Line # <<>> /\ Head(Line) = h /\ Tail(Line) = (t \o InHand) \o backlog
    BY <2>1, <2>6, <2>7, HeadOfCons
  <2>9. Line' = (t \o InHand) \o backlog
    BY <1>5, <1>6 DEF Line, t
  <2> QED
    BY <1>3, <2>8, <2>9 DEF h
<1>9. client[w] = NoConn /\ client' = [client EXCEPT ![w] = Head(Line)]
  <2>1. client[w] \in Conns \cup {NoConn} /\ client[w] \notin Conns
    BY DEF OnceInv, ServesOne, Consume, IInv, TypeOK
  <2>2. client' = [client EXCEPT ![w] = client'[w]]
    BY DEF Consume, IInv, TypeOK
  <2> QED
    BY <1>8, <2>1, <2>2
<1>10. ((stop_flag # 0)' = (stop_flag # 0))
  BY <1>7
<1> QED
  BY <1>6, <1>8, <1>9, <1>10 DEF Queue!Take, Line

LEMMA ServeIsClose ==
  ASSUME IInv, OnceInv, NEW w \in Workers, Serve(w)
  PROVE  Queue!Close(w)
<1> USE DEF Serve
<1>1. client[w] # NoConn
  BY PoolAssumption DEF OnceInv, ServesOne
<1>2. InRing' = InRing /\ InHand' = InHand /\ backlog' = backlog
  BY DEF InRing, InHand, ringVars
<1>3. (stop_flag # 0)' = (stop_flag # 0)
  OBVIOUS
<1> QED
  BY <1>1, <1>2, <1>3 DEF Queue!Close

-------------------------------------------------------------------------------
\* Each step of MongoosePool is a step of ConnQueue or leaves it unchanged.

LEMMA CallerRefines ==
  ASSUME IInv, CallerStep \/ CallStop
  PROVE  Queue!Next \/ UNCHANGED Queue!vars
<1>1. CASE CallStop
  <2>1. /\ UNCHANGED <<client, closed>> /\ stop_flag' # 0
        /\ InRing' = InRing /\ InHand' = InHand /\ backlog' = backlog
    BY <1>1 DEF CallStop, InRing, InHand, ringVars, netVars
  <2> QED
    BY <2>1, StopIsAbandon DEF Line
<1>2. CASE CallerStep
  <2>1. UNCHANGED <<ringVars, accepted, backlog, client, closed, stop_flag>>
    BY <1>2 DEF CallerStep, SpawnWorker, LoadCount, StoreCount, StartReturns,
       StopReturns, netVars
  <2> QED
    BY <2>1, QuietIsStutter
<1> QED
  BY <1>1, <1>2

LEMMA MasterRefines ==
  ASSUME IInv, OnceInv, MasterStep
  PROVE  Queue!Next \/ UNCHANGED Queue!vars
<1>1. CASE Produce
  <2>1. /\ Line' = Line /\ UNCHANGED <<client, closed, stop_flag>>
    BY <1>1, EnqueueKeepsLine DEF Produce, Enqueue, netVars
  <2> QED
    BY <2>1 DEF Queue!vars, Line
<1>2. CASE Accept
  BY <1>2, AcceptIsStutter
<1>3. CASE MasterLoop
  <2>1. CASE UNCHANGED backlog
    BY <1>3, <2>1, QuietIsStutter DEF MasterLoop, netVars
  <2>2. CASE backlog' = <<>> /\ stop_flag # 0
    <3>1. /\ UNCHANGED <<client, closed, stop_flag>>
          /\ InRing' = InRing /\ InHand' = InHand
      BY <1>3 DEF MasterLoop, InRing, InHand, ringVars
    <3>2. /\ InRing \o InHand \in Seq(Conns) /\ backlog \in Seq(Conns)
          /\ <<>> \in Seq(Conns)
      BY PartsAreSeqs, EmptySeq
    <3>3. Line = ((InRing \o InHand) \o backlog) \o <<>>
      BY <3>2, PartsAreSeqs, ConcatEmptySeq DEF Line
    <3>4. Line' = (InRing \o InHand) \o <<>>
      BY <2>2, <3>1 DEF Line
    <3> QED
      BY <2>2, <3>1, <3>2, <3>3, <3>4, DropIsAbandon
  <2> QED
    BY <1>3, <2>1, <2>2 DEF MasterLoop
<1>4. CASE Destroy
  <2>1. /\ UNCHANGED <<client, closed>> /\ stop_flag' # 0
        /\ InRing' = InRing /\ InHand' = InHand /\ backlog' = backlog
    BY <1>4 DEF Destroy, InRing, InHand, ringVars, netVars
  <2> QED
    BY <2>1, StopIsAbandon DEF Line
<1>5. CASE \/ AcceptTimesOut \/ ProduceLock \/ ProduceWait
           \/ Broadcast \/ JoinLock \/ Join
  <2>1. UNCHANGED <<ringVars, accepted, backlog, client, closed, stop_flag>>
    BY <1>5 DEF AcceptTimesOut, ProduceLock, ProduceWait, Broadcast, JoinLock,
       Join, netVars
  <2> QED
    BY <2>1, QuietIsStutter
<1> QED
  BY <1>1, <1>2, <1>3, <1>4, <1>5 DEF MasterStep

LEMMA WorkerRefines ==
  ASSUME IInv, OnceInv, NEW w \in Workers, WorkerStep(w)
  PROVE  Queue!Next \/ UNCHANGED Queue!vars
<1>1. CASE Consume(w)
  BY <1>1, ConsumeIsTake DEF Queue!Next
<1>2. CASE Serve(w)
  BY <1>2, ServeIsClose DEF Queue!Next
<1>3. CASE \/ WorkerLoop(w) \/ ConsumeLock(w) \/ ConsumeTest(w)
           \/ ConsumeWait(w) \/ ConsumeStops(w) \/ Exit(w)
  <2>1. UNCHANGED <<ringVars, accepted, backlog, client, closed, stop_flag>>
    BY <1>3 DEF WorkerLoop, ConsumeLock, ConsumeTest, ConsumeWait, ConsumeStops,
       Exit, netVars
  <2> QED
    BY <2>1, QuietIsStutter
<1> QED
  BY <1>1, <1>2, <1>3 DEF WorkerStep

LEMMA FaultRefines ==
  ASSUME IInv, OnceInv, PthreadFault
  PROVE  Queue!Next \/ UNCHANGED Queue!vars
<1>1. CASE ProduceFails /\ Enqueue
  <2>1. Line' = Line /\ UNCHANGED <<client, closed>> /\ stop_flag' # 0
    BY <1>1, EnqueueKeepsLine DEF ProduceFails, Enqueue, netVars
  <2> QED
    BY <2>1, StopIsAbandon
<1>2. CASE ProduceFails /\ ~Enqueue
  <2>1. /\ accepted' = NoConn /\ UNCHANGED <<ringVars, netVars, client>>
        /\ stop_flag' # 0 /\ mpc \in {"lock", "test"}
    BY <1>2 DEF ProduceFails
  <2>2. accepted \in Conns
    BY <2>1 DEF IInv, HoldsSockets
  <2>3. /\ InRing' = InRing /\ InHand = <<accepted>> /\ InHand' = <<>>
        /\ backlog' = backlog /\ UNCHANGED <<client, closed>>
    BY <2>1, <2>2, PoolAssumption DEF InRing, InHand, ringVars, netVars
  <2>4. /\ InRing \in Seq(Conns) /\ InHand \in Seq(Conns) /\ backlog \in Seq(Conns)
        /\ InRing \o <<>> = InRing
    BY PartsAreSeqs, ConcatEmptySeq
  <2>5. Line = (InRing \o InHand) \o backlog /\ Line' = InRing \o backlog
    BY <2>3, <2>4 DEF Line
  <2> QED
    BY <2>1, <2>3, <2>4, <2>5, DropIsAbandon
<1>3. CASE \/ \E w \in Workers : SpawnFails(w)
           \/ JoinLockFails
  <2>1. UNCHANGED <<ringVars, accepted, backlog, client, closed, stop_flag>>
    BY <1>3 DEF SpawnFails, JoinLockFails, netVars
  <2> QED
    BY <2>1, QuietIsStutter
<1> QED
  BY <1>1, <1>2, <1>3 DEF PthreadFault

LEMMA StepRefines ==
  IInv /\ OnceInv /\ [Next]_vars => [Queue!Next]_(Queue!vars)
<1> SUFFICES ASSUME IInv, OnceInv, [Next]_vars
             PROVE  Queue!Next \/ UNCHANGED Queue!vars
  OBVIOUS
<1>1. ASSUME NEW c \in Conns, Connect(c) PROVE Queue!Next
  BY <1>1, ConnectIsConnect DEF Queue!Next
<1>2. CASE SpuriousWakeUp \/ UNCHANGED vars
  <2>1. UNCHANGED <<ringVars, accepted, backlog, client, closed, stop_flag>>
    BY <1>2 DEF SpuriousWakeUp, MasterWakesUp, WorkerWakesUp, vars, netVars
  <2> QED
    BY <2>1, QuietIsStutter
<1> QED
  BY <1>1, <1>2, CallerRefines, MasterRefines, WorkerRefines, FaultRefines DEF Next

\* The web server, with its ring, its two condition variables and the failures it
\* tests for, is a first-in first-out queue of connections that may drop those
\* that wait only once it stops.
THEOREM ImplementsConnQueue == Spec => ServesInOrder
<1>1. Init => Queue!Init
  BY InitIsQueueInit
<1>2. IInv /\ OnceInv /\ [Next]_vars => [Queue!Next]_(Queue!vars)
  BY StepRefines
<1> QED
  BY <1>1, <1>2, Inductive, OnceInductive, PTL DEF Spec, ServesInOrder, Queue!Spec
===============================================================================
