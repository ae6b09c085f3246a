-------------------------- MODULE DialRequestsProofs --------------------------
(***************************************************************************)
(* Proofs about what DialServer's handlers do to the processes and answer  *)
(* to the clients.  They rest on the invariant of DialServerProofs and on  *)
(* two views of a step: what it does to the process table, and what it     *)
(* does to the requests and their responses.                               *)
(***************************************************************************)
EXTENDS DialServerProofs

\* A child of the server that is Netflix or is about to be.
Live(p) == /\ proc[p].app = "Netflix" /\ proc[p].child
           /\ proc[p].st \in {"forked", "up", "dying"}

\* Only a fork makes a child.
FreeIsNoChild == \A p \in Pids : proc[p].st = "free" => ~proc[p].child

\* execv failed in this step.
NewClone(p) == proc'[p].st = "clone" /\ proc[p].st # "clone"

\* What a step that is not a fork does to the entry of p: an entry in use keeps
\* all but its state, a process that was waited for is never seen again, a
\* clone remains one, and no child appears.
Keeps(p) ==
  /\ proc[p].st # "free" =>
       /\ proc'[p].st # "free" /\ proc'[p].app = proc[p].app
       /\ proc'[p].child = proc[p].child /\ proc'[p].id = proc[p].id
       /\ proc'[p].early = proc[p].early
  /\ proc[p].st = "reaped" => proc'[p].st = "reaped"
  /\ proc[p].st = "clone" => proc'[p].st = "clone"
  /\ proc[p].st = "free" => /\ proc'[p].st \in {"free", "up"}
                            /\ proc'[p].child = proc[p].child
  /\ proc'[p].st = "forked" => proc[p].st = "forked"
  /\ proc'[p].st \in {"up", "dying"} =>
       proc[p].st \in {"free", "forked", "up", "dying"}

\* A step with neither a fork nor a failed execv.
Steady == \A q \in Pids : Keeps(q) /\ ~NewClone(q)

\* A step that changes the state of one process in use.
LEMMA EntryKeeps ==
  ASSUME proc \in [Pids -> Process], NEW p \in Pids, NEW st,
         proc' = [proc EXCEPT ![p].st = st]
  PROVE  /\ \A q \in Pids \ {p} : proc'[q] = proc[q]
         /\ proc'[p].st = st /\ proc'[p].app = proc[p].app
         /\ proc'[p].child = proc[p].child /\ proc'[p].id = proc[p].id
         /\ proc'[p].early = proc[p].early
<1>1. proc[p] \in Process
  OBVIOUS
<1>2. proc'[p] = [proc[p] EXCEPT !.st = st]
  OBVIOUS
<1> QED
  BY <1>1, <1>2 DEF Process

LEMMA UnchangedKeeps == UNCHANGED proc => Steady
  BY DEF Steady, Keeps, NewClone

LEMMA ReapKeeps ==
  ASSUME proc \in [Pids -> Process], NEW run, Reap(run)
  PROVE  Steady
<1>1. CASE UNCHANGED proc
  BY <1>1, UnchangedKeeps
<1>2. ASSUME NEW p \in Pids, proc[p].st = "zombie",
             proc' = [proc EXCEPT ![p].st = "reaped"]
      PROVE  Steady
  BY <1>2, EntryKeeps DEF Steady, Keeps, NewClone
<1> QED
  BY <1>1, <1>2 DEF Reap

LEMMA KillKeeps ==
  ASSUME proc \in [Pids -> Process], NEW a, NEW p \in Found(a), Kill(p)
  PROVE  Steady
<1>1. p \in Pids /\ proc[p].st \in {"up", "dying"}
  BY DEF Found
<1> QED
  BY <1>1, EntryKeeps DEF Steady, Keeps, NewClone, Kill

LEMMA ProcessKeeps ==
  ASSUME proc \in [Pids -> Process], NEW p \in Pids, ProcessStep(p)
  PROVE  Steady
<1>1. CASE Exec(p)
  BY <1>1, EntryKeeps DEF Steady, Keeps, NewClone, Exec
<1>2. CASE Exit(p)
  BY <1>2, EntryKeeps DEF Steady, Keeps, NewClone, Exit
<1>3. ASSUME NEW a \in {"Netflix", "YouTube"}, StartByHand(p, a)
      PROVE  Steady
  <2>1. proc[p].st = "free" /\ proc[p] \in Process
    BY <1>3 DEF StartByHand
  <2>2. proc'[p] = [[proc[p] EXCEPT !.st = "up"] EXCEPT !.app = a]
    BY <1>3 DEF StartByHand
  <2>3. proc'[p].st = "up" /\ proc'[p].child = proc[p].child
    BY <2>1, <2>2 DEF Process
  <2>4. \A q \in Pids \ {p} : proc'[q] = proc[q]
    BY <1>3 DEF StartByHand
  <2> QED
    BY <2>1, <2>3, <2>4 DEF Steady, Keeps, NewClone
<1> QED
  BY <1>1, <1>2, <1>3 DEF ProcessStep

-------------------------------------------------------------------------------
\* What a step does to the requests and to the process table at once.

\* The handler in thread w answers.  It names a process only when it has
\* waited for it.
Answers(w) ==
  /\ at[w] # "idle" /\ reqs' = reqs
  /\ \E code \in Codes, pid \in Pids \cup {NoPid} :
       /\ Respond(w, code, pid)
       /\ pid # NoPid => pid = target[w] /\ WaitPid(w)

\* A handler goes on and does not end; it notes only a process that it found.
GoesOn ==
  \A w \in Workers : /\ at'[w] = "idle" => at[w] = "idle"
                     /\ \/ target'[w] = target[w]
                        \/ target'[w] \in Pids /\ proc[target'[w]].st # "free"

LEMMA HandlerShape ==
  ASSUME IInv, NEW w \in Workers, HandlerStep(w)
  PROVE  \/ Steady /\ UNCHANGED <<id, replies, reqs>> /\ GoesOn
         \/ Steady /\ Answers(w)
         \/ \E p \in Pids : Launch(w, p) /\ Answers(w)
<1> DEFINE quiet == UNCHANGED <<id, replies, reqs>> /\ GoesOn
<1>1. /\ proc \in [Pids -> Process] /\ target \in [Workers -> Pids \cup {NoPid}]
      /\ at \in [Workers -> Points]
  BY DEF IInv, TypeOK
<1>2. CASE \/ Route(w) \/ CheckOrigin(w) \/ RespondOwn(w) \/ Enter(w)
           \/ StartSystem(w) \/ StartNetflix(w) \/ LaunchFails(w)
           \/ Look(w) \/ StopNothing(w)
  <2>1. Steady
    BY <1>2, UnchangedKeeps
       DEF Route, CheckOrigin, RespondOwn, Enter, StartSystem, StartNetflix,
           LaunchFails, Look, StopNothing
  <2>2. ASSUME NEW code \in Codes, Respond(w, code, NoPid), at[w] # "idle",
               reqs' = reqs
        PROVE  Answers(w)
    BY <2>2 DEF Answers
  <2>3. ASSUME UNCHANGED <<id, target, replies, reqs>>,
               NEW point \in Points \ {"idle"}, Goto(w, point)
        PROVE  quiet
    BY <1>1, <2>3 DEF GoesOn, Goto
  <2>4. CASE Route(w) \/ CheckOrigin(w)
    <3> DEFINE r == reqs[id[w]]
    <3>1. at[w] # "idle" /\ reqs' = reqs
      BY <2>4 DEF Route, CheckOrigin
    <3>2. CASE Dispatch(w, r)
      <4>1. CASE Operation(r) \in {"204", "501"}
        BY <2>1, <2>2, <3>1, <3>2, <4>1 DEF Dispatch, Codes
      <4>2. CASE Operation(r) \notin {"204", "501"}
        <5>1. "lock" \in Points \ {"idle"}
          BY DEF Points
        <5> QED
          BY <2>1, <2>3, <3>1, <3>2, <4>2, <5>1 DEF Dispatch
      <4> QED
        BY <4>1, <4>2
    <3>3. CASE BadUri(r) # "" /\ Respond(w, BadUri(r), NoPid)
      <4>1. BadUri(r) \in Codes
        BY <3>3 DEF BadUri, Codes
      <4> QED
        BY <2>1, <2>2, <3>1, <3>3, <4>1
    <3>4. CASE Respond(w, "403", NoPid)
      BY <2>1, <2>2, <3>1, <3>4 DEF Codes
    <3> QED
      BY <2>1, <2>4, <3>2, <3>3, <3>4 DEF Route, CheckOrigin
  <2>5. CASE RespondOwn(w)
    <3>1. OwnResponse(reqs[id[w]]) \in Codes
      BY <2>5 DEF RespondOwn, OwnResponse, Codes
    <3> QED
      BY <2>1, <2>2, <2>5, <3>1 DEF RespondOwn
  <2>6. CASE Enter(w)
    <3>1. PICK point \in {"fork", "start", "reap", "look"} : Goto(w, point)
      BY <2>6 DEF Enter
    <3>2. point \in Points \ {"idle"}
      BY DEF Points, HoldPoints
    <3> QED
      BY <2>1, <2>3, <2>6, <3>1, <3>2 DEF Enter
  <2>7. CASE StartSystem(w) \/ StartNetflix(w) \/ LaunchFails(w)
    <3>1. ASSUME NEW status, Started(w, status), at[w] # "idle", reqs' = reqs
          PROVE  Answers(w)
      <4>1. StartCode(status) \in Codes
        BY DEF StartCode, Codes
      <4> QED
        BY <2>2, <3>1, <4>1 DEF Started, Finish
    <3>2. CASE StartSystem(w) \/ LaunchFails(w)
      BY <2>1, <3>1, <3>2 DEF StartSystem, LaunchFails
    <3>3. CASE StartNetflix(w)
      <4>1. reqs' = reqs /\ at[w] # "idle"
        BY <3>3 DEF StartNetflix
      <4>2. \/ Goto(w, "fork") /\ UNCHANGED <<id, target, replies>>
            \/ Started(w, "Running")
        BY <3>3 DEF StartNetflix
      <4>3. "fork" \in Points \ {"idle"}
        BY DEF Points, HoldPoints
      <4> QED
        BY <2>1, <2>3, <3>1, <4>1, <4>2, <4>3
    <3> QED
      BY <2>7, <3>2, <3>3
  <2>8. CASE Look(w)
    <3>1. at[w] # "idle" /\ reqs' = reqs
      BY <2>8 DEF Look
    <3>2. ASSUME NEW code \in Codes, Finish(w, code, NoPid) PROVE Answers(w)
      BY <2>2, <3>1, <3>2 DEF Finish
    <3>3. PICK status \in Status(reqs[id[w]].app) :
            \/ Finish(w, Shown(status, reqs[id[w]].version), NoPid)
            \/ Finish(w, "404", NoPid)
            \/ Finish(w, "200", NoPid)
            \/ Finish(w, "501", NoPid)
            \/ Goto(w, "stop") /\ UNCHANGED <<id, target, replies>>
      BY <2>8 DEF Look
    <3>4. Shown(status, reqs[id[w]].version) \in Codes
      BY DEF Shown, Codes
    <3>5. {"404", "200", "501"} \subseteq Codes /\ "stop" \in Points \ {"idle"}
      BY DEF Codes, Points, HoldPoints
    <3> QED
      BY <2>1, <2>3, <3>1, <3>2, <3>3, <3>4, <3>5
  <2>9. CASE StopNothing(w)
    BY <2>1, <2>2, <2>9 DEF StopNothing, Stopped, Finish, Codes
  <2> QED
    BY <1>2, <2>4, <2>5, <2>6, <2>7, <2>8, <2>9
<1>3. ASSUME NEW p \in Pids, Launch(w, p) PROVE Answers(w)
  BY <1>3 DEF Launch, Started, Finish, StartCode, Answers, Codes
<1>4. CASE NetflixReap(w)
  <2>1. Steady
    BY <1>1, <1>4, ReapKeeps DEF NetflixReap
  <2> QED
    BY <1>1, <1>4, <2>1 DEF NetflixReap, GoesOn, Goto
<1>5. CASE StopYouTube(w)
  <2>1. Steady
    BY <1>1, <1>5, KillKeeps DEF StopYouTube
  <2>2. Answers(w)
    BY <1>5 DEF StopYouTube, Stopped, Finish, Answers, Codes
  <2> QED
    BY <2>1, <2>2
<1>6. CASE StopNetflix(w)
  <2>1. Steady
    BY <1>1, <1>6, KillKeeps DEF StopNetflix
  <2>2. GoesOn
    BY <1>1, <1>6 DEF StopNetflix, Found, GoesOn, Goto
  <2> QED
    BY <1>6, <2>1, <2>2 DEF StopNetflix
<1>7. CASE WaitPid(w)
  <2>1. Steady
    BY <1>1, <1>7, ReapKeeps DEF WaitPid
  <2>2. Answers(w)
    BY <1>1, <1>7 DEF WaitPid, Stopped, Finish, Answers, Codes
  <2> QED
    BY <2>1, <2>2
<1> QED
  BY <1>2, <1>3, <1>4, <1>5, <1>6, <1>7 DEF HandlerStep

LEMMA Shapes ==
  ASSUME IInv, [Next]_vars
  PROVE  \/ Steady /\ UNCHANGED <<id, replies, reqs>> /\ GoesOn
         \/ \E w \in Workers : Steady /\ Answers(w)
         \/ \E w \in Workers, p \in Pids : Launch(w, p) /\ Answers(w)
         \/ \E w \in Workers : Steady /\ Receive(w)
         \/ \E p \in Pids : AnswerAgain(p)
<1>1. proc \in [Pids -> Process]
  BY DEF IInv, TypeOK
<1>2. ASSUME NEW w \in Workers, Receive(w) PROVE Steady
  BY <1>2, UnchangedKeeps DEF Receive
<1>3. CASE HostStep \/ UNCHANGED vars
  BY <1>3, UnchangedKeeps
     DEF HostStep, Register, RegisterFails, Unregister, vars, GoesOn
<1>4. ASSUME NEW p \in Pids, ProcessStep(p)
      PROVE  Steady /\ UNCHANGED <<id, replies, reqs>> /\ GoesOn
  BY <1>1, <1>4, ProcessKeeps DEF ProcessStep, GoesOn
<1> QED
  BY <1>2, <1>3, <1>4, HandlerShape DEF Next, Rest

-------------------------------------------------------------------------------
\* StoppedBeforeAnswer.

\* A process that was waited for, if it is a child of the server.  It is in the
\* table, and so no fork makes a child of it later.
WaitedFor(p) == proc[p].st # "free" /\ (proc[p].child => proc[p].st = "reaped")

\* Strengthens StoppedBeforeAnswer: the process a handler means to wait for is
\* in the table too.
StopInv ==
  /\ \A w \in Workers : target[w] # NoPid => proc[target[w]].st # "free"
  /\ \A i \in 1 .. MaxRequests : \A k \in DOMAIN replies[i] :
       replies[i][k].pid # NoPid => WaitedFor(replies[i][k].pid)

\* No step frees an entry of the process table or undoes a wait.
LEMMA InUseKept ==
  ASSUME IInv, [Next]_vars, NEW p \in Pids, proc[p].st # "free"
  PROVE  proc'[p].st # "free" /\ (WaitedFor(p) => WaitedFor(p)')
<1>1. proc \in [Pids -> Process]
  BY DEF IInv, TypeOK
<1>2. ASSUME NEW w \in Workers, NEW q \in Pids, Launch(w, q)
      PROVE  proc'[p] = proc[p]
  BY <1>1, <1>2 DEF Launch, Fork
<1>3. ASSUME NEW q \in Pids, AnswerAgain(q)
      PROVE  /\ proc'[p].st # "free" /\ proc'[p].child = proc[p].child
             /\ proc[p].st = "reaped" => proc'[p].st = "reaped"
  BY <1>1, <1>3, EntryKeeps DEF AnswerAgain, ExecFails
<1> QED
  BY <1>2, <1>3, Shapes DEF Steady, Keeps, WaitedFor

\* waitpid returns when the child it was called for has ended, and reaps it.
LEMMA WaitPidWaits ==
  ASSUME IInv, NEW w \in Workers, NEW p \in Pids, p = target[w], WaitPid(w),
         proc[p].st # "free"
  PROVE  WaitedFor(p)'
<1>1. proc \in [Pids -> Process] /\ p # AnyChild
  BY PidAssumption DEF IInv, TypeOK
<1>2. Reap(p) /\ (proc[p].child => proc[p].st = "zombie")
  BY DEF WaitPid
<1>3. CASE UNCHANGED proc /\ proc[p].st # "zombie"
  BY <1>2, <1>3 DEF WaitedFor
<1>4. CASE proc' = [proc EXCEPT ![p].st = "reaped"]
  BY <1>1, <1>4, EntryKeeps DEF WaitedFor
<1>5. \/ UNCHANGED proc /\ proc[p].st # "zombie"
      \/ proc' = [proc EXCEPT ![p].st = "reaped"]
  BY <1>1, <1>2 DEF Reap
<1> QED
  BY <1>3, <1>4, <1>5

\* The responses of a step: a new one names a process only if waitpid returned
\* for it.
LEMMA NewReplies ==
  ASSUME IInv, [Next]_vars, NEW i \in 1 .. MaxRequests,
         NEW k \in DOMAIN replies'[i], replies'[i][k].pid # NoPid
  PROVE  \/ k \in DOMAIN replies[i] /\ replies'[i][k] = replies[i][k]
         \/ \E w \in Workers : WaitPid(w) /\ replies'[i][k].pid = target[w]
<1>1. replies \in [1 .. MaxRequests -> Seq(Response)]
  BY DEF IInv, TypeOK
<1>2. CASE replies' = replies
  BY <1>2
<1>3. ASSUME NEW j, NEW code \in Codes, NEW pid \in Pids \cup {NoPid},
             replies' = [replies EXCEPT ![j] =
                           Append(@, [code |-> code, pid |-> pid])]
      PROVE  \/ k \in DOMAIN replies[i] /\ replies'[i][k] = replies[i][k]
             \/ replies'[i][k].pid = pid
  <2>1. CASE i # j
    BY <1>1, <1>3, <2>1
  <2>2. CASE i = j
    <3> DEFINE s == replies[i]
               e == [code |-> code, pid |-> pid]
    <3>1. replies'[i] = Append(s, e) /\ s \in Seq(Response) /\ e \in Response
      BY <1>1, <1>3, <2>2 DEF Response, Codes
    <3>2. k \in 1 .. Len(s) + 1 /\ Len(s) \in Nat
      BY <3>1
    <3>3. CASE k \in 1 .. Len(s)
      BY <3>1, <3>2, <3>3
    <3>4. CASE k = Len(s) + 1
      <4>1. replies'[i][k] = e
        BY <3>1, <3>2, <3>4
      <4> QED
        BY <4>1
    <3> QED
      BY <3>2, <3>3, <3>4
  <2> QED
    BY <2>1, <2>2
<1>4. ASSUME NEW w \in Workers, Answers(w)
      PROVE  \/ k \in DOMAIN replies[i] /\ replies'[i][k] = replies[i][k]
             \/ WaitPid(w) /\ replies'[i][k].pid = target[w]
  <2>1. PICK code \in Codes, pid \in Pids \cup {NoPid} :
          Respond(w, code, pid) /\ (pid # NoPid => pid = target[w] /\ WaitPid(w))
    BY <1>4 DEF Answers
  <2> QED
    BY <2>1, <1>3 DEF Respond
<1>5. ASSUME NEW p \in Pids, AnswerAgain(p)
      PROVE  k \in DOMAIN replies[i] /\ replies'[i][k] = replies[i][k]
  BY <1>3, <1>5 DEF AnswerAgain, Codes
<1> QED
  BY <1>2, <1>4, <1>5, Shapes DEF Receive

\* What a handler waits for: the target it had, unless it found another now.
LEMMA TargetStep ==
  ASSUME IInv, [Next]_vars, NEW w \in Workers, target'[w] # NoPid
  PROVE  target'[w] = target[w] \/ (target'[w] \in Pids /\ proc[target'[w]].st # "free")
<1>1. target \in [Workers -> Pids \cup {NoPid}]
  BY DEF IInv, TypeOK
<1>2. ASSUME NEW v \in Workers, Answers(v) PROVE target'[w] = target[w]
  BY <1>1, <1>2 DEF Answers, Respond
<1> QED
  BY <1>2, Shapes DEF GoesOn, Receive, AnswerAgain

LEMMA StopInvStep == IInv /\ StopInv /\ [Next]_vars => StopInv'
<1> SUFFICES ASSUME IInv, StopInv, [Next]_vars PROVE StopInv'
  OBVIOUS
<1>1. IInv'
  BY NextIInv
<1>2. ASSUME NEW w \in Workers, target'[w] # NoPid
      PROVE  proc'[target'[w]].st # "free"
  <2>1. target'[w] \in Pids
    BY <1>1, <1>2 DEF IInv, TypeOK
  <2>2. PICK p \in Pids : p = target'[w]
    BY <2>1
  <2>3. proc[p].st # "free"
    BY <1>2, <2>2, TargetStep DEF StopInv
  <2> QED
    BY <2>2, <2>3, InUseKept
<1>3. ASSUME NEW i \in 1 .. MaxRequests, NEW k \in DOMAIN replies'[i],
             NEW p \in Pids \cup {NoPid}, p = replies'[i][k].pid, p # NoPid
      PROVE  WaitedFor(p)'
  <2>1. CASE k \in DOMAIN replies[i] /\ replies'[i][k] = replies[i][k]
    BY <1>3, <2>1, InUseKept DEF StopInv, WaitedFor
  <2>2. ASSUME NEW w \in Workers, WaitPid(w), p = target[w]
        PROVE  WaitedFor(p)'
    BY <1>3, <2>2, WaitPidWaits DEF StopInv
  <2> QED
    BY <1>3, <2>1, <2>2, NewReplies
<1>4. ASSUME NEW i \in 1 .. MaxRequests, NEW k \in DOMAIN replies'[i]
      PROVE  replies'[i][k].pid \in Pids \cup {NoPid}
  <2>1. replies'[i] \in Seq(Response)
    BY <1>1 DEF IInv, TypeOK
  <2>2. replies'[i][k] \in Response
    BY <2>1, <1>4
  <2> QED
    BY <2>2 DEF Response
<1> QED
  BY <1>2, <1>3, <1>4 DEF StopInv, WaitedFor

\* Once the DELETE of a Netflix that the server started is answered, the
\* process netflix_stop found has been waited for and never runs again,
\* whatever other handlers do.
THEOREM StopSafe == Spec => []StoppedBeforeAnswer
<1>1. Init => StopInv
  <2> SUFFICES ASSUME Init PROVE StopInv
    OBVIOUS
  <2>1. \A i \in 1 .. MaxRequests : replies[i] = << >>
    BY DEF Init
  <2> QED
    BY <2>1 DEF Init, StopInv
<1>2. IInv /\ StopInv => StoppedBeforeAnswer
  <2> SUFFICES ASSUME IInv, StopInv, NEW i \in 1 .. Len(reqs),
                      NEW k \in DOMAIN replies[i],
                      replies[i][k].pid # NoPid, proc[replies[i][k].pid].child
               PROVE  proc[replies[i][k].pid].st = "reaped"
    BY DEF StoppedBeforeAnswer
  <2>1. i \in 1 .. MaxRequests
    BY DialAssumption DEF IInv, TypeOK
  <2> QED
    BY <2>1 DEF StopInv, WaitedFor
<1> QED
  BY <1>1, <1>2, StopInvStep, Inductive, PTL DEF Spec

-------------------------------------------------------------------------------
\* SecondNetflixOnlyInWindow.

\* A thread about to fork Netflix has noted, as children that isAppRunning was
\* too early for, every child that is Netflix or is about to be: so of two such
\* children one was noted when the other was forked.
WindowInv ==
  /\ FreeIsNoChild
  /\ \A w \in Workers : at[w] = "fork" /\ App(w) = "Netflix" =>
       \A p \in Pids : Live(p) => p \in early[w]
  /\ \A p, q \in Pids : p # q /\ Live(p) /\ Live(q) =>
       p \in proc[q].early \/ q \in proc[p].early

\* A child of the server becomes Netflix only through a fork.
LEMMA LiveStep ==
  ASSUME IInv, FreeIsNoChild, [Next]_vars, NEW p \in Pids, Live(p)'
  PROVE  \/ Live(p) /\ proc'[p].early = proc[p].early
         \/ \E w \in Workers : Launch(w, p)
<1>1. proc \in [Pids -> Process]
  BY DEF IInv, TypeOK
<1>2. proc[p].st \in ProcStates /\ proc'[p].child /\ proc'[p].app = "Netflix"
      /\ proc'[p].st \in {"forked", "up", "dying"}
  <2>1. proc[p] \in Process
    BY <1>1
  <2> QED
    BY <2>1 DEF Process, Live
<1>3. CASE Steady
  <2>1. Keeps(p)
    BY <1>3 DEF Steady
  <2>2. proc[p].st # "free"
    BY <1>2, <2>1 DEF Keeps, FreeIsNoChild
  <2> QED
    BY <1>2, <2>1, <2>2 DEF Keeps, Live
<1>4. ASSUME NEW q \in Pids, AnswerAgain(q)
      PROVE  Live(p) /\ proc'[p].early = proc[p].early
  BY <1>1, <1>2, <1>4, EntryKeeps DEF AnswerAgain, ExecFails, Live
<1>5. ASSUME NEW w \in Workers, NEW q \in Pids, q # p, Launch(w, q)
      PROVE  Live(p) /\ proc'[p].early = proc[p].early
  <2>1. proc'[p] = proc[p]
    BY <1>1, <1>5 DEF Launch, Fork
  <2> QED
    BY <1>2, <2>1 DEF Live
<1> QED
  BY <1>3, <1>4, <1>5, Shapes

\* How a handler comes to the point where it forks Netflix.
LEMMA ForkPoint ==
  ASSUME IInv, [Next]_vars, NEW w \in Workers,
         at'[w] = "fork", App(w)' = "Netflix"
  PROVE  \/ at[w] = "fork" /\ App(w) = "Netflix" /\ early'[w] = early[w]
         \/ StartNetflix(w) /\ Found("Netflix") = {}
            /\ early'[w] = Forked("Netflix")
<1>1. /\ TypeOK /\ Handling /\ at \in [Workers -> Points]
      /\ id \in [Workers -> 0 .. Len(reqs)]
      /\ early \in [Workers -> SUBSET Pids]
  BY DEF IInv, TypeOK
<1>2. ASSUME at[w] = "fork", id'[w] = id[w], early'[w] = early[w]
      PROVE  at[w] = "fork" /\ App(w) = "Netflix" /\ early'[w] = early[w]
  <2>1. id[w] \in 1 .. Len(reqs) /\ reqs \in Seq(Requests)
    BY <1>1, <1>2, RequestOf DEF TypeOK
  <2>2. reqs' = reqs \/ \E r \in Requests : reqs' = Append(reqs, r)
    BY Shapes DEF Answers, Receive, AnswerAgain
  <2>3. reqs'[id[w]] = reqs[id[w]]
    BY <2>1, <2>2
  <2> QED
    BY <1>2, <2>3 DEF App
<1>3. ASSUME NEW v \in Workers, NEW code, NEW pid, Respond(v, code, pid)
      PROVE  v # w /\ at[w] = "fork" /\ id'[w] = id[w] /\ early'[w] = early[w]
  BY <1>1, <1>3 DEF Respond
<1>4. ASSUME NEW v \in Workers, NEW point, point # "fork", Goto(v, point),
             UNCHANGED <<id, early>>
      PROVE  v # w /\ at[w] = "fork" /\ id'[w] = id[w] /\ early'[w] = early[w]
  BY <1>1, <1>4 DEF Goto
<1>5. ASSUME NEW v \in Workers, HandlerStep(v),
             ~ StartNetflix(v), ~ Enter(v)
      PROVE  at[w] = "fork" /\ id'[w] = id[w] /\ early'[w] = early[w]
  <2>1. CASE Route(v) \/ CheckOrigin(v)
    BY <2>1, <1>3, <1>4 DEF Route, CheckOrigin, Dispatch
  <2>2. CASE RespondOwn(v) \/ StartSystem(v) \/ LaunchFails(v)
             \/ StopNothing(v) \/ StopYouTube(v) \/ WaitPid(v)
             \/ \E p \in Pids : Launch(v, p)
    BY <2>2, <1>3 DEF RespondOwn, StartSystem, LaunchFails, StopNothing,
       StopYouTube, WaitPid, Launch, Started, Stopped, Finish
  <2>3. CASE NetflixReap(v) \/ StopNetflix(v)
    BY <2>3, <1>4 DEF NetflixReap, StopNetflix
  <2>4. CASE Look(v)
    <3>1. \/ \E code : Finish(v, code, NoPid)
          \/ Goto(v, "stop") /\ UNCHANGED <<id, early>>
      BY <2>4 DEF Look
    <3> QED
      BY <3>1, <1>3, <1>4 DEF Finish
  <2> QED
    BY <1>5, <2>1, <2>2, <2>3, <2>4 DEF HandlerStep
<1>6. ASSUME NEW v \in Workers, Enter(v)
      PROVE  at[w] = "fork" /\ id'[w] = id[w] /\ early'[w] = early[w]
  <2>1. v # w
    <3>1. CASE v = w
      <4>1. reqs[id[w]].app = "Netflix"
        BY <1>6, <3>1 DEF Enter, App
      <4>2. at'[w] # "fork"
        BY <1>1, <1>6, <3>1, <4>1 DEF Enter, Goto
      <4> QED
        BY <4>2
    <3> QED
      BY <3>1
  <2>2. PICK point : Goto(v, point)
    BY <1>6 DEF Enter
  <2> QED
    BY <1>1, <1>6, <2>1, <2>2 DEF Enter, Goto
<1>7. ASSUME NEW v \in Workers, StartNetflix(v)
      PROVE  \/ at[w] = "fork" /\ id'[w] = id[w] /\ early'[w] = early[w]
             \/ v = w /\ Found("Netflix") = {} /\ early'[w] = Forked("Netflix")
  <2>1. CASE Started(v, "Running")
    BY <2>1, <1>3 DEF Started, Finish
  <2>2. CASE /\ Found("Netflix") = {} /\ Goto(v, "fork") /\ UNCHANGED id
             /\ early' = [early EXCEPT ![v] = Forked("Netflix")]
    BY <1>1, <2>2 DEF Goto
  <2> QED
    BY <1>7, <2>1, <2>2 DEF StartNetflix
<1>8. ASSUME NEW v \in Workers, Receive(v)
      PROVE  at[w] = "fork" /\ id'[w] = id[w] /\ early'[w] = early[w]
  BY <1>1, <1>8 DEF Receive, Goto
<1>9. CASE \/ HostStep \/ UNCHANGED vars
           \/ \E p \in Pids : ProcessStep(p) \/ AnswerAgain(p)
  BY <1>2, <1>9 DEF HostStep, Register, RegisterFails, Unregister, vars,
     ProcessStep, AnswerAgain
<1> QED
  BY <1>2, <1>5, <1>6, <1>7, <1>8, <1>9 DEF Next, Rest

LEMMA FreeIsNoChildStep ==
  ASSUME IInv, FreeIsNoChild, [Next]_vars
  PROVE  FreeIsNoChild'
<1> SUFFICES ASSUME NEW p \in Pids, proc'[p].st = "free"
             PROVE  ~proc'[p].child
  BY DEF FreeIsNoChild
<1>1. proc \in [Pids -> Process]
  BY DEF IInv, TypeOK
<1>2. CASE Steady
  BY <1>2 DEF Steady, Keeps, FreeIsNoChild
<1>3. ASSUME NEW q \in Pids, AnswerAgain(q) PROVE ~proc'[p].child
  BY <1>1, <1>3, EntryKeeps DEF AnswerAgain, ExecFails, FreeIsNoChild
<1>4. ASSUME NEW w \in Workers, NEW q \in Pids, Launch(w, q)
      PROVE  ~proc'[p].child
  BY <1>1, <1>4 DEF Launch, Fork, FreeIsNoChild
<1> QED
  BY <1>2, <1>3, <1>4, Shapes

LEMMA WindowInvStep == IInv /\ WindowInv /\ [Next]_vars => WindowInv'
<1> SUFFICES ASSUME IInv, WindowInv, [Next]_vars PROVE WindowInv'
  OBVIOUS
<1>1. FreeIsNoChild /\ FreeIsNoChild' /\ proc \in [Pids -> Process]
  BY FreeIsNoChildStep DEF WindowInv, IInv, TypeOK
<1>2. ASSUME NEW w \in Workers, NEW p \in Pids, Launch(w, p)
      PROVE  /\ at[w] = "fork" /\ at'[w] = "idle" /\ proc[p].st = "free"
             /\ proc'[p].early = early[w] /\ proc'[p].app = App(w)
             /\ proc'[p].st = "forked"
             /\ \A q \in Pids \ {p} : proc'[q] = proc[q]
  <2>1. at \in [Workers -> Points]
    BY DEF IInv, TypeOK
  <2> QED
    BY <1>1, <1>2, <2>1 DEF Launch, Fork, Started, Finish, Respond
<1>3. ASSUME NEW w \in Workers, at'[w] = "fork", App(w)' = "Netflix",
             NEW p \in Pids, Live(p)'
      PROVE  p \in early'[w]
  <2>1. CASE at[w] = "fork" /\ App(w) = "Netflix" /\ early'[w] = early[w]
    <3>1. ASSUME NEW v \in Workers, Launch(v, p) PROVE FALSE
      <4>1. at[v] = "fork" /\ at'[v] = "idle"
        BY <1>2, <3>1
      <4>2. mux = v /\ mux = w
        BY <2>1, <4>1 DEF IInv, MuxDiscipline, HoldPoints
      <4> QED
        BY <1>3, <4>1, <4>2
    <3>2. Live(p)
      BY <1>1, <1>3, <3>1, LiveStep
    <3> QED
      BY <2>1, <3>2 DEF WindowInv
  <2>2. CASE /\ StartNetflix(w) /\ Found("Netflix") = {}
             /\ early'[w] = Forked("Netflix")
    <3>1. Live(p)
      BY <1>3, <2>2 DEF StartNetflix, Live
    <3>2. p \notin Found("Netflix")
      BY <2>2
    <3>3. p \in Forked("Netflix")
      BY <3>1, <3>2 DEF Live, Found, Forked
    <3> QED
      BY <2>2, <3>3
  <2> QED
    BY <1>3, <2>1, <2>2, ForkPoint
<1>4. ASSUME NEW p \in Pids, NEW q \in Pids, p # q, Live(p)', Live(q)'
      PROVE  p \in proc'[q].early \/ q \in proc'[p].early
  <2>1. ASSUME NEW a \in Pids, NEW b \in Pids, a # b, Live(a)', Live(b)',
               NEW w \in Workers, Launch(w, a)
        PROVE  b \in proc'[a].early
    <3>1. ~ \E v \in Workers : Launch(v, b)
      BY <1>2, <2>1
    <3>2. Live(b)
      BY <1>1, <2>1, <3>1, LiveStep
    <3>3. at[w] = "fork" /\ App(w) = "Netflix" /\ proc'[a].early = early[w]
      BY <1>2, <2>1 DEF Live
    <3> QED
      BY <3>2, <3>3 DEF WindowInv
  <2>2. CASE \E w \in Workers : Launch(w, p)
    BY <1>4, <2>1, <2>2
  <2>3. CASE \E w \in Workers : Launch(w, q)
    BY <1>4, <2>1, <2>3
  <2>4. CASE /\ Live(p) /\ proc'[p].early = proc[p].early
             /\ Live(q) /\ proc'[q].early = proc[q].early
    BY <1>4, <2>4 DEF WindowInv
  <2> QED
    BY <1>1, <1>4, <2>2, <2>3, <2>4, LiveStep
<1> QED
  BY <1>1, <1>3, <1>4 DEF WindowInv

\* netflix_start's test under the mutex leaves a second Netflix one window:
\* between the fork of the first and its execv.
THEOREM WindowSafe == Spec => []SecondNetflixOnlyInWindow
<1>1. Init => WindowInv
  <2> SUFFICES ASSUME Init PROVE WindowInv
    OBVIOUS
  <2>1. \A p \in Pids : proc[p].st = "free" /\ ~proc[p].child
    BY DEF Init, ProcInit
  <2>2. \A w \in Workers : at[w] = "idle"
    BY DEF Init
  <2> QED
    BY <2>1, <2>2 DEF WindowInv, FreeIsNoChild, Live
<1>2. WindowInv => SecondNetflixOnlyInWindow
  BY DEF WindowInv, SecondNetflixOnlyInWindow, Live
<1> QED
  BY <1>1, <1>2, WindowInvStep, Inductive, PTL DEF Spec

-------------------------------------------------------------------------------
\* OneResponse.

\* The children that answered request i again.
Clones(i) == {p \in Pids : proc[p].st = "clone" /\ proc[p].id = i}

\* How many responses request i has.
Answered(i) ==
  Len(replies[i]) = Cardinality(Clones(i))
                      + IF \E w \in Workers : id[w] = i THEN 0 ELSE 1

\* Strengthens OneResponse: no two threads handle the same request, an idle one
\* handles none, and what has not been received has not been answered.
AnswerInv ==
  /\ \A v, w \in Workers : v # w /\ id[v] = id[w] => id[v] = 0
  /\ \A w \in Workers : at[w] = "idle" => id[w] = 0
  /\ \A p \in Pids : proc[p].st \in {"forked", "clone"} =>
                        proc[p].id \in 1 .. Len(reqs)
  /\ \A i \in 1 .. MaxRequests : i > Len(reqs) => replies[i] = << >>
  /\ \A i \in 1 .. Len(reqs) : Answered(i)

LEMMA ClonesFinite == \A i : IsFiniteSet(Clones(i)) /\ Cardinality(Clones(i)) \in Nat
  BY PidAssumption, FS_Subset, FS_CardinalityType DEF Clones

\* Without a failed execv nobody answers again.
LEMMA SteadyClones ==
  ASSUME IInv, NEW i,
         Steady \/ \E w \in Workers, p \in Pids : Launch(w, p)
  PROVE  Clones(i)' = Clones(i)
<1>1. proc \in [Pids -> Process]
  BY DEF IInv, TypeOK
<1>2. CASE Steady
  BY <1>2 DEF Steady, Keeps, NewClone, Clones
<1>3. ASSUME NEW w \in Workers, NEW p \in Pids, Launch(w, p)
      PROVE  Clones(i)' = Clones(i)
  <2>1. proc[p].st = "free" /\ proc'[p].st = "forked"
    BY <1>1, <1>3 DEF Launch, Fork
  <2>2. \A q \in Pids \ {p} : proc'[q] = proc[q]
    BY <1>1, <1>3 DEF Launch, Fork
  <2> QED
    BY <2>1, <2>2 DEF Clones
<1> QED
  BY <1>2, <1>3

LEMMA ForkedStep ==
  ASSUME IInv, AnswerInv, [Next]_vars,
         NEW p \in Pids, proc'[p].st \in {"forked", "clone"}
  PROVE  proc'[p].id \in 1 .. Len(reqs)
<1>1. proc \in [Pids -> Process] /\ TypeOK /\ Handling
  BY DEF IInv, TypeOK
<1>2. CASE Steady
  BY <1>2 DEF Steady, Keeps, NewClone, AnswerInv
<1>3. ASSUME NEW q \in Pids, AnswerAgain(q)
      PROVE  proc'[p].id \in 1 .. Len(reqs)
  BY <1>1, <1>3, EntryKeeps DEF AnswerAgain, ExecFails, AnswerInv
<1>4. ASSUME NEW w \in Workers, NEW q \in Pids, Launch(w, q)
      PROVE  proc'[p].id \in 1 .. Len(reqs)
  <2>1. CASE p = q
    <3>1. at[w] = "fork" /\ proc'[p].id = id[w]
      BY <1>1, <1>4, <2>1 DEF Launch, Fork
    <3> QED
      BY <1>1, <3>1, RequestOf
  <2>2. CASE p # q
    BY <1>1, <1>4, <2>2 DEF Launch, Fork, AnswerInv
  <2> QED
    BY <2>1, <2>2
<1> QED
  BY <1>2, <1>3, <1>4, Shapes

\* A handler's answer is the one response of its request.
LEMMA AnswersOnce ==
  ASSUME IInv, AnswerInv, NEW w \in Workers, Answers(w),
         \A i : Clones(i)' = Clones(i)
  PROVE  /\ reqs' = reqs /\ id'[w] = 0 /\ at'[w] = "idle"
         /\ \A v \in Workers \ {w} : id'[v] = id[v] /\ at'[v] = at[v]
         /\ \A i \in 1 .. MaxRequests : i > Len(reqs) => replies'[i] = << >>
         /\ \A i \in 1 .. Len(reqs) : Answered(i)'
<1> DEFINE n == id[w]
<1>1. /\ at[w] # "idle" /\ TypeOK /\ Handling /\ reqs' = reqs
      /\ id \in [Workers -> 0 .. Len(reqs)] /\ at \in [Workers -> Points]
      /\ replies \in [1 .. MaxRequests -> Seq(Response)]
      /\ Len(reqs) \in Nat /\ Len(reqs) <= MaxRequests
  BY DEF IInv, TypeOK, Answers
<1>2. PICK code \in Codes, pid \in Pids \cup {NoPid} : Respond(w, code, pid)
  BY DEF Answers
<1>3. /\ id'[w] = 0 /\ at'[w] = "idle"
      /\ \A v \in Workers \ {w} : id'[v] = id[v] /\ at'[v] = at[v]
  BY <1>1, <1>2 DEF Respond
<1>4. n \in 1 .. Len(reqs) /\ n \in 1 .. MaxRequests
  BY <1>1, RequestOf
<1>5. \A i \in 1 .. MaxRequests : i # n => replies'[i] = replies[i]
  BY <1>1, <1>2 DEF Respond
<1>6. Len(replies'[n]) = Len(replies[n]) + 1
  <2>1. replies'[n] = Append(replies[n], [code |-> code, pid |-> pid])
    BY <1>1, <1>2, <1>4 DEF Respond
  <2>2. [code |-> code, pid |-> pid] \in Response /\ replies[n] \in Seq(Response)
    BY <1>1, <1>4 DEF Response, Codes
  <2> QED
    BY <2>1, <2>2
<1>7. ASSUME NEW i \in 1 .. Len(reqs) PROVE Answered(i)'
  <2>1. Answered(i) /\ Clones(i)' = Clones(i) /\ i \in 1 .. MaxRequests
    BY <1>1, DialAssumption DEF AnswerInv
  <2>2. CASE i = n
    <3>1. ~ \E v \in Workers : id'[v] = i
      BY <1>3, <1>4, <2>2 DEF AnswerInv
    <3>2. Len(replies[i]) = Cardinality(Clones(i))
      BY <2>1, <2>2, ClonesFinite DEF Answered
    <3>3. Len(replies'[i]) = Cardinality(Clones(i)) + 1
      BY <1>6, <2>2, <3>2
    <3> QED
      BY <2>1, <3>1, <3>3 DEF Answered
  <2>3. CASE i # n
    <3>1. (\E v \in Workers : id'[v] = i) <=> (\E v \in Workers : id[v] = i)
      BY <1>3, <2>3
    <3>2. replies'[i] = replies[i]
      BY <1>5, <2>1, <2>3
    <3> QED
      BY <2>1, <3>1, <3>2 DEF Answered
  <2> QED
    BY <2>2, <2>3
<1>8. \A i \in 1 .. MaxRequests : i > Len(reqs) => replies'[i] = << >>
  BY <1>1, <1>4, <1>5, DialAssumption DEF AnswerInv
<1> QED
  BY <1>1, <1>3, <1>7, <1>8

\* A request that is received has no response, and nobody can answer it again.
LEMMA ReceivedUnanswered ==
  ASSUME IInv, AnswerInv, NEW w \in Workers, Receive(w), Steady
  PROVE  AnswerInv'
<1> DEFINE n == Len(reqs) + 1
<1>1. /\ TypeOK /\ reqs \in Seq(Requests) /\ Len(reqs) \in Nat
      /\ id \in [Workers -> 0 .. Len(reqs)] /\ at \in [Workers -> Points]
      /\ proc \in [Pids -> Process] /\ UNCHANGED <<replies, proc>>
  BY DEF IInv, TypeOK, Receive
<1>2. /\ Len(reqs') = n /\ n \in 1 .. MaxRequests
      /\ id[w] = 0 /\ id'[w] = n /\ at'[w] = "route"
      /\ \A v \in Workers \ {w} : id'[v] = id[v] /\ at'[v] = at[v]
  BY <1>1, DialAssumption DEF Receive, AnswerInv, Goto
<1>3. \A i : Clones(i)' = Clones(i)
  BY SteadyClones
<1>4. Clones(n) = {}
  BY <1>1 DEF Clones, AnswerInv
<1>5. ASSUME NEW i \in 1 .. Len(reqs') PROVE Answered(i)'
  <2>1. CASE i = n
    <3>1. Len(replies'[i]) = 0
      BY <1>1, <1>2, <2>1 DEF AnswerInv
    <3>2. Clones(i)' = {}
      BY <1>3, <1>4, <2>1
    <3>3. Cardinality(Clones(i)') = 0
      BY <3>2, FS_EmptySet
    <3>4. \E v \in Workers : id'[v] = i
      BY <1>2, <2>1
    <3> QED
      BY <3>1, <3>3, <3>4 DEF Answered
  <2>2. CASE i # n
    <3>1. i \in 1 .. Len(reqs) /\ Answered(i)
      BY <1>1, <1>2, <2>2 DEF AnswerInv
    <3>2. (\E v \in Workers : id'[v] = i) <=> (\E v \in Workers : id[v] = i)
      BY <1>2, <2>2, <3>1
    <3> QED
      BY <1>1, <1>3, <3>1, <3>2 DEF Answered
  <2> QED
    BY <2>1, <2>2
<1>6. \A i \in 1 .. MaxRequests : i > Len(reqs') => replies'[i] = << >>
  BY <1>1, <1>2, DialAssumption DEF AnswerInv
<1>7. \A u, v \in Workers : u # v /\ id'[u] = id'[v] => id'[u] = 0
  BY <1>1, <1>2 DEF AnswerInv
<1>8. \A v \in Workers : at'[v] = "idle" => id'[v] = 0
  BY <1>2 DEF AnswerInv
<1>9. \A p \in Pids : proc'[p].st \in {"forked", "clone"} =>
                         proc'[p].id \in 1 .. Len(reqs')
  BY <1>1, <1>2 DEF AnswerInv
<1> QED
  BY <1>5, <1>6, <1>7, <1>8, <1>9 DEF AnswerInv

\* A failed execv adds one clone, and one response.
LEMMA AnsweredAgain ==
  ASSUME IInv, AnswerInv, [Next]_vars, NEW p \in Pids, AnswerAgain(p)
  PROVE  AnswerInv'
<1> DEFINE n == proc[p].id
<1>1. /\ UNCHANGED <<id, at, reqs>> /\ proc[p].st = "forked"
      /\ replies \in [1 .. MaxRequests -> Seq(Response)]
      /\ proc \in [Pids -> Process]
      /\ Len(reqs) \in Nat /\ Len(reqs) <= MaxRequests
  BY DEF IInv, TypeOK, AnswerAgain, ExecFails
<1>2. n \in 1 .. Len(reqs) /\ n \in 1 .. MaxRequests
  BY <1>1, DialAssumption DEF AnswerInv
<1>3. /\ proc'[p].st = "clone" /\ proc'[p].id = n
      /\ \A q \in Pids \ {p} : proc'[q] = proc[q]
  BY <1>1, EntryKeeps DEF AnswerAgain, ExecFails
<1>4. ASSUME NEW i, i # n PROVE Clones(i)' = Clones(i)
  BY <1>1, <1>3, <1>4 DEF Clones
<1>5. Clones(n)' = Clones(n) \cup {p} /\ p \notin Clones(n)
  BY <1>1, <1>3 DEF Clones
<1>6. Cardinality(Clones(n) \cup {p}) = Cardinality(Clones(n)) + 1
  BY <1>5, ClonesFinite, FS_AddElement
<1>7. /\ \A i \in 1 .. MaxRequests : i # n => replies'[i] = replies[i]
      /\ replies'[n] = Append(replies[n], [code |-> "201", pid |-> NoPid])
  BY <1>1, <1>2 DEF AnswerAgain
<1>8. Len(replies'[n]) = Len(replies[n]) + 1
  <2>1. [code |-> "201", pid |-> NoPid] \in Response /\ replies[n] \in Seq(Response)
    BY <1>1, <1>2 DEF Response
  <2> QED
    BY <1>7, <2>1
<1>9. ASSUME NEW i \in 1 .. Len(reqs) PROVE Answered(i)'
  <2>1. Answered(i) /\ i \in 1 .. MaxRequests
    BY <1>1, DialAssumption DEF AnswerInv
  <2>2. CASE i # n
    BY <1>1, <1>4, <1>7, <2>1, <2>2 DEF Answered
  <2>3. CASE i = n
    <3>1. Cardinality(Clones(i)') = Cardinality(Clones(i)) + 1
      BY <1>3, <1>5, <1>6, <2>3 DEF Clones
    <3> QED
      BY <1>1, <1>8, <2>1, <2>3, <3>1, ClonesFinite DEF Answered
  <2> QED
    BY <2>2, <2>3
<1>10. \A i \in 1 .. MaxRequests : i > Len(reqs) => replies'[i] = << >>
  BY <1>1, <1>2, <1>7 DEF AnswerInv
<1>11. \A q \in Pids : proc'[q].st \in {"forked", "clone"} =>
                         proc'[q].id \in 1 .. Len(reqs)
  BY ForkedStep
<1> QED
  BY <1>1, <1>9, <1>10, <1>11 DEF AnswerInv

LEMMA AnswerInvStep == IInv /\ AnswerInv /\ [Next]_vars => AnswerInv'
<1> SUFFICES ASSUME IInv, AnswerInv, [Next]_vars PROVE AnswerInv'
  OBVIOUS
<1>1. ASSUME Steady, UNCHANGED <<id, replies, reqs>>, GoesOn PROVE AnswerInv'
  <2>1. \A i : Clones(i)' = Clones(i)
    BY <1>1, SteadyClones
  <2>2. \A i \in 1 .. Len(reqs) : Answered(i)'
    BY <1>1, <2>1 DEF AnswerInv, Answered
  <2>3. \A p \in Pids : proc'[p].st \in {"forked", "clone"} =>
                          proc'[p].id \in 1 .. Len(reqs)
    BY ForkedStep
  <2> QED
    BY <1>1, <2>2, <2>3 DEF AnswerInv, GoesOn
<1>2. ASSUME NEW w \in Workers, Answers(w),
             Steady \/ \E p \in Pids : Launch(w, p)
      PROVE  AnswerInv'
  <2>1. \A i : Clones(i)' = Clones(i)
    BY <1>2, SteadyClones
  <2>2. /\ reqs' = reqs /\ id'[w] = 0 /\ at'[w] = "idle"
        /\ \A v \in Workers \ {w} : id'[v] = id[v] /\ at'[v] = at[v]
        /\ \A i \in 1 .. MaxRequests : i > Len(reqs) => replies'[i] = << >>
        /\ \A i \in 1 .. Len(reqs) : Answered(i)'
    BY <1>2, <2>1, AnswersOnce
  <2>3. \A p \in Pids : proc'[p].st \in {"forked", "clone"} =>
                          proc'[p].id \in 1 .. Len(reqs)
    BY ForkedStep
  <2>4. \A u, v \in Workers : u # v /\ id'[u] = id'[v] => id'[u] = 0
    BY <2>2 DEF AnswerInv
  <2> QED
    BY <2>2, <2>3, <2>4 DEF AnswerInv
<1> QED
  BY <1>1, <1>2, ReceivedUnanswered, AnsweredAgain, Shapes

\* Every request gets exactly one response, whatever the interleaving of the
\* threads, but for the one a child adds when it cannot execute the application.
THEOREM AnsweredOnce == Spec => []OneResponse
<1>1. Init => AnswerInv
  <2> SUFFICES ASSUME Init PROVE AnswerInv
    OBVIOUS
  <2>1. /\ Len(reqs) = 0 /\ \A i \in 1 .. MaxRequests : replies[i] = << >>
        /\ \A w \in Workers : id[w] = 0
        /\ \A p \in Pids : proc[p].st = "free"
    BY DEF Init, ProcInit
  <2> QED
    BY <2>1 DEF AnswerInv
<1>2. AnswerInv => OneResponse
  BY DEF AnswerInv, Answered, Clones, OneResponse
<1> QED
  BY <1>1, <1>2, AnswerInvStep, Inductive, PTL DEF Spec

===============================================================================
