--------------------------- MODULE DialServerProofs ---------------------------
(***************************************************************************)
(* Proofs about DialServer, for any number of threads, requests, processes *)
(* and calls of the host.                                                  *)
(***************************************************************************)
EXTENDS DialServer, FiniteSetTheorems, TLAPS

\* A thread that handles a request has one, and has a process to wait for
\* when it waits.
Handling ==
  /\ \A w \in Workers : at[w] # "idle" => id[w] # 0
  /\ \A w \in Workers : at[w] = "waitpid" => target[w] \in Pids

\* The first inductive invariant.  The application of a handler is registered
\* because the host changes the list only while no handler has the mutex, and
\* because a handler finds its application under the mutex.
IInv == TypeOK /\ Handling /\ MuxDiscipline /\ AppOutlivesHandler

-------------------------------------------------------------------------------
LEMMA InitIInv == Init => IInv
<1> SUFFICES ASSUME Init PROVE IInv
  OBVIOUS
<1> USE DialAssumption, PidAssumption DEF Init
<1>1. TypeOK
  <2>1. /\ mux \in Workers \cup {Host, Nobody} /\ registered \subseteq Names
        /\ cors \in [Names -> SUBSET Origins]
        /\ run_id \in [Names -> Pids \cup Unset]
        /\ state \in [Names -> {"Stopped"}]
    OBVIOUS
  <2>2. reqs \in Seq(Requests) /\ Len(reqs) = 0 /\ host_calls = 0
    OBVIOUS
  <2>3. /\ at \in [Workers -> {"idle"}] /\ id \in [Workers -> {0}]
        /\ target \in [Workers -> {NoPid}] /\ early \in [Workers -> {{}}]
    OBVIOUS
  <2>4. replies \in [1 .. MaxRequests -> Seq(Response)]
    OBVIOUS
  <2> QED
    <3>1. [st |-> "free", app |-> "", child |-> FALSE, id |-> 0, early |-> {}]
            \in Process
      BY <2>2 DEF Process, ProcStates
    <3>2. proc \in [Pids -> Process]
      BY <3>1 DEF ProcInit
    <3> QED
      BY <2>1, <2>2, <2>3, <2>4, <3>2 DEF TypeOK, Points, DIALStatus
<1>2. Handling /\ MuxDiscipline /\ AppOutlivesHandler
  BY DEF Handling, MuxDiscipline, AppOutlivesHandler, HoldPoints
<1> QED
  BY <1>1, <1>2 DEF IInv

\* The request of a thread that handles one.
LEMMA RequestOf ==
  ASSUME TypeOK, Handling, NEW w \in Workers, at[w] # "idle"
  PROVE  /\ id[w] \in 1 .. Len(reqs) /\ id[w] \in 1 .. MaxRequests
         /\ reqs[id[w]] \in RequestType /\ App(w) = reqs[id[w]].app
<1>1. id[w] \in 0 .. Len(reqs) /\ id[w] # 0 /\ Len(reqs) \in Nat
  BY DEF TypeOK, Handling
<1>2. reqs \in Seq(Requests) /\ Len(reqs) <= MaxRequests
  BY DEF TypeOK
<1>3. id[w] \in 1 .. Len(reqs) /\ id[w] \in 1 .. MaxRequests
  BY <1>1, <1>2, DialAssumption
<1> QED
  BY <1>2, <1>3, DialAssumption DEF App

Codes == {"200", "201", "204", "400", "401", "403", "404", "413", "500", "501",
          "503", "hidden", "running", "stopped"}

\* A response leaves the variables it changes within their types, and the
\* thread idle.
LEMMA RespondTypes ==
  ASSUME TypeOK, Handling, NEW w \in Workers, at[w] # "idle",
         NEW code \in Codes, NEW pid \in Pids \cup {NoPid},
         Respond(w, code, pid), reqs' = reqs
  PROVE  /\ at' \in [Workers -> Points] /\ id' \in [Workers -> 0 .. Len(reqs)]
         /\ target' \in [Workers -> Pids \cup {NoPid}]
         /\ early' \in [Workers -> SUBSET Pids]
         /\ replies' \in [1 .. MaxRequests -> Seq(Response)]
         /\ at'[w] = "idle" /\ \A v \in Workers \ {w} : at'[v] = at[v]
         /\ Handling'
<1>1. id[w] \in 1 .. MaxRequests
  BY RequestOf
<1>2. [code |-> code, pid |-> pid] \in Response
  BY DEF Response, Codes
<1>3. replies' \in [1 .. MaxRequests -> Seq(Response)]
  <2>1. replies[id[w]] \in Seq(Response)
    BY <1>1 DEF TypeOK
  <2>2. Append(replies[id[w]], [code |-> code, pid |-> pid]) \in Seq(Response)
    BY <1>2, <2>1
  <2> QED
    BY <2>2 DEF TypeOK, Respond
<1>4. /\ at' \in [Workers -> Points] /\ id' \in [Workers -> 0 .. Len(reqs)]
      /\ target' \in [Workers -> Pids \cup {NoPid}]
      /\ early' \in [Workers -> SUBSET Pids]
  <2>1. /\ at \in [Workers -> Points] /\ id \in [Workers -> 0 .. Len(reqs)]
        /\ target \in [Workers -> Pids \cup {NoPid}]
        /\ early \in [Workers -> SUBSET Pids] /\ Len(reqs) \in Nat
    BY DEF TypeOK
  <2> QED
    BY <2>1 DEF Respond, Points
<1>5. at'[w] = "idle" /\ \A v \in Workers \ {w} : at'[v] = at[v]
  BY DEF TypeOK, Respond
<1>6. Handling'
  BY <1>5 DEF Handling, Respond, TypeOK
<1> QED
  BY <1>3, <1>4, <1>5, <1>6

\* A step of a handler that has the mutex, and gives it back or keeps it.
LEMMA HolderKeepsMux ==
  ASSUME IInv, NEW w \in Workers, at[w] \in HoldPoints,
         reqs' = reqs, registered' = registered,
         \A v \in Workers \ {w} : at'[v] = at[v] /\ id'[v] = id[v],
         \/ mux' = Nobody /\ at'[w] = "idle"
         \/ mux' = mux /\ at'[w] \in HoldPoints /\ id'[w] = id[w]
  PROVE  MuxDiscipline' /\ AppOutlivesHandler'
  BY DialAssumption DEF IInv, MuxDiscipline, AppOutlivesHandler, App, HoldPoints

\* A handler ends: it answers and gives the mutex back.
LEMMA FinishKeepsIInv ==
  ASSUME IInv, NEW w \in Workers, at[w] \in HoldPoints,
         NEW code \in Codes, NEW pid \in Pids \cup {NoPid},
         Finish(w, code, pid), UNCHANGED <<registered, cors, reqs, host_calls>>,
         run_id' \in [Names -> Pids \cup Unset], state' \in [Names -> DIALStatus],
         proc' \in [Pids -> Process]
  PROVE  IInv'
<1>1. at[w] # "idle" /\ TypeOK /\ Handling
  BY DEF IInv, HoldPoints
<1>2. /\ at' \in [Workers -> Points] /\ id' \in [Workers -> 0 .. Len(reqs)]
      /\ target' \in [Workers -> Pids \cup {NoPid}]
      /\ early' \in [Workers -> SUBSET Pids]
      /\ replies' \in [1 .. MaxRequests -> Seq(Response)]
      /\ at'[w] = "idle" /\ \A v \in Workers \ {w} : at'[v] = at[v]
      /\ Handling'
  BY <1>1, RespondTypes DEF Finish
<1>3. TypeOK'
  BY <1>1, <1>2 DEF TypeOK, Finish, Process
<1>4. \A v \in Workers \ {w} : id'[v] = id[v]
  BY <1>1 DEF Finish, Respond, TypeOK
<1>5. MuxDiscipline' /\ AppOutlivesHandler'
  BY <1>2, <1>4, HolderKeepsMux DEF Finish
<1> QED
  BY <1>2, <1>3, <1>5 DEF IInv

\* A handler that does not have the mutex answers.
LEMMA RespondKeepsIInv ==
  ASSUME IInv, NEW w \in Workers, at[w] \in {"route", "lock"},
         NEW code \in Codes, Respond(w, code, NoPid),
         UNCHANGED <<mux, registry, reqs, host_calls, proc>>
  PROVE  IInv'
<1>1. at[w] # "idle" /\ at[w] \notin HoldPoints /\ TypeOK /\ Handling
  BY DEF IInv, HoldPoints
<1>2. /\ at' \in [Workers -> Points] /\ id' \in [Workers -> 0 .. Len(reqs)]
      /\ target' \in [Workers -> Pids \cup {NoPid}]
      /\ early' \in [Workers -> SUBSET Pids]
      /\ replies' \in [1 .. MaxRequests -> Seq(Response)]
      /\ at'[w] = "idle" /\ \A v \in Workers \ {w} : at'[v] = at[v]
      /\ Handling'
  BY <1>1, RespondTypes
<1>3. TypeOK'
  BY <1>1, <1>2 DEF TypeOK, registry, Process
<1>4. \A v \in Workers \ {w} : id'[v] = id[v]
  BY <1>1 DEF Respond, TypeOK
<1>5. MuxDiscipline' /\ AppOutlivesHandler'
  BY <1>1, <1>2, <1>4 DEF IInv, MuxDiscipline, AppOutlivesHandler, App,
     registry, HoldPoints
<1> QED
  BY <1>2, <1>3, <1>5 DEF IInv

\* A handler goes on, with the mutex it had and still has.
LEMMA HoldKeepsIInv ==
  ASSUME IInv, NEW w \in Workers, at[w] \in HoldPoints,
         NEW point \in HoldPoints, Goto(w, point),
         point = "waitpid" => target'[w] \in Pids,
         \A v \in Workers \ {w} : target'[v] = target[v],
         UNCHANGED <<registered, cors, run_id, mux, id, replies, reqs, host_calls>>,
         state' \in [Names -> DIALStatus], proc' \in [Pids -> Process],
         target' \in [Workers -> Pids \cup {NoPid}],
         early' \in [Workers -> SUBSET Pids]
  PROVE  IInv'
<1>1. TypeOK /\ Handling /\ at[w] # "idle"
  BY DEF IInv, HoldPoints
<1>2. at' \in [Workers -> Points] /\ at'[w] = point
  BY <1>1 DEF TypeOK, Goto, Points
<1>3. \A v \in Workers \ {w} : at'[v] = at[v] /\ id'[v] = id[v]
  BY <1>1 DEF TypeOK, Goto
<1>4. TypeOK'
  BY <1>1, <1>2 DEF TypeOK, Process
<1>5. Handling'
  BY <1>1, <1>2, <1>3 DEF Handling
<1>6. MuxDiscipline' /\ AppOutlivesHandler'
  BY <1>2, <1>3, HolderKeepsMux
<1> QED
  BY <1>4, <1>5, <1>6 DEF IInv

-------------------------------------------------------------------------------
\* Requests before the mutex is taken.

LEMMA ReceiveKeepsIInv ==
  ASSUME IInv, NEW w \in Workers, Receive(w)
  PROVE  IInv'
<1>1. TypeOK /\ Handling /\ reqs \in Seq(Requests) /\ Len(reqs) \in Nat
  BY DEF IInv, TypeOK
<1>2. PICK r \in Requests : reqs' = Append(reqs, r)
  BY DEF Receive
<1>3. /\ reqs' \in Seq(Requests) /\ Len(reqs') = Len(reqs) + 1
      /\ \A i \in 1 .. Len(reqs) : reqs'[i] = reqs[i]
  BY <1>1, <1>2
<1>4. Len(reqs') <= MaxRequests
  BY <1>1, <1>3, DialAssumption DEF Receive
<1>5. at' \in [Workers -> Points] /\ at'[w] = "route"
  BY <1>1 DEF Receive, TypeOK, Goto, Points
<1>6. id' \in [Workers -> 0 .. Len(reqs')]
  BY <1>1, <1>3 DEF Receive, TypeOK
<1>7. proc' \in [Pids -> Process']
  <2>1. 0 .. Len(reqs) \subseteq 0 .. Len(reqs')
    BY <1>1, <1>3
  <2>2. Process \subseteq Process'
    BY <2>1 DEF Process
  <2> QED
    BY <1>1, <2>2 DEF Receive, TypeOK
<1>8. TypeOK'
  BY <1>1, <1>3, <1>4, <1>5, <1>6, <1>7 DEF TypeOK, Receive, registry
<1>9. \A v \in Workers \ {w} : at'[v] = at[v] /\ id'[v] = id[v]
  BY <1>1 DEF TypeOK, Receive, Goto
<1>10. Handling'
  BY <1>1, <1>5, <1>9 DEF Handling, Receive, TypeOK
<1>11. MuxDiscipline'
  BY <1>5, <1>9 DEF IInv, MuxDiscipline, Receive, HoldPoints
<1>12. AppOutlivesHandler'
  <2> SUFFICES ASSUME NEW v \in Workers, at'[v] \in HoldPoints
               PROVE  App(v)' \in registered'
    BY DEF AppOutlivesHandler
  <2>1. v # w /\ at[v] \in HoldPoints /\ at[v] # "idle" /\ id'[v] = id[v]
    BY <1>5, <1>9 DEF HoldPoints
  <2>2. App(v)' = App(v)
    BY <2>1, <1>1, <1>3, RequestOf DEF App
  <2> QED
    BY <2>1, <2>2 DEF IInv, AppOutlivesHandler, Receive, registry
<1> QED
  BY <1>8, <1>10, <1>11, <1>12 DEF IInv

LEMMA DispatchKeepsIInv ==
  ASSUME IInv, NEW w \in Workers, at[w] = "route", NEW r, Dispatch(w, r),
         UNCHANGED <<mux, registry, reqs, host_calls, proc>>
  PROVE  IInv'
<1>1. CASE Operation(r) \in {"204", "501"}
  BY <1>1, RespondKeepsIInv DEF Dispatch, Codes
<1>2. CASE Operation(r) \notin {"204", "501"}
  <2>1. TypeOK /\ Handling
    BY DEF IInv
  <2>2. at' \in [Workers -> Points] /\ at'[w] = "lock"
    BY <1>2, <2>1 DEF Dispatch, Goto, TypeOK, Points
  <2>3. \A v \in Workers \ {w} : at'[v] = at[v]
    BY <1>2, <2>1 DEF Dispatch, Goto, TypeOK
  <2>4. TypeOK'
    BY <1>2, <2>1, <2>2 DEF Dispatch, TypeOK, Process, registry
  <2>5. Handling' /\ MuxDiscipline' /\ AppOutlivesHandler'
    BY <1>2, <2>2, <2>3 DEF Dispatch, IInv, Handling, MuxDiscipline,
       AppOutlivesHandler, App, registry, HoldPoints
  <2> QED
    BY <2>4, <2>5 DEF IInv
<1> QED
  BY <1>1, <1>2

LEMMA RouteKeepsIInv ==
  ASSUME IInv, NEW w \in Workers, Route(w) \/ CheckOrigin(w)
  PROVE  IInv'
<1> DEFINE r == reqs[id[w]]
<1>1. at[w] = "route" /\ UNCHANGED <<mux, registry, reqs, host_calls, proc>>
  BY DEF Route, CheckOrigin
<1>2. CASE Dispatch(w, r)
  BY <1>1, <1>2, DispatchKeepsIInv
<1>3. CASE BadUri(r) # "" /\ Respond(w, BadUri(r), NoPid)
  <2>1. BadUri(r) \in Codes
    BY <1>3 DEF BadUri, Codes
  <2> QED
    BY <1>1, <1>3, <2>1, RespondKeepsIInv
<1>4. CASE Respond(w, "403", NoPid)
  BY <1>1, <1>4, RespondKeepsIInv DEF Codes
<1> QED
  BY <1>2, <1>3, <1>4 DEF Route, CheckOrigin

LEMMA RespondOwnKeepsIInv ==
  ASSUME IInv, NEW w \in Workers, RespondOwn(w)
  PROVE  IInv'
<1>1. OwnResponse(reqs[id[w]]) \in Codes
  BY DEF RespondOwn, OwnResponse, Codes
<1> QED
  BY <1>1, RespondKeepsIInv DEF RespondOwn

\* The application was found under the mutex that the handler now has.
LEMMA EnterKeepsIInv ==
  ASSUME IInv, NEW w \in Workers, Enter(w)
  PROVE  IInv'
<1> DEFINE r == reqs[id[w]]
<1>1. TypeOK /\ Handling /\ at[w] = "lock" /\ mux = Nobody /\ mux' = w
  BY DEF IInv, Enter
<1>2. r.app \in registered
  BY DEF Enter, OwnResponse
<1>3. PICK point \in {"fork", "start", "reap", "look"} : Goto(w, point)
  BY DEF Enter
<1>4. at' \in [Workers -> Points] /\ at'[w] = point
  BY <1>1, <1>3 DEF TypeOK, Goto, Points, HoldPoints
<1>5. \A v \in Workers \ {w} : at'[v] = at[v]
  BY <1>1, <1>3 DEF TypeOK, Goto
<1>6. TypeOK'
  BY <1>1, <1>4 DEF TypeOK, Enter, registry, Process
<1>7. Handling' /\ AppOutlivesHandler'
  BY <1>1, <1>2, <1>4, <1>5 DEF IInv, Handling, AppOutlivesHandler, Enter,
     registry, App
<1>8. MuxDiscipline'
  BY <1>1, <1>4, <1>5, DialAssumption DEF IInv, MuxDiscipline, HoldPoints
<1> QED
  BY <1>6, <1>7, <1>8 DEF IInv

-------------------------------------------------------------------------------
\* The start callbacks.

LEMMA StartedKeepsIInv ==
  ASSUME IInv, NEW w \in Workers, at[w] \in HoldPoints,
         NEW status \in DIALStatus, Started(w, status),
         UNCHANGED <<registered, cors, reqs, host_calls>>,
         run_id' \in [Names -> Pids \cup Unset], proc' \in [Pids -> Process]
  PROVE  IInv'
<1>1. StartCode(status) \in Codes
  BY DEF StartCode, Codes
<1>2. state' \in [Names -> DIALStatus]
  BY DEF Started, IInv, TypeOK
<1> QED
  BY <1>1, <1>2, FinishKeepsIInv DEF Started

LEMMA StartKeepsIInv ==
  ASSUME IInv, NEW w \in Workers,
         \/ StartSystem(w) \/ StartNetflix(w) \/ LaunchFails(w)
  PROVE  IInv'
<1>1. /\ run_id \in [Names -> Pids \cup Unset] /\ proc \in [Pids -> Process]
      /\ state \in [Names -> DIALStatus] /\ early \in [Workers -> SUBSET Pids]
      /\ target \in [Workers -> Pids \cup {NoPid}]
  BY DEF IInv, TypeOK
<1>2. CASE StartSystem(w)
  <2>1. SystemStatus(reqs[id[w]].query) \in DIALStatus
    BY DEF SystemStatus, DIALStatus
  <2> QED
    BY <1>1, <1>2, <2>1, StartedKeepsIInv DEF StartSystem, HoldPoints, Process
<1>3. CASE LaunchFails(w)
  <2>1. "Running" \in DIALStatus /\ "Stopped" \in DIALStatus
    BY DEF DIALStatus
  <2> QED
    BY <1>1, <1>3, <2>1, StartedKeepsIInv DEF LaunchFails, HoldPoints, Process
<1>4. CASE StartNetflix(w) /\ Started(w, "Running")
  BY <1>1, <1>4, StartedKeepsIInv
     DEF StartNetflix, HoldPoints, DIALStatus, Process
<1>5. CASE StartNetflix(w) /\ Goto(w, "fork")
  <2>1. at[w] = "start"
    BY <1>5 DEF StartNetflix
  <2>2. CASE early' = [early EXCEPT ![w] = Forked("Netflix")] /\ UNCHANGED <<state, mux, id, target, replies>>
    <3>1. early' \in [Workers -> SUBSET Pids]
      BY <1>1, <2>2 DEF Forked
    <3> QED
      BY <1>1, <1>5, <2>1, <2>2, <3>1, HoldKeepsIInv
         DEF StartNetflix, HoldPoints, Process
  <2> QED
    BY <1>4, <1>5, <2>2 DEF StartNetflix
<1> QED
  BY <1>2, <1>3, <1>4, <1>5 DEF StartNetflix

-------------------------------------------------------------------------------
\* The process table.

\* The entry of a process keeps its type when its state changes.
LEMMA EntryTypes ==
  ASSUME TypeOK, NEW p \in Pids, NEW st \in ProcStates,
         proc' = [proc EXCEPT ![p].st = st]
  PROVE  proc' \in [Pids -> Process]
<1>1. proc \in [Pids -> Process]
  BY DEF TypeOK
<1>2. proc[p] \in Process
  BY <1>1
<1>3. [proc[p] EXCEPT !.st = st] \in Process
  BY <1>2 DEF Process
<1> QED
  BY <1>1, <1>3

LEMMA ReapTypes ==
  ASSUME TypeOK, NEW run, Reap(run)
  PROVE  proc' \in [Pids -> Process]
<1>1. CASE UNCHANGED proc
  BY <1>1 DEF TypeOK
<1>2. ASSUME NEW p \in Pids, proc' = [proc EXCEPT ![p].st = "reaped"]
      PROVE  proc' \in [Pids -> Process]
  BY <1>2, EntryTypes DEF ProcStates
<1> QED
  BY <1>1, <1>2 DEF Reap

LEMMA LaunchKeepsIInv ==
  ASSUME IInv, NEW w \in Workers, NEW p \in Pids, Launch(w, p)
  PROVE  IInv'
<1>1. TypeOK /\ Handling /\ at[w] = "fork" /\ at[w] \in HoldPoints
  BY DEF IInv, Launch, HoldPoints
<1>2. App(w) \in Names /\ id[w] \in 0 .. Len(reqs) /\ early[w] \in SUBSET Pids
  <2>1. App(w) \in registered
    BY <1>1 DEF IInv, AppOutlivesHandler
  <2> QED
    BY <1>1, <2>1 DEF TypeOK
<1>3. [st |-> "forked", app |-> App(w), child |-> TRUE, id |-> id[w],
       early |-> early[w]] \in Process
  BY <1>2 DEF Process, ProcStates
<1>4. proc' \in [Pids -> Process]
  BY <1>1, <1>3 DEF Launch, Fork, TypeOK
<1>5. run_id' \in [Names -> Pids \cup Unset]
  BY <1>1 DEF Launch, TypeOK
<1> QED
  BY <1>1, <1>4, <1>5, StartedKeepsIInv DEF Launch, DIALStatus

\* Steps in which only the process table changes, and perhaps the answers.
LEMMA TableKeepsIInv ==
  ASSUME IInv, proc' \in [Pids -> Process],
         replies' \in [1 .. MaxRequests -> Seq(Response)],
         UNCHANGED <<mux, registry, at, id, target, early, reqs, host_calls>>
  PROVE  IInv'
<1>1. TypeOK'
  BY DEF IInv, TypeOK, registry, Process
<1> QED
  BY <1>1 DEF IInv, Handling, MuxDiscipline, AppOutlivesHandler, App, registry

LEMMA ProcessKeepsIInv ==
  ASSUME IInv, NEW p \in Pids, ProcessStep(p) \/ AnswerAgain(p)
  PROVE  IInv'
<1>1. TypeOK
  BY DEF IInv
<1>2. CASE ProcessStep(p)
  <2>1. proc' \in [Pids -> Process]
    <3>1. CASE Exec(p)
      BY <1>1, <3>1, EntryTypes DEF Exec, ProcStates
    <3>2. CASE Exit(p)
      BY <1>1, <3>2, EntryTypes DEF Exit, ProcStates
    <3>3. ASSUME NEW a \in {"Netflix", "YouTube"}, StartByHand(p, a)
          PROVE  proc' \in [Pids -> Process]
      <4>1. proc \in [Pids -> Process]
        BY <1>1 DEF TypeOK
      <4>2. proc[p] \in Process
        BY <4>1
      <4>3. [[proc[p] EXCEPT !.st = "up"] EXCEPT !.app = a] \in Process
        BY <4>2 DEF Process, ProcStates, Names
      <4> QED
        BY <3>3, <4>1, <4>3 DEF StartByHand
    <3> QED
      BY <1>2, <3>1, <3>2, <3>3 DEF ProcessStep
  <2> QED
    BY <1>1, <1>2, <2>1, TableKeepsIInv DEF ProcessStep, TypeOK
<1>3. CASE AnswerAgain(p)
  <2>1. proc' \in [Pids -> Process]
    BY <1>1, <1>3, EntryTypes DEF AnswerAgain, ExecFails, ProcStates
  <2>2. replies' \in [1 .. MaxRequests -> Seq(Response)]
    <3>1. [code |-> "201", pid |-> NoPid] \in Response
      BY DEF Response
    <3>2. replies \in [1 .. MaxRequests -> Seq(Response)]
      BY <1>1 DEF TypeOK
    <3>3. ASSUME proc[p].id \in 1 .. MaxRequests
          PROVE  Append(replies[proc[p].id], [code |-> "201", pid |-> NoPid])
                   \in Seq(Response)
      BY <3>1, <3>2, <3>3
    <3> QED
      BY <1>3, <3>2, <3>3 DEF AnswerAgain
  <2> QED
    BY <1>3, <2>1, <2>2, TableKeepsIInv DEF AnswerAgain
<1> QED
  BY <1>2, <1>3

-------------------------------------------------------------------------------
\* The status and stop callbacks.

LEMMA NetflixReapKeepsIInv ==
  ASSUME IInv, NEW w \in Workers, NetflixReap(w)
  PROVE  IInv'
<1>1. proc' \in [Pids -> Process]
  BY ReapTypes DEF IInv, NetflixReap
<1> QED
  BY <1>1, HoldKeepsIInv
     DEF NetflixReap, registry, IInv, TypeOK, HoldPoints

LEMMA LookKeepsIInv ==
  ASSUME IInv, NEW w \in Workers, Look(w)
  PROVE  IInv'
<1> DEFINE r == reqs[id[w]]
           op == Operation(r)
<1>1. PICK status \in Status(r.app) :
        /\ state' = [state EXCEPT ![r.app] = status]
        /\ \/ op = "status" /\ Finish(w, Shown(status, r.version), NoPid)
           \/ op \in {"stop", "hide"} /\ status = "Stopped" /\ Finish(w, "404", NoPid)
           \/ /\ op = "hide" /\ status # "Stopped"
              /\ Finish(w, IF r.app = "system" THEN "200" ELSE "501", NoPid)
           \/ /\ op = "stop" /\ status # "Stopped"
              /\ Goto(w, "stop")
              /\ UNCHANGED <<mux, id, target, early, replies>>
  BY DEF Look
<1>2. at[w] \in HoldPoints /\ UNCHANGED <<registered, cors, run_id, reqs, host_calls, proc>>
  BY DEF Look, HoldPoints
<1>3. state' \in [Names -> DIALStatus]
  <2>1. status \in DIALStatus
    BY <1>1 DEF Status, DIALStatus
  <2> QED
    BY <1>1, <2>1 DEF IInv, TypeOK
<1>4. /\ run_id' \in [Names -> Pids \cup Unset] /\ proc' \in [Pids -> Process]
      /\ target \in [Workers -> Pids \cup {NoPid}]
      /\ early \in [Workers -> SUBSET Pids]
  BY <1>2 DEF IInv, TypeOK
<1>5. ASSUME NEW code \in Codes, Finish(w, code, NoPid)
      PROVE  IInv'
  BY <1>2, <1>3, <1>4, <1>5, FinishKeepsIInv
<1>6. Shown(status, r.version) \in Codes
  BY DEF Shown, Codes
<1>7. CASE Goto(w, "stop") /\ UNCHANGED <<mux, id, target, early, replies>>
  BY <1>2, <1>3, <1>4, <1>7, HoldKeepsIInv DEF HoldPoints
<1> QED
  BY <1>1, <1>5, <1>6, <1>7 DEF Codes

LEMMA StoppedKeepsIInv ==
  ASSUME IInv, NEW w \in Workers, at[w] \in HoldPoints,
         NEW pid \in Pids \cup {NoPid}, Stopped(w, pid),
         UNCHANGED <<registered, cors, run_id, reqs, host_calls>>,
         proc' \in [Pids -> Process]
  PROVE  IInv'
<1>1. state' \in [Names -> DIALStatus] /\ run_id' \in [Names -> Pids \cup Unset]
  BY DEF Stopped, IInv, TypeOK, DIALStatus
<1> QED
  BY <1>1, FinishKeepsIInv DEF Stopped, Codes

LEMMA StopKeepsIInv ==
  ASSUME IInv, NEW w \in Workers,
         StopNothing(w) \/ StopYouTube(w) \/ StopNetflix(w) \/ WaitPid(w)
  PROVE  IInv'
<1>1. /\ TypeOK /\ proc \in [Pids -> Process] /\ state \in [Names -> DIALStatus]
      /\ target \in [Workers -> Pids \cup {NoPid}]
      /\ early \in [Workers -> SUBSET Pids]
  BY DEF IInv, TypeOK
<1>2. CASE StopNothing(w)
  BY <1>1, <1>2, StoppedKeepsIInv DEF StopNothing, HoldPoints, Process
<1>3. CASE StopYouTube(w)
  <2>1. PICK p \in Found("YouTube") : Kill(p)
    BY <1>3 DEF StopYouTube
  <2>2. proc' \in [Pids -> Process]
    BY <1>1, <2>1, EntryTypes DEF Kill, Found, ProcStates
  <2> QED
    BY <1>3, <2>2, StoppedKeepsIInv DEF StopYouTube, HoldPoints
<1>4. CASE StopNetflix(w)
  <2>1. PICK p \in Found("Netflix") :
          Kill(p) /\ target' = [target EXCEPT ![w] = p]
    BY <1>4 DEF StopNetflix
  <2>2. p \in Pids
    BY DEF Found
  <2>3. proc' \in [Pids -> Process]
    BY <1>1, <2>1, <2>2, EntryTypes DEF Kill, ProcStates
  <2>4. /\ target' \in [Workers -> Pids \cup {NoPid}] /\ target'[w] = p
        /\ \A v \in Workers \ {w} : target'[v] = target[v]
    BY <1>1, <2>1, <2>2
  <2> QED
    BY <1>1, <1>4, <2>2, <2>3, <2>4, HoldKeepsIInv
       DEF StopNetflix, HoldPoints, registry
<1>5. CASE WaitPid(w)
  <2>1. proc' \in [Pids -> Process]
    BY <1>1, <1>5, ReapTypes DEF WaitPid
  <2> QED
    BY <1>1, <1>5, <2>1, StoppedKeepsIInv DEF WaitPid, HoldPoints
<1> QED
  BY <1>2, <1>3, <1>4, <1>5

-------------------------------------------------------------------------------
\* The host, which changes the list only when no handler has the mutex.

\* What every call of the host leaves alone, and what is left to prove of it.
LEMMA HostFrame ==
  ASSUME IInv, mux = Nobody, mux' \in {Nobody, Host},
         UNCHANGED <<at, id, target, early, reqs, replies, proc>>,
         host_calls' \in 0 .. MaxHostCalls,
         registered' \subseteq Names,
         cors' \in [Names -> SUBSET Origins],
         run_id' \in [Names -> Pids \cup Unset],
         state' \in [Names -> DIALStatus]
  PROVE  IInv'
<1>1. TypeOK /\ Handling /\ \A w \in Workers : at[w] \notin HoldPoints
  BY DialAssumption DEF IInv, MuxDiscipline
<1>2. TypeOK'
  <2>1. mux' \in Workers \cup {Host, Nobody}
    OBVIOUS
  <2>2. /\ at' \in [Workers -> Points] /\ id' \in [Workers -> 0 .. Len(reqs')]
        /\ target' \in [Workers -> Pids \cup {NoPid}]
        /\ early' \in [Workers -> SUBSET Pids]
    BY <1>1 DEF TypeOK
  <2>3. /\ reqs' \in Seq(Requests) /\ Len(reqs') <= MaxRequests
        /\ replies' \in [1 .. MaxRequests -> Seq(Response)]
    BY <1>1 DEF TypeOK
  <2>4. proc' \in [Pids -> Process']
    BY <1>1 DEF TypeOK, Process
  <2> QED
    BY <2>1, <2>2, <2>3, <2>4 DEF TypeOK
<1>3. Handling'
  BY <1>1 DEF Handling
<1>4. MuxDiscipline'
  BY <1>1, DialAssumption DEF MuxDiscipline
<1>5. AppOutlivesHandler'
  BY <1>1 DEF AppOutlivesHandler
<1> QED
  BY <1>2, <1>3, <1>4, <1>5 DEF IInv

\* The types of the host's variables, one by one.
LEMMA HostTypes ==
  ASSUME IInv
  PROVE  /\ registered \subseteq Names
         /\ cors \in [Names -> SUBSET Origins]
         /\ run_id \in [Names -> Pids \cup Unset]
         /\ state \in [Names -> DIALStatus]
         /\ host_calls \in 0 .. MaxHostCalls
  BY DEF IInv, TypeOK

\* host_calls stays within its bound.
LEMMA HostCounts ==
  ASSUME host_calls \in 0 .. MaxHostCalls, host_calls < MaxHostCalls
  PROVE  host_calls + 1 \in 0 .. MaxHostCalls
  BY DialAssumption

LEMMA RegisterKeepsIInv ==
  ASSUME IInv, NEW a \in Names, Register(a) PROVE IInv'
<1>1. PICK c \in CorsLists \ {NullCors} : cors' = [cors EXCEPT ![a] = c]
  BY DEF Register
<1>2. cors' \in [Names -> SUBSET Origins]
  <2>1. c \in SUBSET Origins
    BY DialAssumption
  <2> QED
    BY <1>1, <2>1, HostTypes
<1>3. PICK garbage \in Unset \cup {run_id[b] : b \in Names \ registered} :
        run_id' = [run_id EXCEPT ![a] = garbage]
  BY DEF Register
<1>4. run_id' \in [Names -> Pids \cup Unset]
  <2>1. garbage \in Pids \cup Unset
    BY HostTypes
  <2> QED
    BY <1>3, <2>1, HostTypes
<1>5. state' \in [Names -> DIALStatus]
  <2>1. "Stopped" \in DIALStatus
    BY DEF DIALStatus
  <2>2. state' = [state EXCEPT ![a] = "Stopped"]
    BY DEF Register
  <2> QED
    BY <2>1, <2>2, HostTypes
<1>6. registered' \subseteq Names
  <2>1. registered' = registered \cup {a}
    BY DEF Register
  <2> QED
    BY <2>1, HostTypes
<1>7. host_calls' \in 0 .. MaxHostCalls
  <2>1. host_calls' = host_calls + 1 /\ host_calls < MaxHostCalls
    BY DEF Register
  <2> QED
    BY <2>1, HostTypes, HostCounts
<1>8. /\ mux = Nobody /\ mux' \in {Nobody, Host}
      /\ UNCHANGED <<at, id, target, early, reqs, replies, proc>>
  BY DEF Register
<1> QED
  BY <1>2, <1>4, <1>5, <1>6, <1>7, <1>8, HostFrame

LEMMA RegisterFailsKeepsIInv ==
  ASSUME IInv, NEW a \in Names, RegisterFails(a) PROVE IInv'
<1>1. /\ mux = Nobody /\ mux' \in {Nobody, Host}
      /\ UNCHANGED <<at, id, target, early, reqs, replies, proc>>
      /\ host_calls' = host_calls + 1 /\ host_calls < MaxHostCalls
      /\ UNCHANGED <<registered, cors, run_id, state>>
  BY DEF RegisterFails, registry
<1>2. host_calls' \in 0 .. MaxHostCalls
  BY <1>1, HostTypes, HostCounts
<1>3. /\ registered' \subseteq Names
      /\ cors' \in [Names -> SUBSET Origins]
      /\ run_id' \in [Names -> Pids \cup Unset]
      /\ state' \in [Names -> DIALStatus]
  BY <1>1, HostTypes
<1> QED
  BY <1>1, <1>2, <1>3, HostFrame

LEMMA UnregisterKeepsIInv ==
  ASSUME IInv, NEW a \in Names, Unregister(a) PROVE IInv'
<1>1. /\ mux = Nobody /\ mux' \in {Nobody, Host}
      /\ UNCHANGED <<at, id, target, early, reqs, replies, proc>>
      /\ host_calls' = host_calls + 1 /\ host_calls < MaxHostCalls
      /\ UNCHANGED <<cors, run_id, state>>
      /\ registered' = registered \ {a}
  BY DEF Unregister
<1>2. host_calls' \in 0 .. MaxHostCalls
  BY <1>1, HostTypes, HostCounts
<1>3. /\ registered' \subseteq Names
      /\ cors' \in [Names -> SUBSET Origins]
      /\ run_id' \in [Names -> Pids \cup Unset]
      /\ state' \in [Names -> DIALStatus]
  BY <1>1, HostTypes
<1> QED
  BY <1>1, <1>2, <1>3, HostFrame

LEMMA HostKeepsIInv == IInv /\ HostStep => IInv'
  BY RegisterKeepsIInv, RegisterFailsKeepsIInv, UnregisterKeepsIInv DEF HostStep

LEMMA NextIInv == IInv /\ [Next]_vars => IInv'
<1> SUFFICES ASSUME IInv, [Next]_vars PROVE IInv'
  OBVIOUS
<1>1. ASSUME NEW w \in Workers, HandlerStep(w) PROVE IInv'
  <2>1. ASSUME NEW p \in Pids, Launch(w, p) PROVE IInv'
    BY <2>1, LaunchKeepsIInv
  <2> QED
    BY <1>1, <2>1, RouteKeepsIInv, RespondOwnKeepsIInv, EnterKeepsIInv,
       StartKeepsIInv, NetflixReapKeepsIInv, LookKeepsIInv, StopKeepsIInv
       DEF HandlerStep
<1>2. ASSUME NEW w \in Workers, Receive(w) PROVE IInv'
  BY <1>2, ReceiveKeepsIInv
<1>3. CASE HostStep
  BY <1>3, HostKeepsIInv
<1>4. CASE UNCHANGED vars
  BY <1>4 DEF vars, IInv, TypeOK, Process, registry, Handling, MuxDiscipline,
     AppOutlivesHandler, App
<1>5. ASSUME NEW p \in Pids, ProcessStep(p) \/ AnswerAgain(p) PROVE IInv'
  BY <1>5, ProcessKeepsIInv
<1> QED
  BY <1>1, <1>2, <1>3, <1>4, <1>5 DEF Next, Rest

\* The invariant, on every behaviour of the server.
THEOREM Inductive == Spec => []IInv
  BY InitIInv, NextIInv, PTL DEF Spec

-------------------------------------------------------------------------------
\* The variables of the server keep their types: a handler never has a request
\* number that was not received, no pid that is not one, no response the code
\* does not send.
THEOREM TypesOK == Spec => []TypeOK
  BY Inductive, PTL DEF IInv

\* Every ds_lock of a handler is followed by its ds_unlock, whatever path the
\* handler takes, and no two handlers are between them.
THEOREM MuxSafe == Spec => []MuxDiscipline
  BY Inductive, PTL DEF IInv

\* DIAL_unregister_app never frees the application a handler is working on.
THEOREM AppsSafe == Spec => []AppOutlivesHandler
  BY Inductive, PTL DEF IInv

===============================================================================
