------------------------------ MODULE DialServer ------------------------------
(***************************************************************************)
(* server/dial_server.c: the handlers of the DIAL requests, the registry   *)
(* of applications and the mutex ds->mux that guards it, with the          *)
(* callbacks the reference server registers (main.c, nf_callbacks.c,       *)
(* system_callbacks.c).  Each worker thread of the web server handles one  *)
(* request at a time.  A handler keeps the mutex while it runs the         *)
(* application's callbacks, so its steps are the points where a callback   *)
(* looks at or changes the process table; what it does between two of them *)
(* (and the reply, which it writes before it releases the mutex) is one    *)
(* step.  What the stored application data says is not modelled here.      *)
(***************************************************************************)
EXTENDS AppProcesses, Sequences

CONSTANTS
  Workers,       \* the threads that handle requests
  Requests,      \* what clients may ask: a set of records, see RequestType
  Origins,       \* values of the Origin header
  NoOrigin,      \* no Origin header, or an empty one
  CorsLists,     \* corsAllowedOrigin a host may register: sets of origins, {}
                 \* standing for the empty string (everybody), and NullCors
  NullCors,      \* a null or too long corsAllowedOrigin
  InitCors,      \* InitCors[a]: the one the reference server registers for a
  SleepPassword, \* whether spSleepPassword is not empty
  Host,          \* the thread that registers applications
  Nobody,        \* the mutex is free
  MaxRequests,   \* bound on the requests of a behaviour
  MaxHostCalls   \* bound on registrations and removals after the start

\* The applications runDial registers.
Names == {"Netflix", "YouTube", "system"}

RequestType ==
  [path   : {"app", "run", "hide", "data", "other"},  \* shape of the URI
   method : {"GET", "POST", "DELETE", "OPTIONS", "PUT"},
   app    : Names \cup {"", "Other"},                 \* the name in the URI
   origin : Origins \cup {NoOrigin},
   local  : BOOLEAN,                                  \* sent from 127.0.0.1
   body   : {"ok", "bad", "big"},                     \* unprintable, too long
   query  : {"none", "other", "sleep", "badkey", "key"},
   version : {"old", "new"}]                          \* clientDialVer

ASSUME DialAssumption ==
  /\ Requests \subseteq RequestType
  /\ MaxRequests \in Nat /\ MaxHostCalls \in Nat
  /\ Host \notin Workers /\ Nobody \notin Workers \cup {Host}
  /\ SleepPassword \in BOOLEAN
  /\ InitCors \in [Names -> SUBSET Origins]
  /\ CorsLists \subseteq (SUBSET Origins) \cup {NullCors}

VARIABLES
  mux,           \* who holds ds->mux
  registered,    \* the names in the list ds->apps
  cors,          \* cors[a]: its corsAllowedOrigin
  run_id,        \* run_id[a]: the process started last for a
  state,         \* state[a]: its DIALStatus
  at,            \* at[w]: control point of the handler in thread w
  id,            \* id[w]: the request it handles, 0 if none
  target,        \* target[w]: a pid the callback holds in a local variable
  early,         \* early[w]: history, see Fork
  reqs,          \* the requests received, in order
  replies,       \* replies[i]: the responses written to request i
  host_calls     \* registrations and removals so far

\* netflix_start has room for any payload, encoded, and so never returns
\* kDIALStatusError.
DIALStatus == {"Stopped", "Hide", "Running", "ErrorNotImplemented",
               "ErrorForbidden", "ErrorUnauth"}

registry == <<registered, cors, run_id, state>>
vars == <<mux, registry, at, id, target, early, reqs, replies, host_calls, proc>>

\* Control points at which a handler holds the mutex.
HoldPoints == {"start", "fork", "reap", "look", "stop", "waitpid"}
Points == {"idle", "route", "lock"} \cup HoldPoints

\* run_id is not initialised when an application is registered: what malloc
\* left there is 0 or no child of the server or, in the memory of an
\* application that was removed, the run_id of that one.
Unset == {AnyChild, NoPid}

Init ==
  /\ ProcInit
  /\ mux = Nobody
  /\ registered = Names /\ cors = InitCors
  /\ \E garbage \in Unset : run_id = [a \in Names |-> garbage]
  /\ state = [a \in Names |-> "Stopped"]
  /\ at = [w \in Workers |-> "idle"] /\ id = [w \in Workers |-> 0]
  /\ target = [w \in Workers |-> NoPid] /\ early = [w \in Workers |-> {}]
  /\ reqs = <<>> /\ replies = [i \in 1 .. MaxRequests |-> <<>>]
  /\ host_calls = 0

Goto(w, point) == at' = [at EXCEPT ![w] = point]
App(w) == reqs[id[w]].app

\* The handler's response and its return to request_handler.
Respond(w, code, pid) ==
  /\ replies' = [replies EXCEPT ![id[w]] = Append(@, [code |-> code, pid |-> pid])]
  /\ at' = [at EXCEPT ![w] = "idle"] /\ id' = [id EXCEPT ![w] = 0]
  /\ target' = [target EXCEPT ![w] = NoPid]
  /\ early' = [early EXCEPT ![w] = {}]

\* The same, by a handler that has the mutex and releases it.
Finish(w, code, pid) == mux' = Nobody /\ Respond(w, code, pid)

-------------------------------------------------------------------------------
\* request_handler: the URI, the origin and the method.

\* What request_handler calls once the origin is accepted, or the response it
\* sends itself.
Operation(r) ==
  CASE r.method = "OPTIONS" -> "204"
    [] r.path = "app" /\ r.method = "POST" -> "start"
    [] r.path = "app" /\ r.method = "GET" -> "status"
    [] r.path = "run" /\ r.method = "DELETE" /\ r.app # "" -> "stop"
    [] r.path = "hide" /\ r.method = "POST" /\ r.app # "" -> "hide"
    [] r.path = "data" /\ r.method # "OPTIONS" -> "data"
    [] OTHER -> "501"

\* The response to a URI that names no application, or the application data
\* from another host; "" otherwise.
BadUri(r) ==
  CASE r.path = "other" -> "404"
    [] r.path = "data" /\ ~r.local -> "403"
    [] r.path = "data" /\ r.local /\ r.app = "" -> "500"
    [] OTHER -> ""

\* Enter the handler, or respond: the origin is accepted.
Dispatch(w, r) ==
  IF Operation(r) \in {"204", "501"}
  THEN Respond(w, Operation(r), NoPid)
  ELSE Goto(w, "lock") /\ UNCHANGED <<id, target, early, replies>>

\* A thread of the web server reads a request and calls request_handler.
Receive(w) ==
  /\ at[w] = "idle" /\ Len(reqs) < MaxRequests
  /\ \E r \in Requests : reqs' = Append(reqs, r)
  /\ id' = [id EXCEPT ![w] = Len(reqs) + 1]
  /\ Goto(w, "route")
  /\ UNCHANGED <<mux, registry, target, early, replies, host_calls, proc>>

\* No origin to check.
Route(w) ==
  LET r == reqs[id[w]]
  IN  /\ at[w] = "route"
      /\ \/ BadUri(r) # "" /\ Respond(w, BadUri(r), NoPid)
         \/ BadUri(r) = "" /\ r.origin = NoOrigin /\ Dispatch(w, r)
      /\ UNCHANGED <<mux, registry, reqs, host_calls, proc>>

\* is_allowed_origin: an application that is not registered allows none.
IsAllowedOrigin(r) ==
  r.app \in registered /\ (cors[r.app] = {} \/ r.origin \in cors[r.app])

\* Mutant: request_handler goes on after it sent the 403.
CheckOriginNoReturn(w) ==
  LET r == reqs[id[w]]
  IN  /\ at[w] = "route" /\ BadUri(r) = "" /\ r.origin # NoOrigin
      /\ mux = Nobody
      /\ IF IsAllowedOrigin(r)
         THEN Dispatch(w, r)
         ELSE /\ replies' = [replies EXCEPT ![id[w]] =
                               Append(@, [code |-> "403", pid |-> NoPid])]
              /\ Goto(w, "lock")
              /\ UNCHANGED <<id, target, early>>
      /\ UNCHANGED <<mux, registry, reqs, host_calls, proc>>

\* The origin is checked under the mutex, which is released again before the
\* handler takes it.
CheckOrigin(w) ==
  LET r == reqs[id[w]]
  IN  /\ at[w] = "route" /\ BadUri(r) = "" /\ r.origin # NoOrigin
      /\ mux = Nobody
      /\ IF IsAllowedOrigin(r) THEN Dispatch(w, r) ELSE Respond(w, "403", NoPid)
      /\ UNCHANGED <<mux, registry, reqs, host_calls, proc>>

-------------------------------------------------------------------------------
\* The handlers take the mutex.

\* The response of a handler that calls no callback; "" if it calls one.
OwnResponse(r) ==
  LET op == Operation(r)
  IN  CASE op = "stop" /\ r.app = "system" -> "403"
        [] r.app \notin registered -> "404"
        [] op = "start" /\ r.body = "big" -> "413"
        [] op = "data" /\ r.body = "big" /\ r.method # "POST" -> "413"
        [] op \in {"start", "data"} /\ r.body = "bad" -> "400"
        [] op = "data" -> "200"
        [] OTHER -> ""

\* Mutant: a return without ds_unlock.
RespondLocked(w) ==
  LET r == reqs[id[w]]
  IN  /\ at[w] = "lock" /\ mux = Nobody /\ OwnResponse(r) # ""
      /\ mux' = w
      /\ Respond(w, OwnResponse(r), NoPid)
      /\ UNCHANGED <<registry, reqs, host_calls, proc>>

RespondOwn(w) ==
  LET r == reqs[id[w]]
  IN  /\ at[w] = "lock" /\ mux = Nobody /\ OwnResponse(r) # ""
      /\ Respond(w, OwnResponse(r), NoPid)
      /\ UNCHANGED <<mux, registry, reqs, host_calls, proc>>

\* The handler calls start_cb, or status_cb first.  Of the three, only
\* netflix_status waits for the process that was started last.
Enter(w) ==
  LET r == reqs[id[w]]
  IN  /\ at[w] = "lock" /\ mux = Nobody /\ OwnResponse(r) = ""
      /\ mux' = w
      /\ Goto(w, CASE Operation(r) = "start" /\ r.app = "YouTube" -> "fork"
                   [] Operation(r) = "start" /\ r.app # "YouTube" -> "start"
                   [] Operation(r) # "start" /\ r.app = "Netflix" -> "reap"
                   [] OTHER -> "look")
      /\ UNCHANGED <<registry, id, target, early, reqs, replies, host_calls, proc>>

-------------------------------------------------------------------------------
\* handle_app_start and the start callbacks.

StartCode(status) ==
  CASE status = "Running" -> "201"
    [] status = "ErrorForbidden" -> "403"
    [] status = "ErrorUnauth" -> "401"
    [] status = "ErrorNotImplemented" -> "501"
    [] OTHER -> "503"

\* start_cb returns status; handle_app_start keeps it and answers.
Started(w, status) ==
  /\ state' = [state EXCEPT ![App(w)] = status]
  /\ Finish(w, StartCode(status), NoPid)

\* system_start puts no device to sleep; it only refuses in different ways.
SystemStatus(query) ==
  CASE query = "none" -> "ErrorForbidden"
    [] query = "other" -> "ErrorNotImplemented"
    [] query = "sleep" /\ SleepPassword -> "ErrorForbidden"
    [] query = "badkey" /\ SleepPassword -> "ErrorUnauth"
    [] OTHER -> "ErrorNotImplemented"

StartSystem(w) ==
  /\ at[w] = "start" /\ App(w) = "system"
  /\ Started(w, SystemStatus(reqs[id[w]].query))
  /\ UNCHANGED <<registered, cors, run_id, reqs, host_calls, proc>>

\* Mutant: Netflix is launched whether or not it is running.
StartNetflixAlways(w) ==
  /\ at[w] = "start" /\ App(w) = "Netflix"
  /\ Goto(w, "fork")
  /\ early' = [early EXCEPT ![w] = Forked("Netflix")]
  /\ UNCHANGED <<registered, cors, run_id, state, mux, id, target, replies,
                 reqs, host_calls, proc>>

\* netflix_start looks for a running Netflix.
StartNetflix(w) ==
  /\ at[w] = "start" /\ App(w) = "Netflix"
  /\ \/ /\ Found("Netflix") = {}
        /\ Goto(w, "fork")
        /\ early' = [early EXCEPT ![w] = Forked("Netflix")]
        /\ UNCHANGED <<state, mux, id, target, replies>>
     \/ /\ Found("Netflix") # {}
        /\ Started(w, "Running")
  /\ UNCHANGED <<registered, cors, run_id, reqs, host_calls, proc>>

Launch(w, p) ==
  /\ at[w] = "fork"
  /\ Fork(p, App(w), id[w], early[w])
  /\ run_id' = [run_id EXCEPT ![App(w)] = p]
  /\ Started(w, "Running")
  /\ UNCHANGED <<registered, cors, reqs, host_calls>>

\* Mutant: what fork returns goes to run_id before it is tested.
LaunchFailsUntested(w) ==
  /\ at[w] = "fork"
  /\ run_id' = [run_id EXCEPT ![App(w)] = "-1"]
  /\ Started(w, IF App(w) = "YouTube" THEN "Running" ELSE "Stopped")
  /\ UNCHANGED <<registered, cors, reqs, host_calls, proc>>

\* fork fails; youtube_start does not look at what runApplication returns.
LaunchFails(w) ==
  /\ at[w] = "fork"
  /\ Started(w, IF App(w) = "YouTube" THEN "Running" ELSE "Stopped")
  /\ UNCHANGED <<registered, cors, run_id, reqs, host_calls, proc>>

\* The child whose execv failed returns through the same callback and handler
\* as its parent, and answers the request a second time.
AnswerAgain(p) ==
  /\ ExecFails(p)
  /\ replies' = [replies EXCEPT ![proc[p].id] =
                   Append(@, [code |-> "201", pid |-> NoPid])]
  /\ UNCHANGED <<mux, registry, at, id, target, early, reqs, host_calls>>

-------------------------------------------------------------------------------
\* status_cb, called by handle_app_status, handle_app_stop and handle_app_hide.

NetflixReap(w) ==
  /\ at[w] = "reap"
  /\ Reap(run_id["Netflix"])
  /\ Goto(w, "look")
  /\ UNCHANGED <<mux, registry, id, target, early, reqs, replies, host_calls>>

\* What status_cb may return.
Status(a) ==
  IF a = "system" THEN {"Hide"}
  ELSE {IF p = NoPid THEN "Stopped" ELSE "Running" : p \in IsAppRunning(a)}

\* The state handle_app_status writes into its response.
Shown(status, version) ==
  CASE status = "Hide" /\ version = "new" -> "hidden"
    [] status = "Running" -> "running"
    [] OTHER -> "stopped"

\* status_cb returns.  The hide callbacks of Netflix and YouTube never return
\* kDIALStatusHide, that of the system always does.
Look(w) ==
  LET r == reqs[id[w]]
      op == Operation(r)
  IN  /\ at[w] = "look"
      /\ \E status \in Status(r.app) :
           /\ state' = [state EXCEPT ![r.app] = status]
           /\ \/ op = "status" /\ Finish(w, Shown(status, r.version), NoPid)
              \/ /\ op \in {"stop", "hide"} /\ status = "Stopped"
                 /\ Finish(w, "404", NoPid)
              \/ /\ op = "hide" /\ status # "Stopped"
                 /\ Finish(w, IF r.app = "system" THEN "200" ELSE "501", NoPid)
              \/ /\ op = "stop" /\ status # "Stopped"
                 /\ Goto(w, "stop")
                 /\ UNCHANGED <<mux, id, target, early, replies>>
      /\ UNCHANGED <<registered, cors, run_id, reqs, host_calls, proc>>

-------------------------------------------------------------------------------
\* handle_app_stop and the stop callbacks.

Stopped(w, pid) ==
  /\ state' = [state EXCEPT ![App(w)] = "Stopped"]
  /\ Finish(w, "200", pid)

\* stop_cb looks for the application and finds it gone.
StopNothing(w) ==
  /\ at[w] = "stop" /\ Found(App(w)) = {}
  /\ Stopped(w, NoPid)
  /\ UNCHANGED <<registered, cors, run_id, reqs, host_calls, proc>>

\* youtube_stop: SIGTERM and no more.
StopYouTube(w) ==
  /\ at[w] = "stop" /\ App(w) = "YouTube"
  /\ \E p \in Found("YouTube") : Kill(p)
  /\ Stopped(w, NoPid)
  /\ UNCHANGED <<registered, cors, run_id, reqs, host_calls>>

\* netflix_stop: SIGTERM, then waitpid for the process it was sent to.
StopNetflix(w) ==
  /\ at[w] = "stop" /\ App(w) = "Netflix"
  /\ \E p \in Found("Netflix") : Kill(p) /\ target' = [target EXCEPT ![w] = p]
  /\ Goto(w, "waitpid")
  /\ UNCHANGED <<mux, registry, id, early, reqs, replies, host_calls>>

\* Mutant: waitpid does not block (WNOHANG, as in netflix_status).
WaitPidNoHang(w) ==
  LET p == target[w]
  IN  /\ at[w] = "waitpid"
      /\ Reap(p)
      /\ Stopped(w, p)
      /\ UNCHANGED <<registered, cors, run_id, reqs, host_calls>>

\* Mutant: waitpid for the process started last, not for the one it killed.
WaitPidRunId(w) ==
  LET p == run_id["Netflix"]
  IN  /\ at[w] = "waitpid" /\ p \in Pids
      /\ proc[p].st \in {"zombie", "reaped"}
      /\ Reap(p)
      /\ Stopped(w, target[w])
      /\ UNCHANGED <<registered, cors, run_id, reqs, host_calls>>

\* waitpid returns at once for a process that is no child of the server.
WaitPid(w) ==
  LET p == target[w]
  IN  /\ at[w] = "waitpid"
      /\ proc[p].child => proc[p].st = "zombie"
      /\ Reap(p)
      /\ Stopped(w, p)
      /\ UNCHANGED <<registered, cors, run_id, reqs, host_calls>>

-------------------------------------------------------------------------------
\* The host program: DIAL_register_app and DIAL_unregister_app.

Register(a) ==
  /\ host_calls < MaxHostCalls /\ mux = Nobody /\ a \notin registered
  /\ \E c \in CorsLists \ {NullCors} : cors' = [cors EXCEPT ![a] = c]
  /\ registered' = registered \cup {a}
  /\ \E garbage \in Unset \cup {run_id[b] : b \in Names \ registered} :
       run_id' = [run_id EXCEPT ![a] = garbage]
  /\ state' = [state EXCEPT ![a] = "Stopped"]
  /\ host_calls' = host_calls + 1
  /\ UNCHANGED <<mux, at, id, target, early, reqs, replies, proc>>

\* It returns -1 without releasing the mutex.
RegisterFails(a) ==
  /\ host_calls < MaxHostCalls /\ mux = Nobody /\ a \notin registered
  /\ NullCors \in CorsLists
  /\ mux' = Host
  /\ host_calls' = host_calls + 1
  /\ UNCHANGED <<registry, at, id, target, early, reqs, replies, proc>>

\* Mutant: the list is changed without the mutex.
UnregisterUnlocked(a) ==
  /\ host_calls < MaxHostCalls /\ a \in registered
  /\ registered' = registered \ {a}
  /\ host_calls' = host_calls + 1
  /\ UNCHANGED <<mux, cors, run_id, state, at, id, target, early, reqs,
                 replies, proc>>

Unregister(a) ==
  /\ host_calls < MaxHostCalls /\ mux = Nobody /\ a \in registered
  /\ registered' = registered \ {a}
  /\ host_calls' = host_calls + 1
  /\ UNCHANGED <<mux, cors, run_id, state, at, id, target, early, reqs,
                 replies, proc>>

-------------------------------------------------------------------------------
\* The processes by themselves.

ProcessStep(p) ==
  /\ Exec(p) \/ Exit(p) \/ \E a \in {"Netflix", "YouTube"} : StartByHand(p, a)
  /\ UNCHANGED <<mux, registry, at, id, target, early, reqs, replies, host_calls>>

HandlerStep(w) ==
  \/ Route(w) \/ CheckOrigin(w) \/ RespondOwn(w) \/ Enter(w)
  \/ StartSystem(w) \/ StartNetflix(w) \/ LaunchFails(w)
  \/ \E p \in Pids : Launch(w, p)
  \/ NetflixReap(w) \/ Look(w)
  \/ StopNothing(w) \/ StopYouTube(w) \/ StopNetflix(w) \/ WaitPid(w)

HostStep == \E a \in Names : Register(a) \/ RegisterFails(a) \/ Unregister(a)

\* No request is being handled: the server waits for the next one.
Rest == (\A w \in Workers : at[w] = "idle") /\ UNCHANGED vars

Next == \/ \E w \in Workers : Receive(w) \/ HandlerStep(w)
        \/ \E p \in Pids : ProcessStep(p) \/ AnswerAgain(p)
        \/ HostStep \/ Rest

Spec == Init /\ [][Next]_vars

\* A handler that can go on goes on, and a process that was sent SIGTERM ends.
\* Nobody has to send requests, and a forked child may never get to run.
Fairness == /\ \A w \in Workers : WF_vars(HandlerStep(w))
            /\ \A p \in Pids : WF_vars(proc[p].st = "dying" /\ ProcessStep(p))

FairSpec == Spec /\ Fairness

-------------------------------------------------------------------------------
\* Properties.

Response == [code : {"200", "201", "204", "400", "401", "403", "404", "413",
                     "500", "501", "503", "hidden", "running", "stopped"},
             pid  : Pids \cup {NoPid}]

Process == [st : ProcStates, app : Names \cup {""}, child : BOOLEAN,
            id : 0 .. Len(reqs), early : SUBSET Pids]

\* The types.
TypeOK ==
  /\ mux \in Workers \cup {Host, Nobody}
  /\ registered \subseteq Names
  /\ cors \in [Names -> SUBSET Origins]
  /\ run_id \in [Names -> Pids \cup Unset]
  /\ state \in [Names -> DIALStatus]
  /\ at \in [Workers -> Points]
  /\ id \in [Workers -> 0 .. Len(reqs)]
  /\ target \in [Workers -> Pids \cup {NoPid}]
  /\ early \in [Workers -> SUBSET Pids]
  /\ reqs \in Seq(Requests) /\ Len(reqs) <= MaxRequests
  /\ replies \in [1 .. MaxRequests -> Seq(Response)]
  /\ host_calls \in 0 .. MaxHostCalls
  /\ proc \in [Pids -> Process]

\* One handler at a time is between its ds_lock and its ds_unlock, and on
\* whatever path it leaves the handler it has released the mutex: it holds the
\* mutex exactly while it is in its critical section.
MuxDiscipline == \A w \in Workers : at[w] \in HoldPoints <=> mux = w

\* The application a handler works on stays in the list until the handler is
\* done: DIAL_unregister_app never frees a DIALApp that a callback is using.
AppOutlivesHandler ==
  \A w \in Workers : at[w] \in HoldPoints => App(w) \in registered

\* Every request gets one response: none while it is being handled, exactly
\* one afterwards, however its handler was interleaved with others.  Only a
\* child that could not execute the application may add another.
OneResponse ==
  \A i \in 1 .. Len(reqs) :
    LET handled == \E w \in Workers : id[w] = i
        again == {p \in Pids : proc[p].st = "clone" /\ proc[p].id = i}
    IN  Len(replies[i]) = Cardinality(again) + IF handled THEN 0 ELSE 1

\* Once the DELETE of a running Netflix is answered, the process it found is
\* not running any more, if the server started it: netflix_stop has waited
\* for it and not for another one.
StoppedBeforeAnswer ==
  \A i \in 1 .. Len(reqs) : \A k \in DOMAIN replies[i] :
    LET p == replies[i][k].pid
    IN  p # NoPid /\ proc[p].child => proc[p].st = "reaped"

\* Two Netflix processes of the server run at the same time only if the later
\* one was started when the earlier had been forked but had not executed
\* Netflix yet: that window is the only one netflix_start's test leaves open.
SecondNetflixOnlyInWindow ==
  \A p, q \in Pids :
    /\ p # q
    /\ \A n \in {p, q} : proc[n].app = "Netflix" /\ proc[n].child
                         /\ proc[n].st \in {"up", "dying"}
    => p \in proc[q].early \/ q \in proc[p].early

\* netflix_start launches Netflix only "if it isn't running": the server never
\* has two Netflix processes at the same time.
OneNetflix ==
  Cardinality({p \in Pids : /\ proc[p].app = "Netflix" /\ proc[p].child
                            /\ proc[p].st \in {"up", "dying"}}) <= 1

\* netflix_status will "reap child": a Netflix process that has ended is the
\* one whose pid the server kept.
ZombieIsKnown ==
  \A p \in Pids :
    proc[p].st = "zombie" /\ proc[p].app = "Netflix"
      => run_id["Netflix"] \in {p, AnyChild}

\* Every request that a worker takes is answered: no handler waits for the
\* mutex or for a process for ever, as long as a Netflix that is told to end
\* does end.
EventuallyAnswered == \A w \in Workers : id[w] # 0 ~> id[w] = 0

\* A Netflix that the server started and then told to stop is reaped.
StoppedIsReaped ==
  \A p \in Pids :
    proc[p].st = "dying" /\ proc[p].app = "Netflix" /\ proc[p].child
      ~> proc[p].st = "reaped"
===============================================================================
