----------------------------- MODULE MCDialServer -----------------------------
(***************************************************************************)
(* DialServer for TLC.  The requests of each run are those whose handlers  *)
(* can interfere; one request of each of the other kinds goes through the  *)
(* ways request_handler has of refusing.                                   *)
(***************************************************************************)
EXTENDS DialServer, TLC

\* A request as the tests of the repository send it, with nothing unusual.
Ask(method, path, app) ==
  [method |-> method, path |-> path, app |-> app, origin |-> NoOrigin,
   local |-> FALSE, body |-> "ok", query |-> "none", version |-> "new"]

Start(a)  == Ask("POST", "app", a)
Query(a)  == Ask("GET", "app", a)
Stop(a)   == Ask("DELETE", "run", a)
Hide(a)   == Ask("POST", "hide", a)
Local(r)  == [r EXCEPT !.local = TRUE]
From(o, r) == [r EXCEPT !.origin = o]

\* The requests that start, look at and stop processes.
ProcessRequests ==
  {Start("Netflix"), Query("Netflix"), Stop("Netflix"), Start("YouTube"),
   Stop("YouTube")}

NetflixRequests == {Start("Netflix"), Query("Netflix"), Stop("Netflix")}

\* One of each other kind.
OddRequests ==
  {Hide("Netflix"), Hide("system"), Query("system"), Query("YouTube"),
   [Query("system") EXCEPT !.version = "old"],
   Start("system"), Stop("system"),
   [Start("system") EXCEPT !.query = "other"],
   [Start("system") EXCEPT !.query = "sleep"],
   [Start("system") EXCEPT !.query = "badkey"],
   [Start("system") EXCEPT !.query = "key"],
   [Start("Netflix") EXCEPT !.body = "bad"],
   [Start("Netflix") EXCEPT !.body = "big"],
   From("good", Query("YouTube")), From("evil", Query("YouTube")),
   From("good", Start("Other")), Start("Other"),
   Ask("PUT", "app", "Netflix"), Ask("OPTIONS", "run", "Netflix"),
   Ask("GET", "other", ""), Ask("POST", "data", "YouTube"),
   Local(Ask("POST", "data", "YouTube")), Local(Ask("POST", "data", "")),
   Local([Ask("GET", "data", "YouTube") EXCEPT !.body = "big"])}

AllRequests == ProcessRequests \cup OddRequests

\* The reference server lets anybody talk to its system application.
Cors == [a \in Names |-> IF a = "system" THEN {} ELSE {"good"}]

\* Processes are alike and so are threads; used where no liveness is checked.
Symmetry == Permutations(Pids) \cup Permutations(Workers)

GoodCors == {{}, {"good"}}
AnyCors == GoodCors \cup {NullCors}
===============================================================================
