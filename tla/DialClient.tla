------------------------------ MODULE DialClient ------------------------------
(***************************************************************************)
(* The client program: the menu of client/main.cpp, the DialServer that    *)
(* sends the requests, and the conformance tests of                        *)
(* client/DialConformance.cpp, on top of DialDiscovery.  The client has    *)
(* one thread.  A request that reaches a server is handled as              *)
(* server/mongoose.c and server/dial_server.c do it, in one step:          *)
(* DialServer (the module) has the steps.                                  *)
(***************************************************************************)
EXTENDS DialDiscovery, DialRoutes

CONSTANTS
  Registered,    \* the applications of every server, besides the system one
  Menu,          \* those the menu offers
  AppList,       \* the names of the input file: addApplication ...
  ErrorAppList,  \* ... and addErrorApplication
  Actions,       \* the commands of the input file, see Test
  All,           \* the name ALL
  InAddress      \* of each host, the codes found in its address and its port

VARIABLES
  running,       \* the applications that run: <<host, name>>
  linked,        \* the DialServers whose m_stopEndPoint is "run", not empty
  list,          \* handleUser's list of servers
  server,        \* its pServer
  tested,        \* the server that the conformance tests run against
  apps,          \* DialConformance's _apps
  read,          \* how often the input file was read
  tests,         \* the commands still to be run
  cmd,           \* the command being executed
  codes,         \* the codes found anywhere in its responseHeaders
  passed,        \* the result of the last test
  replied,       \* history: the answers sent by servers since the command began
  calm           \* history: it was not disturbed: no exchange failed, the
                 \* server could run what it was to start, and nobody else
                 \* started or ended an application of the server

menuVars == <<list, server>>
testVars == <<tested, apps, read, tests, passed>>
cmdVars == <<cmd, codes, replied, calm, linked>>
clientVars == <<running, menuVars, testVars, cmdVars>>
discoveryVars == <<hostVars, at, resume, searchVars>>
vars == <<discoveryVars, clientVars>>

NoServer == [loc |-> NoLocation, born |-> 0]
Ops == {"launch", "status", "stop", "hide"}
\* What dial_server.c answers with.
Codes == {"200", "201", "400", "403", "404", "413", "501", "503"}

\* As the headers show them.
CodeText(code) ==
  CASE code = "200" -> <<50, 48, 48>> [] code = "201" -> <<50, 48, 49>>
    [] code = "400" -> <<52, 48, 48>> [] code = "403" -> <<52, 48, 51>>
    [] code = "404" -> <<52, 48, 52>> [] code = "413" -> <<52, 49, 51>>
    [] code = "501" -> <<53, 48, 49>> [] code = "503" -> <<53, 48, 51>>

\* What is sent with a launch: printable and short enough (the menu sends
\* nothing), or longer than DIAL_MAX_PAYLOAD, or with a byte isBadPayload finds.
Payloads == {"fine", "long", "bad"}

\* execute_command knows no hide; expect is the value of httpresponse, "" if the
\* command has none.
Test == [op : Ops \ {"hide"}, app : AppList \cup ErrorAppList \cup {All},
         payload : Payloads, expect : Codes \cup {""}]
NoCommand == [op |-> "", app |-> <<>>, payload |-> "fine", expect |-> ""]

\* The application that every server has, and that never runs.
System == <<115, 121, 115, 116, 101, 109>>

\* What the client may write into a URL so that libcurl sends it as it is, but
\* for dot segments.
ClientByte == Byte \ ((0 .. 32) \cup {35, Ch.slash, Ch.question, 127})

ASSUME ClientAssumption ==
  /\ \A i \in DOMAIN Actions : Actions[i] \in Test
  /\ Menu \cup AppList \cup ErrorAppList \subseteq Seq(ClientByte)
  /\ Registered \subseteq UrlName \ {System}
  /\ AppList \cap ErrorAppList = {} /\ All \notin AppList \cup ErrorAppList
  /\ InAddress \in [Hosts -> SUBSET Codes]

Init ==
  /\ DiscoveryInit
  /\ running = {} /\ linked = {} /\ list = {} /\ server = NoServer
  /\ tested = NoServer /\ apps = <<>> /\ read = 0 /\ tests = <<>> /\ passed = FALSE
  /\ cmd = NoCommand /\ codes = {} /\ replied = {} /\ calm = TRUE

Live(p) == p \in Pointers

\* The server that commands go to.
Target == IF tested = NoServer THEN server ELSE tested

\* Where the client goes on with server p: anything may happen if it was deleted.
Using(p, point) == IF Live(p) THEN point ELSE "lost server"

-------------------------------------------------------------------------------
\* handleUser.

\* getServerList
ShowServers ==
  /\ at = "list" /\ list' = Pointers
  /\ at' = IF Pointers = {} THEN "exit" ELSE "choose"
  /\ UNCHANGED <<hostVars, resume, searchVars, running, server, testVars, cmdVars>>

\* The list is not looked at again before getServerList clears it.
ChooseServer(p) ==
  /\ at = "choose" /\ p \in list /\ server' = p /\ at' = Using(p, "menu")
  /\ list' = {}
  /\ UNCHANGED <<hostVars, resume, searchVars, running, testVars, cmdVars>>

\* The answer is no server of the list.
ChooseRescan ==
  /\ at = "choose" /\ at' = "search" /\ resume' = "list" /\ list' = {}
  /\ UNCHANGED <<hostVars, searchVars, running, server, testVars, cmdVars>>

\* Mutant: the menu of the server is shown again after the search.
RescanAndStay ==
  /\ at = "menu" /\ at' = "search" /\ resume' = "menu"
  /\ UNCHANGED <<hostVars, searchVars, clientVars>>

\* The inner loop is left: the servers are listed again.
Rescan ==
  /\ at = "menu" /\ at' = "search" /\ resume' = "list"
  /\ UNCHANGED <<hostVars, searchVars, clientVars>>

Quit ==
  /\ at = "menu" /\ at' = "exit"
  /\ UNCHANGED <<hostVars, resume, searchVars, clientVars>>

\* sendMagic: the MAC address is cut into six parts, and std::out_of_range ends
\* the client if it is empty.
WakeUp ==
  /\ at = "menu"
  /\ at' = IF Live(server) /\ ~servers[server.loc].mac THEN "abort"
           ELSE Using(server, "menu")
  /\ UNCHANGED <<hostVars, resume, searchVars, clientVars>>

StartConformance ==
  /\ at = "menu" /\ at' = "conformance"
  /\ UNCHANGED <<hostVars, resume, searchVars, clientVars>>

-------------------------------------------------------------------------------
\* A command: at the server.

Known(name) == name \in Registered \cup {System}

\* The returns of handle_app_start before anything runs, in their order; the
\* query of the client asks the system application for no sleep.
StartRefusal(name) ==
  IF ~Known(name) THEN "404"
  ELSE IF cmd.payload = "long" THEN "413"
  ELSE IF cmd.payload # "fine" THEN "400"
  ELSE IF name = System THEN "501"
  ELSE "none"

\* The response to request by host h.  What is to be started may not run: the
\* server answers 503 if it could not fork Netflix, and 201 if it could not fork
\* YouTube or the child could not execute the application.
Starts(h, request, runs, code) ==
  LET it == <<h, request.app>>
  IN  /\ request.op = "start" /\ StartRefusal(request.app) = "none"
      /\ \/ runs /\ code = "201" /\ running' = running \cup {it}
         \/ ~runs /\ it \notin running /\ code \in {"201", "503"} /\ UNCHANGED running

Stops(h, request, code) ==
  LET it == <<h, request.app>>
  IN  /\ request.op = "stop" /\ it \in running
      /\ code = "200" /\ running' = running \ {it}

\* The responses that change nothing here.  Hiding is not implemented by the
\* applications of the reference server; the system one is always hidden, and
\* cannot be stopped.
AnswersOnly(h, request, code) ==
  LET op == request.op
      name == request.app
  IN  /\ UNCHANGED running
      /\ \/ op = "start" /\ code = StartRefusal(name) /\ code # "none"
         \/ op = "status" /\ code = (IF Known(name) THEN "200" ELSE "404")
         \/ op = "stop" /\ <<h, name>> \notin running
              /\ code = (IF name = System THEN "403" ELSE "404")
         \/ op = "hide" /\ code = (IF name = System THEN "200"
                                   ELSE IF <<h, name>> \in running THEN "501"
                                   ELSE "404")
         \/ op = "data" /\ code \in {"200", "400", "403", "404"}
         \/ op \in {"404", "501"} /\ code = op

Serve(h, request, runs, code) ==
  \/ Starts(h, request, runs, code)
  \/ runs /\ (Stops(h, request, code) \/ AnswersOnly(h, request, code))

\* What the server makes of a path: the client has added its version as a query.
VERSION_QUERY ==                                              \* ?clientDialVer=2.1
  <<63, 99, 108, 105, 101, 110, 116, 68, 105, 97, 108, 86, 101, 114, 61, 50, 46, 49>>
Asked(method, path) == handle_request(method, path \o VERSION_QUERY)

\* The codes in the headers of a response: its own, and with 201 those in the
\* Location of the application.
Shown(h, name, code) ==
  {code} \cup
    (IF code = "201" THEN InAddress[h] \cup {c \in Codes : FirstAt(CodeText(c), name) # 0}
                     ELSE {})

\* sendCommand: a request reaches the server and is answered with code; whether
\* the answer reaches the client or not.
Exchange(request, code, received) ==
  LET h == Target.loc
      answer == [code |-> code, shows |-> Shown(h, request.app, code)]
  IN  /\ Live(Target) /\ servers[h].appsUrl /\ h \in up
      /\ \E runs \in BOOLEAN :
           Serve(h, request, runs, code) /\ calm' = (calm /\ received /\ runs)
      /\ replied' = replied \cup {answer}
      /\ codes' = IF received THEN codes \cup answer.shows ELSE codes

\* The request does not reach a server.
ExchangeFails == calm' = FALSE /\ UNCHANGED <<running, codes, replied>>

Method == IF cmd.op = "stop" THEN "DELETE" ELSE "POST"
EndPoint == IF Target \in linked THEN Tail(RUN_URI) ELSE <<>>

\* Mutant: the end point follows the name at once.
PathNoSlash ==
  APPS_URI \o cmd.app \o
    (CASE cmd.op = "stop" -> EndPoint
       [] cmd.op = "hide" -> EndPoint \o HIDE_URI
       [] OTHER -> <<>>)

Path ==
  APPS_URI \o cmd.app \o
    (CASE cmd.op = "stop" -> <<Ch.slash>> \o EndPoint
       [] cmd.op = "hide" -> <<Ch.slash>> \o EndPoint \o HIDE_URI
       [] OTHER -> <<>>)

\* A command: at the client.
Execute(command) ==
  /\ cmd' = command
  /\ at' = Using(Target, IF command.op = "launch" THEN "send" ELSE "status")
  /\ UNCHANGED <<codes, replied, calm, linked>>

\* The strings of a command, responseHeaders among them, end with it.
CommandOver ==
  /\ cmd' = NoCommand /\ codes' = {} /\ replied' = {} /\ calm' = TRUE
  /\ UNCHANGED linked

Command(op, name) ==
  /\ at = "menu" /\ Execute([NoCommand EXCEPT !.op = op, !.app = name])
  /\ UNCHANGED <<hostVars, resume, searchVars, running, menuVars, testVars>>

AfterStatus == IF cmd.op = "status" THEN "result" ELSE "send"

\* Whether the status has the link: to the server, the system one is hidden.
HasLink(h, request) ==
  request.op = "status" /\ (request.app = System \/ <<h, request.app>> \in running)

\* getStatus: the end point is kept if the status has no link or does not come.
GetStatus ==
  /\ at = "status" /\ at' = AfterStatus
  /\ \/ LET request == Asked("GET", APPS_URI \o cmd.app)
        IN  \E code \in Codes, received \in BOOLEAN :
              /\ Exchange(request, code, received)
              /\ linked' = IF received /\ HasLink(Target.loc, request)
                           THEN linked \cup {Target} ELSE linked
     \/ ExchangeFails /\ UNCHANGED linked
  /\ UNCHANGED <<hostVars, resume, searchVars, menuVars, testVars, cmd>>

\* launchApplication, and stopApplication and hideApplication after getStatus.
Send ==
  /\ at = "send" /\ at' = "result"
  /\ \/ LET request == Asked(Method, Path)
        IN  \E code \in Codes, received \in BOOLEAN : Exchange(request, code, received)
     \/ ExchangeFails
  /\ UNCHANGED <<hostVars, resume, searchVars, menuVars, testVars, cmd, linked>>

\* The menu again.
Return ==
  /\ at = "result" /\ tested = NoServer /\ at' = "menu" /\ CommandOver
  /\ UNCHANGED <<hostVars, resume, searchVars, running, menuVars, testVars>>

-------------------------------------------------------------------------------
\* DialConformance.

\* The menu again, or the end of a client that was started without it.
Leave == at' = IF server = NoServer THEN "exit" ELSE "menu"

\* runConformance finds no server: none is known, or the user chose none.
NoServerToTest ==
  /\ at = "conformance" /\ Leave
  /\ UNCHANGED <<hostVars, resume, searchVars, clientVars>>

\* The commands that one action stands for: ALL are the applications that are
\* not known to be errors.
Commands(action, applications) ==
  IF action.app # All THEN <<action>>
  ELSE LET valid == SelectSeq(applications, LAMBDA a : ~a.error)
       IN  [i \in DOMAIN valid |-> [action EXCEPT !.app = valid[i].name]]

NewApplication(name) == [name |-> name, error |-> name \in ErrorAppList, freed |-> FALSE]

\* The lists of the input grow by the same names whenever the file is read.
Listed(names, times) == FlattenSeq([i \in 1 .. times |-> SetToSeq(names)])

\* run: a server is chosen by the user or by its IP address, an assertion checks
\* that it has a friendly name, the input file is read, and the applications of
\* its lists are added to _apps.
RunTests(p) ==
  /\ at = "conformance" /\ p \in Pointers
  /\ IF servers[p.loc].ddxml
     THEN LET names == Listed(AppList, read + 1) \o Listed(ErrorAppList, read + 1)
              all == apps \o [i \in DOMAIN names |-> NewApplication(names[i])]
          IN  /\ at' = "test" /\ tested' = p /\ apps' = all /\ read' = read + 1
              /\ tests' = FlattenSeq([i \in DOMAIN Actions |-> Commands(Actions[i], all)])
     ELSE at' = "abort" /\ UNCHANGED <<tested, apps, read, tests>>
  /\ UNCHANGED <<hostVars, resume, searchVars, running, menuVars, passed, cmdVars>>

\* getApplication looks through _apps up to the name.
Looked(name) ==
  {apps[i] : i \in {j \in DOMAIN apps : \A k \in 1 .. j - 1 : apps[k].name # name}}

NextTest ==
  /\ at = "test" /\ tests # <<>> /\ tests' = Tail(tests) /\ passed' = FALSE
  /\ IF \E a \in Looked(Head(tests).app) : a.freed
     THEN at' = "lost application" /\ UNCHANGED cmdVars
     ELSE Execute(Head(tests))
  /\ UNCHANGED <<hostVars, resume, searchVars, running, menuVars, tested, apps, read>>

\* validateHttpResponse looks for the expected code in all of the headers.
Passes == cmd.expect = "" \/ cmd.expect \in codes

\* Mutant: the headers are those of all the tests.
VerdictKept ==
  /\ at = "result" /\ tested # NoServer /\ at' = "test"
  /\ passed' = Passes
  /\ cmd' = NoCommand /\ replied' = {} /\ calm' = TRUE
  /\ UNCHANGED <<hostVars, resume, searchVars, running, menuVars, tested, apps, read,
                 tests, codes, linked>>

Verdict ==
  /\ at = "result" /\ tested # NoServer /\ at' = "test" /\ CommandOver
  /\ passed' = Passes
  /\ UNCHANGED <<hostVars, resume, searchVars, running, menuVars, tested, apps, read,
                 tests>>

\* The applications are deleted, and _apps still holds them.
TestsOver ==
  /\ at = "test" /\ tests = <<>> /\ Leave
  /\ apps' = [i \in DOMAIN apps |-> [apps[i] EXCEPT !.freed = TRUE]]
  /\ tested' = NoServer /\ passed' = FALSE
  /\ UNCHANGED <<hostVars, resume, searchVars, running, menuVars, read, tests, cmdVars>>

-------------------------------------------------------------------------------
\* Somebody else starts or ends an application of a server, one that is listed:
\* of the others, the client knows nothing.
OthersAct(h, name) ==
  /\ h \in up \cap DOMAIN servers /\ name \in Registered
  /\ running' = IF <<h, name>> \in running THEN running \ {<<h, name>>}
                ELSE running \cup {<<h, name>>}
  /\ calm' = (calm /\ (cmd = NoCommand \/ h # Target.loc))
  /\ UNCHANGED <<discoveryVars, menuVars, testVars, cmd, codes, replied, linked>>

Discover == DiscoveryStep /\ UNCHANGED clientVars

Next ==
  \/ Discover
  \/ ShowServers \/ ChooseRescan \/ Rescan \/ Quit \/ WakeUp \/ StartConformance
  \/ \E p \in list : ChooseServer(p)
  \/ \E op \in Ops, name \in Menu : Command(op, name)
  \/ GetStatus \/ Send \/ Return
  \/ NoServerToTest \/ NextTest \/ Verdict \/ TestsOver
  \/ \E p \in Pointers : RunTests(p)
  \/ \E h \in Hosts, name \in Registered : OthersAct(h, name)

\* The client goes on by itself while it searches, and time passes.
Fairness ==
  /\ WF_vars(Proceed /\ UNCHANGED clientVars)
  /\ WF_vars(Tick /\ UNCHANGED clientVars)

Spec == Init /\ [][Next]_vars /\ Fairness

-------------------------------------------------------------------------------
\* Properties.

\* The client never uses a DialServer that a search has deleted: the menu's list
\* and pServer never outlive the search (handleUser leaves its inner loop after
\* one; cleanServerList deletes).
DeletedNotUsed == at # "lost server"

\* No application is used after DialConformance::run has cleaned up the list of
\* applications ("clean up the application list": it deletes them all).
CleanedUpNotUsed == at # "lost application"

\* A stop or a launch does what it says if nothing disturbs it, and a launch
\* with a payload the server must refuse is refused: the end point learnt by
\* getStatus, the URL sendCommand asks for and the way the server reads it fit
\* together, whatever was done before.
CommandWorks ==
  at = "result" /\ calm /\ cmd.app \in Registered =>
    /\ cmd.op = "stop" => <<Target.loc, cmd.app>> \notin running
    /\ cmd.op = "launch" /\ cmd.payload = "fine" => <<Target.loc, cmd.app>> \in running
    /\ cmd.op = "launch" /\ cmd.payload # "fine" =>
         {a.code : a \in replied} = {IF cmd.payload = "long" THEN "413" ELSE "400"}

\* A test that passes found the code it expects in the headers of an answer that
\* a server sent while this test ran, not of one to an earlier test
\* (execute_launch, execute_status, execute_stop).
VerdictFromOwnTest ==
  [][at = "result" /\ at' = "test" /\ passed' /\ cmd.expect # ""
       => \E a \in replied : cmd.expect \in a.shows]_vars
===============================================================================
