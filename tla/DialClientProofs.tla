--------------------------- MODULE DialClientProofs ---------------------------
(***************************************************************************)
(* Proofs about DialClient and DialDiscovery, for any number of servers,   *)
(* searches, faults and tests, any input file and any names of             *)
(* applications that stand for themselves in a URL.                        *)
(***************************************************************************)
EXTENDS DialClient, TextLemmas

\* Types, as far as the other invariants need them.
Types ==
  /\ up \subseteq alive /\ alive \subseteq Hosts
  /\ answers \subseteq Nat \X Hosts
  /\ sock \in Nat /\ sock <= MaxSearches /\ (Searching => sock > 0)
  /\ resume \in {"list", "conformance"}
  /\ servers \in [DOMAIN servers -> DialServer] /\ DOMAIN servers \subseteq Locations

\* An answer in the current socket comes from a host that ran since the search
\* began, and so does every location heard; a list that was cleaned has no other.
Sources ==
  /\ \A a \in answers : a[1] <= sock /\ (a[1] = sock => a[2] \in alive)
  /\ inbox \subseteq alive
  /\ at = "fetch" => fetching \in alive
  /\ \A l \in heard : \E h \in alive : Location(h) = l
  /\ ~Searching => DOMAIN servers \subseteq heard

\* The found marks of a search are the locations heard in it.
FoundIsHeard ==
  Searching => heard = {l \in DOMAIN servers : servers[l].found}

DiscoveryInv == Types /\ Sources /\ FoundIsHeard

CommandPoints == {"status", "send", "result"}

\* Where the client is about to use a server, that server exists: a search, which
\* may delete it, is only begun from where its pointer is chosen again.
PointersLive ==
  /\ server # NoServer => resume = "list"
  /\ at \in {"list", "choose", "menu"} => resume = "list"
  /\ at \in SearchPoints \cup {"search", "list", "choose", "menu", "conformance"}
       => tested = NoServer
  /\ at = "choose" => list = Pointers
  /\ at = "menu" => server \in Pointers
  /\ at \in CommandPoints \cup {"conformance", "test"}
       => server \in Pointers \cup {NoServer}
  /\ at = "test" => tested \in Pointers
  /\ at \in CommandPoints => Target \in Pointers

\* The headers hold the codes of answers to this command only.
OwnHeaders == codes \subseteq UNION {a.shows : a \in replied}

IInv == DiscoveryInv /\ PointersLive /\ OwnHeaders /\ DeletedNotUsed

-------------------------------------------------------------------------------
LEMMA InitIInv == Init => IInv
<1> SUFFICES ASSUME Init PROVE IInv
  OBVIOUS
<1> USE DiscoveryAssumption DEF Init, DiscoveryInit
<1>1. Types
  <2>1. DOMAIN servers = {}
    OBVIOUS
  <2> QED
    BY <2>1 DEF Types, Searching, SearchPoints
<1>2. Sources /\ FoundIsHeard
  BY DEF Sources, FoundIsHeard, Searching, SearchPoints
<1>3. PointersLive /\ OwnHeaders /\ DeletedNotUsed
  BY DEF PointersLive, OwnHeaders, DeletedNotUsed, CommandPoints, SearchPoints
<1> QED
  BY <1>1, <1>2, <1>3 DEF IInv, DiscoveryInv

\* No DialServer is the null pointer.
LEMMA PointersNotNull ==
  ASSUME Types
  PROVE  NoServer \notin Pointers
<1>1. \A l \in DOMAIN servers : servers[l].born \in 1 .. MaxSearches
  BY DEF Types, DialServer
<1>2. ASSUME NEW l \in DOMAIN servers PROVE NoServer # [loc |-> l, born |-> servers[l].born]
  BY <1>1, <1>2, DiscoveryAssumption DEF NoServer
<1> QED
  BY <1>2 DEF Pointers

\* A step outside of a search leaves what discovery knows as it is.
LEMMA OutsideKeepsDiscovery ==
  ASSUME DiscoveryInv, UNCHANGED <<hostVars, searchVars>>,
         resume' \in {"list", "conformance"},
         at \notin SearchPoints, at' \notin SearchPoints
  PROVE  DiscoveryInv' /\ Pointers' = Pointers
BY DEF DiscoveryInv, Types, Sources, FoundIsHeard, Searching, Pointers, SearchPoints,
       hostVars, searchVars

-------------------------------------------------------------------------------
\* The steps of the discovery.

LEMMA HostKeepsIInv ==
  ASSUME IInv, HostStep, UNCHANGED clientVars
  PROVE  IInv'
<1> USE DEF IInv, DiscoveryInv
<1>1. PICK h \in Hosts : AnswerSearch(h) \/ Arrive(h) \/ StopOrStart(h)
  BY DEF HostStep
<1>2. UNCHANGED <<at, resume, sock, servers, heard, fetching>>
  BY <1>1 DEF AnswerSearch, Arrive, StopOrStart, searchVars
<1>3. up' \subseteq alive' /\ alive \subseteq alive' /\ alive' \subseteq Hosts
  BY <1>1 DEF AnswerSearch, Arrive, StopOrStart, searchVars, hostVars, Types
<1>4. Types'
  <2>1. answers' \subseteq Nat \X Hosts
    BY <1>1 DEF AnswerSearch, Arrive, StopOrStart, hostVars, Types
  <2> QED
    BY <1>2, <1>3, <2>1 DEF Types, Searching
<1>5. Sources'
  <2>1. \A a \in answers' : a[1] <= sock /\ (a[1] = sock => a[2] \in alive')
    <3>1. CASE AnswerSearch(h)
      <4>1. PICK s \in 1 .. sock : answers' = answers \cup {<<s, h>>}
        BY <3>1 DEF AnswerSearch
      <4>2. h \in alive' /\ s <= sock
        BY <3>1, <1>3 DEF AnswerSearch, Types
      <4> QED
        BY <4>1, <4>2, <1>3 DEF Sources
    <3>2. CASE Arrive(h) \/ StopOrStart(h)
      BY <3>2, <1>3 DEF Arrive, StopOrStart, hostVars, Sources
    <3> QED
      BY <1>1, <3>1, <3>2
  <2>2. inbox' \subseteq alive'
    <3>1. CASE Arrive(h)
      <4>1. h \in alive
        <5>1. <<sock, h>> \in answers
          BY <3>1 DEF Arrive
        <5> QED
          BY <5>1 DEF Sources
      <4> QED
        BY <3>1, <4>1, <1>3 DEF Arrive, Sources
    <3>2. CASE AnswerSearch(h) \/ StopOrStart(h)
      BY <3>2, <1>3 DEF AnswerSearch, StopOrStart, searchVars, Sources
    <3> QED
      BY <1>1, <3>1, <3>2
  <2>3. at' = "fetch" => fetching' \in alive'
    BY <1>2, <1>3 DEF Sources
  <2>4. \A l \in heard' : \E g \in alive' : Location(g) = l
    BY <1>2, <1>3 DEF Sources
  <2>5. ~Searching' => DOMAIN servers' \subseteq heard'
    BY <1>2 DEF Sources, Searching
  <2> QED
    BY <2>1, <2>2, <2>3, <2>4, <2>5, <1>2 DEF Sources
<1>6. FoundIsHeard'
  BY <1>2 DEF FoundIsHeard, Searching
<1>7. PointersLive' /\ OwnHeaders' /\ DeletedNotUsed'
  BY <1>2 DEF PointersLive, OwnHeaders, DeletedNotUsed, Pointers, Target, clientVars,
              menuVars, testVars, cmdVars
<1> QED
  BY <1>4, <1>5, <1>6, <1>7

\* What a step of a search does to the pointers, whatever it does to the list.
LEMMA SearchKeepsPointers ==
  ASSUME PointersLive, OwnHeaders, DeletedNotUsed, UNCHANGED clientVars,
         resume' = resume, resume \in {"list", "conformance"},
         at \in SearchPoints \cup {"search"},
         at' \in SearchPoints \cup {resume}
  PROVE  PointersLive' /\ OwnHeaders' /\ DeletedNotUsed'
BY DEF PointersLive, OwnHeaders, DeletedNotUsed, Pointers, Target, clientVars,
       menuVars, testVars, cmdVars, CommandPoints, SearchPoints

LEMMA SearchKeepsIInv ==
  ASSUME IInv, Search, UNCHANGED clientVars
  PROVE  IInv'
<1> USE DEF IInv, DiscoveryInv
<1>1. /\ DOMAIN servers' = DOMAIN servers
      /\ \A l \in DOMAIN servers : servers'[l] = [servers[l] EXCEPT !.found = FALSE]
  BY DEF Search
<1>2. Types'
  <2>1. \A l \in DOMAIN servers : servers'[l] \in DialServer
    BY <1>1 DEF Types, DialServer
  <2>2. servers' \in [DOMAIN servers' -> DialServer]
    BY <1>1, <2>1 DEF Search
  <2> QED
    BY <2>2, <1>1, DiscoveryAssumption DEF Types, Search, hostVars
<1>3. Sources'
  <2>1. \A a \in answers' : a[1] <= sock' /\ a[1] # sock'
    <3>1. \A a \in answers : a[1] \in Nat /\ a[1] <= sock
      BY DEF Sources, Types
    <3> QED
      BY <3>1 DEF Search, hostVars, Types
  <2> QED
    BY <2>1 DEF Sources, Search, Searching, SearchPoints
<1>4. FoundIsHeard'
  BY <1>1 DEF FoundIsHeard, Search, Types, DialServer
<1>5. PointersLive' /\ OwnHeaders' /\ DeletedNotUsed'
  BY SearchKeepsPointers DEF Search, Types, SearchPoints
<1> QED
  BY <1>2, <1>3, <1>4, <1>5

\* A step that only moves the client within the search, or fails to begin one.
LEMMA WaitKeepsIInv ==
  ASSUME IInv, UNCHANGED clientVars,
         SearchFails \/ SelectFails \/ ReceiveOther \/ Select \/ SelectTimesOut
           \/ RoundOver \/ Tick
  PROVE  IInv'
<1> USE DEF IInv, DiscoveryInv
<1>1. /\ UNCHANGED <<hostVars, resume, sock, inbox, servers, heard, alive, fetching>>
      /\ \/ at = "search" /\ at' = resume
         \/ at \in SearchPoints /\ at' \in SearchPoints /\ (at' = "fetch" => at = "fetch")
  BY DEF SearchFails, SelectFails, ReceiveOther, Select, SelectTimesOut, RoundOver,
         Tick, searchVars, Searching, SearchPoints
<1>2. Searching' = Searching
  BY <1>1 DEF Searching, SearchPoints, Types
<1>3. Types' /\ FoundIsHeard'
  BY <1>1, <1>2 DEF Types, FoundIsHeard, hostVars
<1>4. Sources'
  BY <1>1, <1>2 DEF Sources, hostVars, Types, SearchPoints
<1>5. PointersLive' /\ OwnHeaders' /\ DeletedNotUsed'
  BY <1>1, SearchKeepsPointers DEF Types
<1> QED
  BY <1>3, <1>4, <1>5

LEMMA ReceiveKeepsIInv ==
  ASSUME IInv, UNCHANGED clientVars, NEW h \in Hosts, Receive(h)
  PROVE  IInv'
<1> USE DEF IInv, DiscoveryInv
<1>1. h \in alive /\ inbox' \subseteq alive /\ at = "select"
  BY DEF Receive, Sources
<1>2. PointersLive' /\ OwnHeaders' /\ DeletedNotUsed'
  BY SearchKeepsPointers DEF Receive, Types, SearchPoints
<1>3. CASE Location(h) \in DOMAIN servers
  <2>1. /\ at' = "loop" /\ UNCHANGED <<hostVars, resume, sock, alive, fetching>>
        /\ servers' = [servers EXCEPT ![Location(h)].found = TRUE]
        /\ heard' = heard \cup {Location(h)}
    BY <1>3 DEF Receive
  <2>2. DOMAIN servers' = DOMAIN servers
    BY <2>1
  <2>3. \A l \in DOMAIN servers :
          servers'[l] = IF l = Location(h) THEN [servers[l] EXCEPT !.found = TRUE]
                                           ELSE servers[l]
    BY <2>1, <1>3 DEF Types
  <2>4. Types'
    <3>1. \A l \in DOMAIN servers : servers'[l] \in DialServer
      BY <2>3 DEF Types, DialServer
    <3>2. servers' \in [DOMAIN servers' -> DialServer]
      BY <2>1, <2>2, <3>1 DEF Types
    <3> QED
      BY <2>1, <2>2, <3>2, <1>1 DEF Types, hostVars, Searching, SearchPoints
  <2>5. Sources'
    BY <2>1, <1>1 DEF Sources, hostVars, Searching, SearchPoints
  <2>6. FoundIsHeard'
    BY <2>1, <2>2, <2>3, <1>1, <1>3
       DEF FoundIsHeard, Types, DialServer, Searching, SearchPoints
  <2> QED
    BY <2>4, <2>5, <2>6, <1>2
<1>4. CASE Location(h) \notin DOMAIN servers
  <2>1. /\ at' = "fetch" /\ fetching' = h
        /\ UNCHANGED <<hostVars, resume, sock, alive, servers, heard>>
    BY <1>4 DEF Receive
  <2>2. Types' /\ FoundIsHeard'
    BY <2>1, <1>1 DEF Types, FoundIsHeard, hostVars, Searching, SearchPoints
  <2>3. Sources'
    BY <2>1, <1>1 DEF Sources, hostVars, Searching, SearchPoints
  <2> QED
    BY <2>2, <2>3, <1>2
<1> QED
  BY <1>3, <1>4

LEMMA DescribeKeepsIInv ==
  ASSUME IInv, UNCHANGED clientVars,
         NEW appsUrl \in BOOLEAN, NEW ddxml \in BOOLEAN, Describe(appsUrl, ddxml)
  PROVE  IInv'
<1> USE DEF IInv, DiscoveryInv
<1> DEFINE here == Location(fetching)
           new == [born |-> sock, appsUrl |-> appsUrl, ddxml |-> ddxml,
                   mac |-> fetching \in Wakes, found |-> TRUE]
<1>1. /\ at = "fetch" /\ at' = "loop" /\ heard' = heard \cup {here}
      /\ UNCHANGED <<hostVars, resume, sock, inbox, alive>>
      /\ servers' = [l \in DOMAIN servers \cup {here} |->
                       IF l = here THEN new ELSE servers[l]]
  BY DEF Describe
<1>2. fetching \in alive /\ fetching \in Hosts /\ here \in Locations
  BY <1>1 DEF Sources, Types, Location, Locations
<1>3. new \in DialServer
  <2>1. sock \in 1 .. MaxSearches
    BY <1>1, DiscoveryAssumption DEF Types, Searching, SearchPoints
  <2> QED
    BY <2>1 DEF DialServer
<1>4. /\ DOMAIN servers' = DOMAIN servers \cup {here} /\ servers'[here] = new
      /\ \A l \in DOMAIN servers : l # here => servers'[l] = servers[l]
  BY <1>1
<1> HIDE DEF here, new
<1>5. Types'
  <2>1. \A l \in DOMAIN servers' : servers'[l] \in DialServer
    BY <1>3, <1>4 DEF Types
  <2>2. servers' \in [DOMAIN servers' -> DialServer]
    BY <1>1, <1>4, <2>1
  <2> QED
    BY <1>1, <1>2, <1>4, <2>2 DEF Types, hostVars, Searching, SearchPoints
<1>6. Sources'
  BY <1>1, <1>2 DEF Sources, hostVars, Searching, SearchPoints, here
<1>7. FoundIsHeard'
  BY <1>1, <1>4 DEF FoundIsHeard, Searching, SearchPoints, new
<1>8. PointersLive' /\ OwnHeaders' /\ DeletedNotUsed'
  BY <1>1, SearchKeepsPointers DEF Types, SearchPoints
<1> QED
  BY <1>5, <1>6, <1>7, <1>8

LEMMA CleanKeepsIInv ==
  ASSUME IInv, UNCHANGED clientVars, cleanServerList
  PROVE  IInv' /\ DOMAIN servers' = heard
<1> USE DEF IInv, DiscoveryInv
<1> DEFINE found == {l \in DOMAIN servers : servers[l].found}
<1>1. /\ at = "clean" /\ at' = resume /\ inbox' = {}
      /\ UNCHANGED <<hostVars, resume, sock, heard, alive, fetching>>
      /\ servers' = [l \in found |-> servers[l]]
  BY DEF cleanServerList
<1>2. found = heard
  BY <1>1 DEF FoundIsHeard, Searching, SearchPoints
<1>3. ~Searching'
  BY <1>1 DEF Searching, SearchPoints, Types
<1>4. Types'
  <2>1. servers' \in [found -> DialServer] /\ DOMAIN servers' = found
    BY <1>1 DEF Types
  <2> QED
    BY <1>1, <1>3, <2>1 DEF Types, hostVars
<1>5. Sources' /\ FoundIsHeard'
  BY <1>1, <1>2, <1>3 DEF Sources, FoundIsHeard, hostVars, Types
<1>6. PointersLive' /\ OwnHeaders' /\ DeletedNotUsed'
  BY <1>1, SearchKeepsPointers DEF Types, SearchPoints
<1> QED
  BY <1>1, <1>2, <1>4, <1>5, <1>6

LEMMA DiscoverKeepsIInv ==
  ASSUME IInv, Discover
  PROVE  IInv'
<1>1. DiscoveryStep /\ UNCHANGED clientVars
  BY DEF Discover
<1>2. CASE Search
  BY <1>1, <1>2, SearchKeepsIInv
<1>3. CASE SearchFails \/ SelectFails \/ ReceiveOther \/ Tick
  BY <1>1, <1>3, WaitKeepsIInv
<1>4. CASE HostStep
  BY <1>1, <1>4, HostKeepsIInv
<1>5. CASE Proceed
  <2>1. CASE Select \/ SelectTimesOut \/ RoundOver
    BY <1>1, <2>1, WaitKeepsIInv
  <2>2. CASE cleanServerList
    BY <1>1, <2>2, CleanKeepsIInv
  <2>3. CASE \E h \in Hosts : Receive(h)
    BY <1>1, <2>3, ReceiveKeepsIInv
  <2>4. CASE \E appsUrl, ddxml \in BOOLEAN : Describe(appsUrl, ddxml)
    BY <1>1, <2>4, DescribeKeepsIInv
  <2> QED
    BY <1>5, <2>1, <2>2, <2>3, <2>4 DEF Proceed
<1> QED
  BY <1>1, <1>2, <1>3, <1>4, <1>5 DEF DiscoveryStep

-------------------------------------------------------------------------------
\* The steps of the client.

LEMMA MenuKeepsIInv ==
  ASSUME IInv,
         \/ ShowServers \/ ChooseRescan \/ Rescan \/ Quit \/ WakeUp
         \/ StartConformance \/ NoServerToTest
         \/ \E p \in list : ChooseServer(p)
  PROVE  IInv'
<1> USE DEF IInv
<1>1. PointersLive
  OBVIOUS
<1>2. NoServer \notin Pointers
  BY PointersNotNull DEF DiscoveryInv
<1>3. /\ UNCHANGED <<hostVars, searchVars, running, testVars, cmdVars>>
      /\ at \in {"list", "choose", "menu", "conformance"}
      /\ resume' \in {"list", resume}
  BY DEF ShowServers, ChooseRescan, Rescan, Quit, WakeUp, StartConformance,
         NoServerToTest, ChooseServer, clientVars
<1>4. at' \in {"exit", "abort", "search", "list", "choose", "menu", "conformance"}
  <2>1. CASE ShowServers \/ ChooseRescan \/ Rescan \/ Quit \/ StartConformance
    BY <2>1 DEF ShowServers, ChooseRescan, Rescan, Quit, StartConformance
  <2>2. CASE WakeUp
    BY <2>2, <1>1 DEF WakeUp, PointersLive, Using, Live
  <2>3. CASE NoServerToTest
    BY <2>3 DEF NoServerToTest, Leave
  <2>4. CASE \E p \in list : ChooseServer(p)
    BY <2>4, <1>1 DEF ChooseServer, PointersLive, Using, Live
  <2> QED
    BY <2>1, <2>2, <2>3, <2>4
<1>5. DiscoveryInv' /\ Pointers' = Pointers
  BY <1>3, <1>4, OutsideKeepsDiscovery DEF DiscoveryInv, Types, SearchPoints
<1>6. PointersLive'
  <2>1. tested' = NoServer
    BY <1>1, <1>3 DEF PointersLive, testVars
  <2>2. CASE ShowServers
    BY <2>1, <2>2, <1>1, <1>5 DEF ShowServers, PointersLive, SearchPoints, CommandPoints
  <2>3. CASE ChooseRescan \/ Rescan
    BY <2>1, <2>3, <1>1, <1>5 DEF ChooseRescan, Rescan, PointersLive, SearchPoints,
         CommandPoints, clientVars, menuVars
  <2>4. CASE Quit \/ StartConformance
    BY <2>1, <2>4, <1>1, <1>5 DEF Quit, StartConformance, PointersLive, SearchPoints,
         CommandPoints, clientVars, menuVars
  <2>5. CASE WakeUp
    BY <2>1, <2>5, <1>1, <1>5 DEF WakeUp, Using, PointersLive, SearchPoints,
         CommandPoints, clientVars, menuVars
  <2>6. CASE NoServerToTest
    BY <2>1, <2>6, <1>1, <1>5 DEF NoServerToTest, Leave, PointersLive, SearchPoints,
         CommandPoints, clientVars, menuVars
  <2>7. CASE \E p \in list : ChooseServer(p)
    <3>1. PICK p \in list : ChooseServer(p)
      BY <2>7
    <3>2. p \in Pointers /\ at' = "menu" /\ server' = p /\ resume' = "list"
      BY <3>1, <1>1 DEF ChooseServer, PointersLive, Using, Live
    <3> QED
      BY <3>2, <2>1, <1>5 DEF PointersLive, SearchPoints, CommandPoints
  <2> QED
    BY <2>2, <2>3, <2>4, <2>5, <2>6, <2>7
<1>7. OwnHeaders' /\ DeletedNotUsed'
  BY <1>3, <1>4 DEF OwnHeaders, DeletedNotUsed, cmdVars
<1> QED
  BY <1>5, <1>6, <1>7

\* The codes that reach the client were sent in answer to this command.
LEMMA ExchangeOwnHeaders ==
  ASSUME OwnHeaders,
         \/ \E request, code, received : Exchange(request, code, received)
         \/ ExchangeFails
  PROVE  OwnHeaders'
BY DEF OwnHeaders, Exchange, ExchangeFails

LEMMA CommandKeepsIInv ==
  ASSUME IInv,
         \/ \E op \in Ops, name \in Menu : Command(op, name)
         \/ GetStatus \/ Send \/ Return \/ Verdict
  PROVE  IInv'
<1> USE DEF IInv
<1>1. PointersLive
  OBVIOUS
<1>2. NoServer \notin Pointers
  BY PointersNotNull DEF DiscoveryInv
<1>3. /\ UNCHANGED <<hostVars, resume, searchVars, menuVars, tested, apps>>
      /\ at \in CommandPoints \cup {"menu"}
  BY DEF Command, GetStatus, Send, Return, Verdict, CommandPoints, testVars
<1>4. \/ at' \in CommandPoints
      \/ at' = "menu" /\ at \in CommandPoints /\ tested = NoServer
      \/ at' = "test" /\ at \in CommandPoints /\ tested # NoServer
  <2>1. CASE \E op \in Ops, name \in Menu : Command(op, name)
    <3>1. Live(Target)
      BY <2>1, <1>1 DEF Command, PointersLive, Target, Live
    <3> QED
      BY <2>1, <3>1 DEF Command, Execute, Using, CommandPoints
  <2>2. CASE GetStatus
    BY <2>2 DEF GetStatus, AfterStatus, CommandPoints
  <2>3. CASE Send \/ Return \/ Verdict
    BY <2>3 DEF Send, Return, Verdict, CommandPoints
  <2> QED
    BY <2>1, <2>2, <2>3
<1>5. DiscoveryInv' /\ Pointers' = Pointers
  BY <1>3, <1>4, OutsideKeepsDiscovery DEF DiscoveryInv, Types, SearchPoints, CommandPoints
<1>6. Target \in Pointers /\ Target' = Target
  BY <1>1, <1>3 DEF PointersLive, Target, menuVars
<1>7. PointersLive'
  <2>1. server \in Pointers \cup {NoServer}
    BY <1>1, <1>3 DEF PointersLive, CommandPoints
  <2> QED
    BY <2>1, <1>1, <1>2, <1>3, <1>4, <1>5, <1>6
       DEF PointersLive, Target, CommandPoints, SearchPoints, menuVars
<1>8. OwnHeaders'
  BY ExchangeOwnHeaders
     DEF OwnHeaders, Command, Execute, GetStatus, Send, Return, Verdict, CommandOver
<1>9. DeletedNotUsed'
  BY <1>4 DEF DeletedNotUsed, CommandPoints
<1> QED
  BY <1>5, <1>7, <1>8, <1>9

LEMMA TestKeepsIInv ==
  ASSUME IInv,
         \/ \E p \in Pointers : RunTests(p)
         \/ NextTest \/ TestsOver
  PROVE  IInv'
<1> USE DEF IInv
<1>1. PointersLive
  OBVIOUS
<1>2. NoServer \notin Pointers
  BY PointersNotNull DEF DiscoveryInv
<1>3. CASE \E p \in Pointers : RunTests(p)
  <2>1. PICK p \in Pointers : RunTests(p)
    BY <1>3
  <2>2. /\ at = "conformance" /\ at' \in {"test", "abort"}
        /\ at' = "test" => tested' = p
        /\ UNCHANGED <<hostVars, resume, searchVars, menuVars, cmdVars>>
    BY <2>1 DEF RunTests
  <2>3. DiscoveryInv' /\ Pointers' = Pointers
    BY <2>2, OutsideKeepsDiscovery DEF DiscoveryInv, Types, SearchPoints
  <2>4. PointersLive'
    BY <2>2, <2>3, <1>1 DEF PointersLive, SearchPoints, CommandPoints, menuVars
  <2>5. OwnHeaders' /\ DeletedNotUsed'
    BY <2>2 DEF OwnHeaders, DeletedNotUsed, cmdVars
  <2> QED
    BY <2>3, <2>4, <2>5
<1>4. CASE NextTest
  <2>1. /\ at = "test" /\ UNCHANGED <<hostVars, resume, searchVars, menuVars, tested, apps>>
        /\ UNCHANGED <<codes, replied>>
    BY <1>4 DEF NextTest, Execute, cmdVars
  <2>2. Target \in Pointers /\ Target' = Target
    BY <2>1, <1>1, <1>2 DEF PointersLive, Target, menuVars
  <2>3. at' \in {"send", "status", "lost application"}
    BY <2>2, <1>4 DEF NextTest, Execute, Using, Live
  <2>4. DiscoveryInv' /\ Pointers' = Pointers
    BY <2>1, <2>3, OutsideKeepsDiscovery DEF DiscoveryInv, Types, SearchPoints
  <2>5. PointersLive'
    BY <2>1, <2>2, <2>3, <2>4, <1>1 DEF PointersLive, SearchPoints, CommandPoints, menuVars
  <2>6. OwnHeaders' /\ DeletedNotUsed'
    BY <2>1, <2>3 DEF OwnHeaders, DeletedNotUsed
  <2> QED
    BY <2>4, <2>5, <2>6
<1>5. CASE TestsOver
  <2>1. /\ at = "test" /\ tested' = NoServer
        /\ at' = IF server = NoServer THEN "exit" ELSE "menu"
        /\ UNCHANGED <<hostVars, resume, searchVars, menuVars, cmdVars>>
    BY <1>5 DEF TestsOver, Leave
  <2>2. DiscoveryInv' /\ Pointers' = Pointers
    BY <2>1, OutsideKeepsDiscovery DEF DiscoveryInv, Types, SearchPoints
  <2>3. PointersLive'
    BY <2>1, <2>2, <1>1 DEF PointersLive, SearchPoints, CommandPoints, menuVars
  <2>4. OwnHeaders' /\ DeletedNotUsed'
    BY <2>1 DEF OwnHeaders, DeletedNotUsed, cmdVars
  <2> QED
    BY <2>2, <2>3, <2>4
<1> QED
  BY <1>3, <1>4, <1>5

LEMMA OthersKeepIInv ==
  ASSUME IInv, NEW h \in Hosts, NEW name \in Registered, OthersAct(h, name)
  PROVE  IInv'
BY DEF IInv, DiscoveryInv, OthersAct, discoveryVars, hostVars, searchVars, menuVars,
       testVars, Types, Sources, FoundIsHeard, Searching, PointersLive, Pointers, Target,
       OwnHeaders, DeletedNotUsed

LEMMA NextKeepsIInv ==
  ASSUME IInv, [Next]_vars
  PROVE  IInv'
<1>1. CASE Discover
  BY <1>1, DiscoverKeepsIInv
<1>2. CASE \/ ShowServers \/ ChooseRescan \/ Rescan \/ Quit \/ WakeUp
           \/ StartConformance \/ NoServerToTest
           \/ \E p \in list : ChooseServer(p)
  BY <1>2, MenuKeepsIInv
<1>3. CASE \/ \E op \in Ops, name \in Menu : Command(op, name)
           \/ GetStatus \/ Send \/ Return \/ Verdict
  BY <1>3, CommandKeepsIInv
<1>4. CASE (\E p \in Pointers : RunTests(p)) \/ NextTest \/ TestsOver
  BY <1>4, TestKeepsIInv
<1>5. CASE \E h \in Hosts, name \in Registered : OthersAct(h, name)
  BY <1>5, OthersKeepIInv
<1>6. CASE UNCHANGED vars
  BY <1>6 DEF IInv, DiscoveryInv, vars, discoveryVars, clientVars, hostVars, searchVars,
       menuVars, testVars, cmdVars, Types, Sources, FoundIsHeard, Searching, PointersLive,
       Pointers, Target, OwnHeaders, DeletedNotUsed
<1> QED
  BY <1>1, <1>2, <1>3, <1>4, <1>5, <1>6 DEF Next

-------------------------------------------------------------------------------
\* Commands.

\* What needs no escape in a URL, and is no '?'.
PlainByte == Byte \ {Ch.space, Ch.percent, Ch.plus, Ch.question}

LEMMA PlainType ==
  /\ PlainByte \subseteq Byte /\ UrlByte \subseteq PlainByte
  /\ APPS_URI \in Seq(PlainByte) /\ RUN_URI \in Seq(PlainByte)
<1>1. {47, 97, 112, 115, 114, 117, 110} \subseteq PlainByte
  BY DEF PlainByte, Byte, Ch
<1>2. APPS_URI \in Seq(PlainByte) /\ RUN_URI \in Seq(PlainByte)
  BY <1>1 DEF APPS_URI, RUN_URI
<1>3. PlainByte \subseteq Byte /\ UrlByte \subseteq PlainByte
  BY DEF PlainByte, UrlByte, IsAlnum, Byte, Ch
<1> QED
  BY <1>2, <1>3

\* The server cuts the query off and decodes the rest to what it was.
LEMMA AskedIsHandled ==
  ASSUME NEW method, NEW path \in Seq(PlainByte)
  PROVE  Asked(method, path) = request_handler(method, path)
<1>1. \A c \in PlainByte : c \notin {Ch.space, Ch.percent, Ch.plus, Ch.question}
  BY DEF PlainByte
<1>2. path \in Seq(Byte)
  BY PlainType, SeqMonotonic
<1>3. \A i \in 1 .. Len(path) : path[i] \notin {Ch.space, Ch.percent, Ch.plus, Ch.question}
  BY <1>1, ElementOfSeq
<1>4. /\ VERSION_QUERY \in Seq(Byte) /\ VERSION_QUERY # <<>>
      /\ VERSION_QUERY[1] = Ch.question
  BY DEF VERSION_QUERY, Byte, Ch
<1>5. Span(path \o VERSION_QUERY, Byte \ {Ch.question}) = path
  BY <1>2, <1>3, <1>4, QueryCutOff
<1>6. url_decode(path) = path
  BY <1>2, <1>3, DecodedLiteral
<1> QED
  BY <1>5, <1>6, Zenon DEF Asked, handle_request

\* What the requests of the client ask the server for.
LEMMA AppRequests ==
  ASSUME NEW name \in Registered
  PROVE  /\ Asked("POST", APPS_URI \o name) = [op |-> "start", app |-> name]
         /\ Asked("GET", APPS_URI \o name) = [op |-> "status", app |-> name]
         /\ Asked("DELETE", APPS_URI \o name \o RUN_URI) = [op |-> "stop", app |-> name]
         /\ APPS_URI \o name \in Seq(Byte)
<1>1. name \in UrlName
  BY ClientAssumption
<1>2. /\ name \in Seq(NameByte) /\ Len(name) \in 1 .. MaxName
      /\ ~IsPrefix(<<Ch.dot, Ch.dot>>, name) /\ name \in Seq(UrlByte)
  BY <1>1 DEF UrlName, AppName
<1>3. IsName(name)
  BY <1>2, NameUnlessDots
<1>4. name \in Seq(PlainByte)
  BY <1>2, PlainType, SeqMonotonic
<1>5. APPS_URI \o name \in Seq(PlainByte)
  BY <1>4, PlainType, ConcatProperties
<1>6. APPS_URI \o name \o RUN_URI \in Seq(PlainByte)
  BY <1>5, PlainType, ConcatProperties
<1>7. APPS_URI \o name \in Seq(Byte)
  BY <1>5, PlainType, SeqMonotonic
<1> QED
  BY <1>3, <1>5, <1>6, <1>7, AskedIsHandled, HandlersOfName

LEMMA DeleteStartsNothing == \A path : Asked("DELETE", path).op # "start"
<1>1. \A resource : Operation("DELETE", resource) # "start"
  BY DEF Operation
<1>2. \A path : request_handler("DELETE", path).op # "start"
  BY <1>1 DEF request_handler
<1> QED
  BY <1>2 DEF Asked, handle_request

LEMMA HeadThenTail ==
  ASSUME NEW t \in Seq(Byte), t # <<>>
  PROVE  <<t[1]>> \o Tail(t) = t
<1>1. 1 \in 1 .. Len(t) /\ 1 - 1 = 0
  OBVIOUS
<1>2. From(t, 0) = <<t[1]>> \o From(t, 1)
  BY <1>1, FromFirst
<1>3. From(t, 0) = t
  BY SubSeqFull DEF From
<1>4. From(t, 1) = Tail(t)
  BY TailIsSubSeq DEF From
<1> QED
  BY <1>2, <1>3, <1>4

\* The path of a stop with the end point that getStatus learnt.
LEMMA StopPath ==
  ASSUME cmd.op = "stop", Target \in linked
  PROVE  Path = APPS_URI \o cmd.app \o RUN_URI
<1>1. <<Ch.slash>> \o EndPoint = RUN_URI
  <2>1. RUN_URI \in Seq(Byte) /\ RUN_URI # <<>> /\ RUN_URI[1] = Ch.slash
    <3>1. RUN_URI \in Seq(Byte)
      BY UriTypes
    <3>2. RUN_URI # <<>>
      BY DEF RUN_URI
    <3>3. RUN_URI[1] = Ch.slash
      BY UriBytes DEF Ch
    <3> QED
      BY <3>1, <3>2, <3>3
  <2>2. <<RUN_URI[1]>> \o Tail(RUN_URI) = RUN_URI
    BY <2>1, HeadThenTail
  <2> QED
    BY <2>1, <2>2 DEF EndPoint
<1> QED
  BY <1>1 DEF Path

LEMMA LaunchPath ==
  ASSUME cmd.op = "launch", cmd.app \in Registered
  PROVE  Path = APPS_URI \o cmd.app
<1>1. APPS_URI \o cmd.app \in Seq(Byte)
  BY AppRequests
<1>2. Path = APPS_URI \o cmd.app \o <<>>
  BY DEF Path
<1> QED
  BY <1>1, <1>2, ConcatEmptySeq

\* A stop is not sent without the end point if the application runs.  This
\* is why getStatus comes first.
StopHasEndPoint ==
  at = "send" /\ calm /\ cmd.op = "stop" /\ cmd.app \in Registered
    => (<<Target.loc, cmd.app>> \in running => Target \in linked)

\* The answers are those to this command; a launch is the first of its requests.
NoAnswerYet ==
  /\ at \notin CommandPoints => replied = {}
  /\ at = "send" /\ cmd.op = "launch" => replied = {}
  /\ at = "status" => cmd.op # "launch"

CommandInv == NoAnswerYet /\ StopHasEndPoint /\ CommandWorks

\* A step that is none of a command: outside of them, or of others.
LEMMA ElsewhereKeepsCommandInv ==
  ASSUME CommandInv,
         \/ /\ at' \notin CommandPoints
            /\ replied' = {} \/ (at \notin CommandPoints /\ replied' = replied)
         \/ UNCHANGED <<at, cmd, calm, server, tested, running, linked, replied>>
  PROVE  CommandInv'
<1>1. CASE at' \notin CommandPoints
  BY <1>1 DEF CommandInv, NoAnswerYet, StopHasEndPoint, CommandWorks, CommandPoints
<1>2. CASE UNCHANGED <<at, cmd, calm, server, tested, running, linked, replied>>
  <2>1. Target' = Target
    BY <1>2 DEF Target
  <2> QED
    BY <1>2, <2>1 DEF CommandInv, NoAnswerYet, StopHasEndPoint, CommandWorks
<1> QED
  BY <1>1, <1>2

LEMMA GetStatusKeepsCommandInv ==
  ASSUME CommandInv, GetStatus
  PROVE  CommandInv'
<1>1. /\ cmd' = cmd /\ at = "status" /\ at' \in {"send", "result"} /\ cmd.op # "launch"
      /\ at' = "result" => cmd.op = "status"
  BY DEF GetStatus, AfterStatus, CommandInv, NoAnswerYet
<1>2. NoAnswerYet'
  BY <1>1 DEF NoAnswerYet, CommandPoints
<1>3. CommandWorks'
  BY <1>1 DEF CommandWorks
<1>4. ASSUME calm', cmd.op = "stop", cmd.app \in Registered
      PROVE  <<Target.loc, cmd.app>> \in running' => Target \in linked'
  <2> DEFINE request == Asked("GET", APPS_URI \o cmd.app)
  <2>1. request.op = "status" /\ request.app = cmd.app
    BY <1>4, AppRequests
  <2> HIDE DEF request
  <2>2. PICK code \in Codes, received \in BOOLEAN :
          /\ Exchange(request, code, received)
          /\ linked' = IF received /\ HasLink(Target.loc, request)
                       THEN linked \cup {Target} ELSE linked
    BY <1>4 DEF GetStatus, ExchangeFails, request
  <2>3. received /\ Serve(Target.loc, request, TRUE, code)
    BY <1>4, <2>2 DEF Exchange
  <2>4. running' = running
    BY <2>1, <2>3 DEF Serve, Starts, Stops, AnswersOnly
  <2> QED
    BY <2>1, <2>2, <2>3, <2>4 DEF HasLink
<1>5. Target' = Target
  BY DEF GetStatus, menuVars, testVars, Target
<1>6. StopHasEndPoint'
  BY <1>1, <1>4, <1>5 DEF StopHasEndPoint
<1> QED
  BY <1>2, <1>3, <1>6 DEF CommandInv

\* A launch of a registered application.
LEMMA RegisteredStarts ==
  ASSUME NEW name \in Registered
  PROVE  StartRefusal(name) = IF cmd.payload = "long" THEN "413"
                              ELSE IF cmd.payload # "fine" THEN "400" ELSE "none"
BY ClientAssumption DEF StartRefusal, Known

LEMMA SendKeepsCommandInv ==
  ASSUME CommandInv, Send
  PROVE  CommandInv'
<1>1. /\ at = "send" /\ at' = "result" /\ cmd' = cmd /\ Target' = Target
      /\ linked' = linked
  BY DEF Send, menuVars, testVars, Target
<1>2. NoAnswerYet' /\ StopHasEndPoint'
  BY <1>1 DEF NoAnswerYet, StopHasEndPoint, CommandPoints
<1> SUFFICES ASSUME calm', cmd.app \in Registered
             PROVE  /\ cmd.op = "stop" => <<Target.loc, cmd.app>> \notin running'
                    /\ cmd.op = "launch" /\ cmd.payload = "fine"
                         => <<Target.loc, cmd.app>> \in running'
                    /\ cmd.op = "launch" /\ cmd.payload # "fine" =>
                         {a.code : a \in replied'}
                           = {IF cmd.payload = "long" THEN "413" ELSE "400"}
  BY <1>1, <1>2 DEF CommandInv, CommandWorks
<1> DEFINE request == Asked(Method, Path)
<1>3. PICK code \in Codes, received \in BOOLEAN : Exchange(request, code, received)
  BY DEF Send, ExchangeFails
<1>4. Serve(Target.loc, request, TRUE, code) /\ calm
  BY <1>3 DEF Exchange
<1>5. \E shows : replied' = replied \cup {[code |-> code, shows |-> shows]}
  BY <1>3 DEF Exchange
<1>6. ASSUME cmd.op = "stop" PROVE <<Target.loc, cmd.app>> \notin running'
  <2>1. CASE Target \in linked
    <3>1. request = [op |-> "stop", app |-> cmd.app]
      BY <1>6, <2>1, StopPath, AppRequests DEF Method
    <3>2. request.op = "stop" /\ request.app = cmd.app
      BY <3>1
    <3> HIDE DEF request
    <3> QED
      BY <1>4, <3>2 DEF Serve, Starts, Stops, AnswersOnly
  <2>2. CASE Target \notin linked
    <3>1. <<Target.loc, cmd.app>> \notin running
      BY <1>1, <1>4, <1>6, <2>2 DEF CommandInv, StopHasEndPoint
    <3>2. request.op # "start"
      BY <1>6, DeleteStartsNothing DEF Method
    <3> HIDE DEF request
    <3>3. running' \subseteq running
      BY <1>4, <3>2 DEF Serve, Starts, Stops, AnswersOnly
    <3> QED
      BY <3>1, <3>3
  <2> QED
    BY <2>1, <2>2
<1>7. ASSUME cmd.op = "launch"
      PROVE  /\ cmd.payload = "fine" => <<Target.loc, cmd.app>> \in running'
             /\ cmd.payload # "fine" =>
                  code = (IF cmd.payload = "long" THEN "413" ELSE "400")
  <2>1. request = [op |-> "start", app |-> cmd.app]
    BY <1>7, LaunchPath, AppRequests DEF Method
  <2>2. request.op = "start" /\ request.app = cmd.app
    BY <2>1
  <2>3. StartRefusal(cmd.app) = IF cmd.payload = "long" THEN "413"
                                ELSE IF cmd.payload # "fine" THEN "400" ELSE "none"
    BY RegisteredStarts
  <2> HIDE DEF request
  <2> QED
    BY <1>4, <2>2, <2>3 DEF Serve, Starts, Stops, AnswersOnly
<1>8. ASSUME cmd.op = "launch" PROVE {a.code : a \in replied'} = {code}
  <2>1. replied = {}
    BY <1>1, <1>8 DEF CommandInv, NoAnswerYet
  <2> QED
    BY <1>5, <2>1
<1> QED
  BY <1>6, <1>7, <1>8

LEMMA OthersKeepCommandInv ==
  ASSUME CommandInv, NEW h \in Hosts, NEW name \in Registered, OthersAct(h, name)
  PROVE  CommandInv'
<1>1. /\ UNCHANGED <<at, cmd, server, tested, linked, replied>>
      /\ calm' = (calm /\ (cmd = NoCommand \/ h # Target.loc))
      /\ running' = IF <<h, name>> \in running THEN running \ {<<h, name>>}
                    ELSE running \cup {<<h, name>>}
  BY DEF OthersAct, discoveryVars, menuVars, testVars
<1>2. Target' = Target
  BY <1>1 DEF Target
<1>3. NoAnswerYet'
  BY <1>1 DEF CommandInv, NoAnswerYet
<1> SUFFICES ASSUME calm', cmd.op \in {"stop", "launch"} PROVE CommandInv'
  BY <1>1, <1>3 DEF CommandInv, StopHasEndPoint, CommandWorks
<1>4. calm /\ h # Target.loc
  <2>1. cmd # NoCommand
    <3>1. NoCommand.op = ""
      BY DEF NoCommand
    <3>2. NoCommand.op \notin {"stop", "launch"}
      BY <3>1
    <3> QED
      BY <3>2, Zenon
  <2> QED
    BY <1>1, <2>1, Zenon
<1>5. \A a : <<Target.loc, a>> \in running' <=> <<Target.loc, a>> \in running
  BY <1>1, <1>4
<1> QED
  BY <1>1, <1>2, <1>3, <1>4, <1>5 DEF CommandInv, StopHasEndPoint, CommandWorks

LEMMA ExecuteKeepsCommandInv ==
  ASSUME CommandInv, at \in {"menu", "test"}, NEW command, Execute(command)
  PROVE  CommandInv'
<1>1. /\ at' \in {"send", "status", "lost server"} /\ replied' = {}
      /\ at' = "send" => cmd'.op = "launch"
      /\ at' = "status" => cmd'.op # "launch"
  BY DEF Execute, Using, CommandInv, NoAnswerYet, CommandPoints
<1> QED
  BY <1>1 DEF CommandInv, NoAnswerYet, StopHasEndPoint, CommandWorks, CommandPoints

LEMMA NextKeepsCommandInv ==
  ASSUME IInv, CommandInv, [Next]_vars
  PROVE  CommandInv'
<1>1. CASE Discover
  <2>1. /\ UNCHANGED clientVars
        /\ at' = at \/ (at \notin CommandPoints /\ at' \notin CommandPoints)
    <3>1. resume \in {"list", "conformance"}
      BY DEF IInv, DiscoveryInv, Types
    <3> QED
      BY <1>1, <3>1 DEF Discover, DiscoveryStep, Proceed, HostStep, Search, SearchFails,
         SelectFails, ReceiveOther, Tick, AnswerSearch, Arrive, StopOrStart, Select,
         SelectTimesOut, RoundOver, cleanServerList, Receive, Describe, Searching,
         SearchPoints, CommandPoints
  <2> QED
    BY <2>1, ElsewhereKeepsCommandInv DEF clientVars, menuVars, testVars, cmdVars
<1>2. CASE \/ ShowServers \/ ChooseRescan \/ Rescan \/ Quit \/ WakeUp \/ StartConformance
           \/ NoServerToTest \/ TestsOver
           \/ \E p \in list : ChooseServer(p)
           \/ \E p \in Pointers : RunTests(p)
  <2>1. at' \notin CommandPoints /\ at \notin CommandPoints /\ replied' = replied
    BY <1>2 DEF ShowServers, ChooseRescan, Rescan, Quit, WakeUp, StartConformance,
       NoServerToTest, TestsOver, ChooseServer, RunTests, Leave, Using, CommandPoints,
       clientVars, cmdVars
  <2> QED
    BY <2>1, ElsewhereKeepsCommandInv
<1>3. CASE Return \/ Verdict
  <2>1. at' \notin CommandPoints /\ replied' = {}
    BY <1>3 DEF Return, Verdict, CommandOver, CommandPoints
  <2> QED
    BY <2>1, ElsewhereKeepsCommandInv
<1>4. CASE GetStatus
  BY <1>4, GetStatusKeepsCommandInv
<1>5. CASE Send
  BY <1>5, SendKeepsCommandInv
<1>6. CASE \E op \in Ops, name \in Menu : Command(op, name)
  BY <1>6, ExecuteKeepsCommandInv DEF Command
<1>7. CASE NextTest
  <2>1. CASE Execute(Head(tests))
    BY <1>7, <2>1, ExecuteKeepsCommandInv DEF NextTest
  <2>2. CASE ~Execute(Head(tests))
    <3>1. at = "test" /\ at' = "lost application" /\ replied' = replied
      BY <1>7, <2>2 DEF NextTest, cmdVars
    <3> QED
      BY <3>1, ElsewhereKeepsCommandInv DEF CommandPoints
  <2> QED
    BY <2>1, <2>2
<1>8. CASE \E h \in Hosts, name \in Registered : OthersAct(h, name)
  BY <1>8, OthersKeepCommandInv
<1>9. CASE UNCHANGED vars
  BY <1>9, ElsewhereKeepsCommandInv DEF vars, discoveryVars, clientVars, menuVars, testVars,
     cmdVars
<1> QED
  BY <1>1, <1>2, <1>3, <1>4, <1>5, <1>6, <1>7, <1>8, <1>9 DEF Next

-------------------------------------------------------------------------------
\* The theorems.

\* The inductive invariant holds in every state the client and the servers reach.
THEOREM Invariant == Spec => []IInv
<1>1. Init => IInv
  BY InitIInv
<1>2. IInv /\ [Next]_vars => IInv'
  BY NextKeepsIInv
<1> QED
  BY <1>1, <1>2, PTL DEF Spec

\* Whatever the network does with the answers, a server listed between two
\* searches (mServerMap) ran at some time since the last one began.
THEOREM ListsServersThatWereUp == Spec => []ListedWasUp
<1>1. IInv => ListedWasUp
  BY DEF IInv, DiscoveryInv, Sources, ListedWasUp
<1> QED
  BY <1>1, Invariant, PTL

\* The client uses no DialServer that cleanServerList deleted, however often it
\* searches and tests.
THEOREM UsesNoDeletedServer == Spec => []DeletedNotUsed
<1>1. IInv => DeletedNotUsed
  BY DEF IInv
<1> QED
  BY <1>1, Invariant, PTL

\* A stop that nothing disturbs leaves the application not running, and a
\* launch leaves it running or, with a payload that is too long or bad, is
\* answered 413 or 400 and nothing else, whatever was done before: the end point
\* that getStatus keeps, the URL that sendCommand asks for, mongoose's cutting,
\* decoding and cleaning of it and request_handler's tests fit together for every
\* name that stands for itself in a URL.
THEOREM CommandsWork == Spec => []CommandWorks
<1>1. Init => CommandInv
  BY DEF Init, DiscoveryInit, CommandInv, NoAnswerYet, StopHasEndPoint, CommandWorks
<1>2. IInv /\ CommandInv /\ [Next]_vars => CommandInv'
  BY NextKeepsCommandInv
<1>3. CommandInv => CommandWorks
  BY DEF CommandInv
<1> QED
  BY <1>1, <1>2, <1>3, Invariant, PTL DEF Spec

\* A conformance test passes only by what is in the headers of an answer to this
\* test, whatever was answered to the tests before.
THEOREM VerdictsAreOwn == Spec => VerdictFromOwnTest
<1> DEFINE Own == at = "result" /\ at' = "test" /\ passed' /\ cmd.expect # ""
                    => \E a \in replied : cmd.expect \in a.shows
<1>1. IInv /\ [Next]_vars => [Own]_vars
  <2> SUFFICES ASSUME IInv, Next, at = "result", at' = "test", passed', cmd.expect # ""
               PROVE  \E a \in replied : cmd.expect \in a.shows
    OBVIOUS
  <2>1. Verdict
    BY DEF Next, Discover, DiscoveryStep, Proceed, HostStep, Search, SearchFails,
       SelectFails, ReceiveOther, Tick, AnswerSearch, Arrive, StopOrStart, Select,
       SelectTimesOut, RoundOver, cleanServerList, Receive, Describe, ShowServers,
       ChooseRescan, Rescan, Quit, WakeUp, StartConformance, ChooseServer, Command,
       GetStatus, Send, Return, NoServerToTest, NextTest, TestsOver, RunTests, OthersAct,
       discoveryVars
  <2> QED
    BY <2>1 DEF Verdict, Passes, IInv, OwnHeaders
<1> QED
  BY <1>1, Invariant, PTL DEF Spec, VerdictFromOwnTest

\* Every step of the client and the servers is one of the abstract directory:
\* Search begins, Receive of a known server and Describe hear, cleanServerList
\* ends, and all others leave it as it is.
LEMMA StepIsDirectoryStep ==
  ASSUME IInv, [Next]_vars
  PROVE  [Directory!Next]_(Directory!vars)
<1> USE DEF IInv, DiscoveryInv, Directory!vars
<1> DEFINE Same == UNCHANGED <<DOMAIN servers, heard, Searching>>
<1>1. CASE Discover
  <2>1. CASE Search
    <3>1. ~Searching /\ Searching' /\ heard' = {} /\ DOMAIN servers' = DOMAIN servers
      BY <2>1 DEF Search, Searching, SearchPoints
    <3> QED
      BY <3>1 DEF Directory!Next, Directory!Begin
  <2>2. CASE SearchFails \/ SelectFails \/ ReceiveOther \/ Tick \/ Select \/ SelectTimesOut
               \/ RoundOver
    <3>1. Same
      BY <2>2 DEF SearchFails, SelectFails, ReceiveOther, Tick, Select, SelectTimesOut,
         RoundOver, searchVars, Searching, SearchPoints, Types
    <3> QED
      BY <3>1
  <2>3. CASE HostStep
    <3>1. Same
      BY <2>3 DEF HostStep, AnswerSearch, Arrive, StopOrStart, searchVars, Searching
    <3> QED
      BY <3>1
  <2>4. CASE cleanServerList
    <3>1. DOMAIN servers' = heard
      BY <1>1, <2>4, CleanKeepsIInv DEF Discover
    <3>2. Searching /\ (Searching' = FALSE) /\ heard' = heard
      BY <2>4 DEF cleanServerList, Searching, SearchPoints, Types
    <3> QED
      BY <3>1, <3>2 DEF Directory!Next, Directory!End
  <2>5. CASE \E h \in Hosts : Receive(h)
    <3>1. PICK h \in Hosts : Receive(h)
      BY <2>5
    <3>2. Searching /\ Searching' /\ Location(h) \in Locations
      BY <3>1 DEF Receive, Searching, SearchPoints, Location, Locations
    <3>3. CASE Location(h) \in DOMAIN servers
      <4>1. /\ servers' = [servers EXCEPT ![Location(h)].found = TRUE]
            /\ heard' = heard \cup {Location(h)}
        BY <3>1, <3>3 DEF Receive
      <4>2. DOMAIN servers' = DOMAIN servers \cup {Location(h)}
        BY <3>3, <4>1
      <4> QED
        BY <3>2, <4>1, <4>2 DEF Directory!Next, Directory!Hear
    <3>4. CASE Location(h) \notin DOMAIN servers
      BY <3>1, <3>2, <3>4 DEF Receive
    <3> QED
      BY <3>3, <3>4
  <2>6. CASE \E appsUrl, ddxml \in BOOLEAN : Describe(appsUrl, ddxml)
    <3>1. Searching /\ Searching' /\ Location(fetching) \in Locations
      BY <2>6 DEF Describe, Searching, SearchPoints, Location, Locations, Sources, Types
    <3>2. /\ DOMAIN servers' = DOMAIN servers \cup {Location(fetching)}
          /\ heard' = heard \cup {Location(fetching)}
      BY <2>6 DEF Describe
    <3> QED
      BY <3>1, <3>2 DEF Directory!Next, Directory!Hear
  <2> QED
    BY <1>1, <2>1, <2>2, <2>3, <2>4, <2>5, <2>6 DEF Discover, DiscoveryStep, Proceed
<1>2. ASSUME UNCHANGED searchVars, at \notin SearchPoints, at' \notin SearchPoints
      PROVE  Same
  BY <1>2 DEF searchVars, Searching
<1>3. CASE \/ ShowServers \/ ChooseRescan \/ Rescan \/ Quit \/ WakeUp
           \/ StartConformance \/ NoServerToTest
           \/ \E p \in list : ChooseServer(p)
  BY <1>2, <1>3 DEF ShowServers, ChooseRescan, Rescan, Quit, WakeUp, StartConformance,
     NoServerToTest, ChooseServer, Leave, Using, SearchPoints
<1>4. CASE \/ \E op \in Ops, name \in Menu : Command(op, name)
           \/ GetStatus \/ Send \/ Return \/ Verdict
  BY <1>2, <1>4 DEF Command, Execute, GetStatus, AfterStatus, Send, Return, Verdict, Using,
     SearchPoints
<1>5. CASE (\E p \in Pointers : RunTests(p)) \/ NextTest \/ TestsOver
  BY <1>2, <1>5 DEF RunTests, NextTest, TestsOver, Execute, Using, Leave, SearchPoints
<1>6. CASE \/ \E h \in Hosts, name \in Registered : OthersAct(h, name)
           \/ UNCHANGED vars
  BY <1>6 DEF OthersAct, vars, discoveryVars, searchVars, Searching
<1> QED
  BY <1>1, <1>3, <1>4, <1>5, <1>6 DEF Next

\* The discovery implements the directory of servers: the found marks, shared
\* by resetDiscovery, updateServerList and cleanServerList, list after each
\* search exactly the servers that were heard in it.
THEOREM ImplementsDirectory == Spec => DirectorySpec
<1>1. Init => Directory!Init
  <2>1. ASSUME Init PROVE Directory!Init
    BY <2>1 DEF Init, DiscoveryInit, Directory!Init, Searching, SearchPoints
  <2> QED
    BY <2>1
<1>2. IInv /\ [Next]_vars => [Directory!Next]_(Directory!vars)
  BY StepIsDirectoryStep
<1> QED
  BY <1>1, <1>2, Invariant, PTL DEF Spec, DirectorySpec, Directory!Spec
===============================================================================
