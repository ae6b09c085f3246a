----------------------------- MODULE DialDiscovery -----------------------------
(***************************************************************************)
(* The search for servers: client/DialDiscovery.cpp, the responders of     *)
(* server/quick_ssdp.c and the network between them.  Datagrams are lost,  *)
(* delayed and duplicated: one that was sent may arrive at any later time, *)
(* any number of times, or never.  Servers stop and start.  Time passes in *)
(* ticks.                                                                  *)
(***************************************************************************)
EXTENDS Integers, FiniteSets

CONSTANTS
  Hosts,         \* the hosts that answer a search
  Unlocated,     \* hosts whose answers have no line with "LOCATION: "
  Wakes,         \* hosts whose answers have a WAKEUP header
  NoLocation,    \* the empty location
  ResponseTime,  \* RESPONSE_TIMEOUT, in ticks
  SelectTime,    \* the 1.5 s that all calls of select together may wait
  FetchTime,     \* the time limit of getServerInfo
  MaxSearches,   \* bound on the searches sent
  MaxFaults      \* bound on the ends and starts of servers

ASSUME DiscoveryAssumption ==
  /\ Unlocated \subseteq Hosts /\ Wakes \subseteq Hosts
  /\ NoLocation \notin Hosts
  /\ ResponseTime \in Nat \ {0} /\ SelectTime \in Nat /\ FetchTime \in Nat
  /\ MaxSearches \in Nat /\ MaxFaults \in Nat

VARIABLES
  up,            \* the hosts that run
  faults,        \* ends and starts so far
  answers,       \* the answers sent: <<the socket of the search, host>>
  alive,         \* history: the hosts that ran at a time since the last search
  sock,          \* the socket of the last search, 0 if there was none
  inbox,         \* the hosts whose answers wait in that socket
  at,            \* control point of the client
  resume,        \* where it goes on after the search
  servers,       \* mServerMap: for each location known, its DialServer
  heard,         \* history: the locations heard since the last reset
  elapsed,       \* ticks since the search was sent, up to ResponseTime
  left,          \* tv: what is left of SelectTime
  spent,         \* ticks spent in getServerInfo
  fetching       \* the answer whose location it is called for

hostVars == <<up, faults, answers>>
searchVars == <<sock, inbox, servers, heard, alive, elapsed, left, spent, fetching>>

\* receiveResponses before and in select, after select's time is used up, in
\* getServerInfo, and cleanServerList.
SearchPoints == {"loop", "select", "deaf", "fetch", "clean"}
Searching == at \in SearchPoints

Locations == Hosts \cup {NoLocation}
Location(h) == IF h \in Unlocated THEN NoLocation ELSE h

\* A DialServer is known by its location and the search it was found in.
DialServer ==
  [born : 1 .. MaxSearches, appsUrl : BOOLEAN, ddxml : BOOLEAN, mac : BOOLEAN,
   found : BOOLEAN]
Pointers == {[loc |-> l, born |-> servers[l].born] : l \in DOMAIN servers}

DiscoveryInit ==
  /\ up \in SUBSET Hosts /\ faults = 0 /\ answers = {} /\ alive = up
  /\ sock = 0 /\ inbox = {} /\ at = "search" /\ resume \in {"list", "conformance"}
  /\ servers = [l \in {} |-> 0] /\ heard = {}
  /\ elapsed = 0 /\ left = 0 /\ spent = 0 /\ fetching = NoLocation

-------------------------------------------------------------------------------
\* The responders and the network.

\* handle_mcast: a search arrives and is answered at the socket it came from.
AnswerSearch(h) ==
  /\ h \in up
  /\ \E s \in 1 .. sock : answers' = answers \cup {<<s, h>>}
  /\ UNCHANGED <<up, faults, at, resume, searchVars>>

\* An answer reaches the socket of the client that is read.
Arrive(h) ==
  /\ Searching /\ at # "clean" /\ <<sock, h>> \in answers
  /\ inbox' = inbox \cup {h}
  /\ UNCHANGED <<hostVars, at, resume, sock, servers, heard, alive, elapsed, left, spent,
                 fetching>>

\* The program of a host ends, or starts (runDial, run_ssdp).
StopOrStart(h) ==
  /\ faults < MaxFaults /\ faults' = faults + 1
  /\ up' = IF h \in up THEN up \ {h} ELSE up \cup {h}
  /\ alive' = alive \cup up'
  /\ UNCHANGED <<answers, at, resume, sock, inbox, servers, heard, elapsed, left,
                 spent, fetching>>

-------------------------------------------------------------------------------
\* send_mcast and receiveResponses.

SearchFails ==
  /\ at = "search" /\ at' = resume
  /\ UNCHANGED <<hostVars, resume, searchVars>>

\* Mutant: one socket is used for all searches.
SearchSameSocket ==
  /\ at = "search" /\ sock < MaxSearches
  /\ sock' = 1 /\ inbox' = {} /\ at' = "loop"
  /\ servers' = [l \in DOMAIN servers |-> [servers[l] EXCEPT !.found = FALSE]]
  /\ heard' = {} /\ alive' = up /\ elapsed' = 0 /\ left' = SelectTime
  /\ UNCHANGED <<hostVars, resume, spent, fetching>>

\* Mutant: the servers are not reset.
SearchNoReset ==
  /\ at = "search" /\ sock < MaxSearches
  /\ sock' = sock + 1 /\ inbox' = {} /\ at' = "loop"
  /\ heard' = {} /\ alive' = up /\ elapsed' = 0 /\ left' = SelectTime
  /\ UNCHANGED <<hostVars, resume, spent, fetching, servers>>

\* A new socket; resetDiscovery.
Search ==
  /\ at = "search" /\ sock < MaxSearches
  /\ sock' = sock + 1 /\ inbox' = {} /\ at' = "loop"
  /\ servers' = [l \in DOMAIN servers |-> [servers[l] EXCEPT !.found = FALSE]]
  /\ heard' = {} /\ alive' = up /\ elapsed' = 0 /\ left' = SelectTime
  /\ UNCHANGED <<hostVars, resume, spent, fetching>>

Select ==
  /\ at = "loop" /\ elapsed < ResponseTime /\ at' = "select"
  /\ UNCHANGED <<hostVars, resume, searchVars>>

\* select returns 0 and leaves the set of sockets empty: from now on each
\* call returns 0 at once.
SelectTimesOut ==
  /\ at = "select" /\ inbox = {} /\ left = 0 /\ at' = "deaf"
  /\ UNCHANGED <<hostVars, resume, searchVars>>

\* select or recvfrom fails.
SelectFails ==
  /\ at = "select" /\ at' = "clean"
  /\ UNCHANGED <<hostVars, resume, searchVars>>

\* processServer drops a datagram that is no answer of a DIAL server.
ReceiveOther ==
  /\ at = "select" /\ at' = "loop"
  /\ UNCHANGED <<hostVars, resume, searchVars>>

\* A known server is marked; of a new one the description is fetched.
Receive(h) ==
  /\ at = "select" /\ h \in inbox /\ inbox' = inbox \ {h}
  /\ \/ /\ Location(h) \in DOMAIN servers /\ at' = "loop"
        /\ servers' = [servers EXCEPT ![Location(h)].found = TRUE]
        /\ heard' = heard \cup {Location(h)}
        /\ UNCHANGED fetching
     \/ /\ Location(h) \notin DOMAIN servers /\ at' = "fetch"
        /\ fetching' = h
        /\ UNCHANGED <<servers, heard>>
  /\ UNCHANGED <<hostVars, resume, sock, alive, elapsed, left, spent>>

\* getServerInfo returns, with a part of the answer if the time was up, and
\* the new server is added to the list.
Describe(appsUrl, ddxml) ==
  /\ at = "fetch" /\ at' = "loop" /\ spent' = 0 /\ fetching' = NoLocation
  /\ appsUrl => Location(fetching) \in up
  /\ ddxml => appsUrl
  /\ LET new == [born |-> sock, appsUrl |-> appsUrl, ddxml |-> ddxml,
                 mac |-> fetching \in Wakes, found |-> TRUE]
     IN  servers' = [l \in DOMAIN servers \cup {Location(fetching)} |->
                       IF l = Location(fetching) THEN new ELSE servers[l]]
  /\ heard' = heard \cup {Location(fetching)}
  /\ UNCHANGED <<hostVars, resume, sock, inbox, alive, elapsed, left>>

RoundOver ==
  /\ at \in {"loop", "deaf"} /\ elapsed = ResponseTime /\ at' = "clean"
  /\ UNCHANGED <<hostVars, resume, searchVars>>

\* The servers not found are removed and deleted, and send_mcast returns.
cleanServerList ==
  /\ at = "clean" /\ at' = resume
  /\ LET found == {l \in DOMAIN servers : servers[l].found}
     IN  servers' = [l \in found |-> servers[l]]
  /\ inbox' = {} /\ elapsed' = 0 /\ left' = 0
  /\ UNCHANGED <<hostVars, resume, sock, heard, alive, spent, fetching>>

\* Mutant: the clock of the search starts again in each call of select.
TickRestart ==
  /\ Searching /\ at # "clean" /\ (at = "fetch" => spent < FetchTime)
  /\ elapsed' = IF at = "select" THEN 0
                ELSE IF elapsed < ResponseTime THEN elapsed + 1 ELSE elapsed
  /\ left' = IF at = "select" /\ inbox = {} /\ left > 0 THEN left - 1 ELSE left
  /\ spent' = IF at = "fetch" THEN spent + 1 ELSE spent
  /\ UNCHANGED <<hostVars, at, resume, sock, inbox, servers, heard, alive, fetching>>

\* Time passes; it does not count once the search is over.
Tick ==
  /\ Searching /\ at # "clean" /\ (at = "fetch" => spent < FetchTime)
  /\ elapsed' = IF elapsed < ResponseTime THEN elapsed + 1 ELSE elapsed
  /\ left' = IF at = "select" /\ inbox = {} /\ left > 0 THEN left - 1 ELSE left
  /\ spent' = IF at = "fetch" THEN spent + 1 ELSE spent
  /\ UNCHANGED <<hostVars, at, resume, sock, inbox, servers, heard, alive, fetching>>

\* What the client does by itself once it searches.
Proceed ==
  \/ Select \/ SelectTimesOut \/ RoundOver \/ cleanServerList
  \/ \E h \in Hosts : Receive(h)
  \/ \E appsUrl, ddxml \in BOOLEAN : Describe(appsUrl, ddxml)

HostStep == \E h \in Hosts : AnswerSearch(h) \/ Arrive(h) \/ StopOrStart(h)

DiscoveryStep ==
  Search \/ SearchFails \/ SelectFails \/ ReceiveOther \/ Proceed \/ Tick \/ HostStep

-------------------------------------------------------------------------------
\* Properties.

\* A server that is listed between two searches ran at some time since the
\* last of them began: answers to earlier searches, which come late or twice,
\* list no server that is gone (send_mcast opens a socket for each search).
ListedWasUp ==
  ~Searching => \A l \in DOMAIN servers : \E h \in alive : Location(h) = l

Directory ==
  INSTANCE ServerDirectory WITH known <- DOMAIN servers, answered <- heard,
                                searching <- Searching

\* The found marks, which resetDiscovery, updateServerList and cleanServerList
\* share, do what a directory of servers promises: after each search exactly
\* the servers heard in it are listed.
DirectorySpec == Directory!Spec

\* A search ends, however many answers come and however late
\* (receiveResponses, whose select waits 1.5 s in all).
SearchEnds == Searching ~> ~Searching
================================================================================
