# TLA+ models of the DIAL reference server and client

DIAL lets a second-screen device find a first-screen device (SSDP) and start,
look at and stop applications on it (a small REST service).  This directory
models the repository's C server and its C++ client.  Paths below are relative
to the root of the repository.

## The system

| component | source | state | operations |
|---|---|---|---|
| web server threads | `server/mongoose.c` | `mg_context`: `stop_flag`, `num_threads`, a ring of accepted sockets, one mutex, three condition variables | `mg_start`, `mg_stop`, `master_thread`, `worker_thread`, `produce_socket`, `consume_socket` |
| web server connections | `server/mongoose.c` | `mg_connection`: a buffer, `content_len`, `consumed_content` | `read_request`, `get_request_len`, `handle_request`, `mg_read`, `discard_current_request_from_buffer` |
| DIAL REST service | `server/dial_server.c` | list of `DIALApp` (name, `run_id`, `state`, payload, data, origins) under `ds->mux` | `request_handler`, `handle_app_start/status/stop/hide`, `handle_dial_data`, `is_allowed_origin`, `DIAL_register_app`, `DIAL_unregister_app` |
| callbacks and processes | `server/main.c`, `nf_callbacks.c`, `system_callbacks.c` | the kernel's process table | `runApplication`, `isAppRunning`, the four callbacks of Netflix, YouTube and system |
| application data storage | `server/dial_data.c` | a list per application and its file | store, retrieve, free |
| URL library | `server/url_lib.c` | none | decoding, escaping, parsing of parameters |
| CORS origin matching | `server/dial_server.c` | none | `host_matches`, `origin_matches`, `is_uri_in_list` |
| SSDP responder | `server/quick_ssdp.c` | none that changes after the start | answers M-SEARCH, serves `/dd.xml` |
| client discovery | `client/DialDiscovery.cpp` | map from location to server, each with a found mark | search, mark, clean |
| client proxy | `client/DialServer.cpp` | the end point learnt from a status | launch, status, stop, hide, wake up |
| conformance tests | `client/DialConformance.cpp` | `_apps`, the commands to be run | `run`, `execute_command`, the checks |
| input file and menu | `client/DialClientInput.cpp`, `client/main.cpp` | lists of names, the chosen server | the menu |

The application program calls `DIAL_create`, `DIAL_register_app` and
`DIAL_start`; the last starts the threads of mongoose, whose workers read a
request from their connection and call `request_handler` back; that takes
`ds->mux` and calls the application's callbacks with the mutex held; these
fork, signal and wait for processes.  The client has one thread: it searches,
lists the servers it heard, and sends requests to one of them, by hand or as
the input file says.

The hard parts are the hand-over of sockets and of wake-ups between the
threads; the shutdown; requests that arrive in pieces or stop in the middle;
the callbacks that block or look at other processes while they hold `ds->mux`,
and the processes that end by themselves; a server that is killed while it
stores data; datagrams that are lost, late or repeated; and, in the client,
objects and answers that outlive what they were about.  `PROJECT.json` lists
each hazard at its line, with the properties that cover it.

What makes each part correct: the web server serves every accepted connection
once and in order, and stops; what a request is answered depends on its bytes
and not on how they came; the service answers every request once, never blocks
for ever and never uses an application that was removed; the callbacks run one
process per application, and reap what they started; what was answered is
stored, and what is read back is what was stored; an origin is accepted if the
documented rules accept it; after a search the client lists the servers it
heard, and what it does then is about them.

## Modules

The web server:

* `ConnQueue` - the abstract service of the web server: a FIFO of connections,
  each served by one worker, none dropped before the server is told to stop.
* `MongoosePool` - the threads of `mongoose.c`.  `pc[w]` is the control point
  of a worker, `mpc` that of the master, `cpc` that of the thread in `mg_start`
  and `mg_stop`.  What a thread does between taking and releasing `ctx->mutex`
  is one step, except that each read of `stop_flag`, which is written without
  the mutex, is a step of its own (`ConsumeTest` and `ConsumeWait` are the two
  halves of the condition and the wait of `consume_socket`).
  `num_threads++` in `mg_start` is a load and a store (`LoadCount`,
  `StoreCount`).  `ProduceFails`, `SpawnFails` and `JoinLockFails` are pthread
  calls that return an error the code tests, and `SpuriousWakeUp` the wake-ups
  POSIX allows.
  `Serve` is `process_new_connection` and `close_connection` in one step.
* `HttpConnection` - what `Serve` is made of: one worker and the byte stream of
  its client.  `Read(n)` and `Pull(n)` are a `recv` of n bytes in
  `read_request` and `mg_read`; `ReadFails` and `PullFails` one that returns
  an error, the 500 ms timeout or the end of the stream.  `MgReadBuffered` is
  the part of the content that came with the head; `Discard` one turn of
  `discard_current_request_from_buffer`, which calls `mg_read` again.

The service:

* `AppProcesses` - the process table: a forked child shows the server's
  executable until it executes the application's (`forked`), and becomes a
  `clone` of the server if `execv` fails; a child that ends is a `zombie`
  until it is waited for; users start and quit applications too.
* `DialServer` - the handlers of `dial_server.c` with the callbacks of
  `main.c`, `nf_callbacks.c` and `system_callbacks.c`.  Each step of a handler
  between `ds_lock` and `ds_unlock` begins where a callback looks at or changes
  the process table: `StartNetflix` is the look of `netflix_start`, `Launch`
  the fork, `NetflixReap` and `Look` the two halves of `netflix_status`,
  `StopNetflix` and `WaitPid` those of `netflix_stop`.  `Route` and
  `CheckOrigin` come before the mutex is taken; the check of the origin takes
  and releases it first.  `Register`, `RegisterFails` and `Unregister` are the
  calls of a host program.  A handler that fails before it calls a callback is
  `RespondOwn`.
* `UrlLib`, `CorsOrigin`, `DialRoutes` - pure functions on sequences of bytes:
  `url_lib.c` (with mongoose's `url_decode` and
  `remove_double_dots_and_double_slashes`), the matching of origins, and the
  way `handle_request` and `request_handler` go from the target of a request line
  (its query cut off, decoded and cleaned) and a method to a handler and a name.
* `AppData` - an application's keys and values and the text of their file;
  `Truncate` and `WriteOut` are the `fopen` and the `fclose` of
  `store_dial_data`; the lines are taken to wait in the buffer of stdio between
  the two.
* `RequestService` - `HttpConnection` calls the handlers that read a content
  (`handle_app_start`, `handle_dial_data`) or list the data
  (`handle_app_status`), and these keep the data with `AppData`.  The server
  may be killed at every point and started again (`Die`, `Restart`), the disk
  be full, and the host remove and register the application.
* `ServerText` - what the pure functions promise together.  A behaviour is one
  sample, a text or several that one of the promises is about; `MCServerInput`
  checks them with `RequestService` in one run.

The client:

* `ServerDirectory` - the abstract directory: who answers a search is listed,
  and after it exactly they are.
* `DialDiscovery` - `send_mcast` and `receiveResponses` with the clock of the
  search (`elapsed`) and what is left of the time given to `select` (`left`),
  the map of servers and its marks, the responders, and a network that loses
  datagrams, delays them over searches and repeats them (`answers` only grows).
* `DialClient` - the menu, the requests with the end point they share and the
  conformance tests, on top of `DialDiscovery`.  A request is the URL that the
  client builds, with the version it appends as a query (`Asked`), and goes
  through `handle_request` of `DialRoutes`; `Serve` answers it with the codes of
  the handlers, a refused payload and the system application included.  A test
  looks for its code in what the headers show (`Shown`): the code of the answer
  and, with a 201, the digits of the address and the name in its Location.
  Using a server that a search deleted leads to the control point "lost server",
  using an application that a run of the tests deleted to "lost application", an
  assertion or exception that ends the client to "abort".

`MCMongoosePool`, `MCDialServer`, `MCServerInput`, `MCDialClient` hold the
symmetry sets, the menus of requests and the samples of texts.  The theorems
are in `MongoosePoolProofs` and `PoolServiceProofs` (threads),
`DialServerProofs` and `DialRequestsProofs` (service), `RequestServiceProofs`
(connection and data), `TextProofs` (texts, URIs and origins) and
`DialClientProofs`; `TextLemmas` has what the last three need of `UrlLib` and
`DialRoutes`.

## Runs

| run | instance | shows |
|---|---|---|
| `pool_safety` | 2 workers, 4 connections, ring of 2, 2 faults | types and bounds of the ring, mutual exclusion, a woken worker finds a socket, sockets are never lost or served twice, `num_threads` counts, the context is freed last, refinement of `ConnQueue` |
| `pool_live` | 2 workers, 3 connections, ring of 1, no fault | every client is served unless the server is stopped; a stop that hangs leaves a thread on a condition variable |
| `dial_processes` | 2 workers, 3 requests for Netflix, 2 processes | who waits for which process, the only window for a second Netflix; every request is answered, a stopped Netflix is reaped |
| `dial_requests` | 2 workers, 2 requests of 30 kinds, 1 process, 2 calls of the host | one answer for each request, the mutex released on every path, no use of a removed application |
| `server_input` | buffer of 6 bytes, 2 headers, 2 connections of 29 requests, 1 kill, 1 full disk, 1 call of the host; samples of texts | the answer does not depend on the pieces a request comes in, the handler reads its own content, data survive kills unmixed; texts, URIs and queries are treated as their documentation says, and origins as it says of wildcards that stand for one label |
| `client` | 2 hosts, 2 searches, 2 stops or starts | refinement of `ServerDirectory`, no server that a search deleted is used, a verdict is about its own test, an undisturbed command works, a search ends |

Six more runs end in a counterexample, each against a sentence of the
repository (quoted in `PROJECT.json` under `findings`): `pool_lost_wakeup`
(a worker misses the broadcast of the shutdown), `pool_self_stop` (`mg_stop`
overwrites the master's answer), `dial_double_launch` (two Netflix processes),
`dial_zombie` (a child nobody waits for any more), `cors_subdomain` (a subdomain
of a subdomain is refused) and `client_second_run` (the tests, run again, use
the applications they deleted).

Bounds.  The ring has 20 slots in the code: 2 slots and 4 connections fill it,
make the master wait, and take `sq_tail` past the size so that the positions
are brought back; with 1 slot both condition variables are waited on at once.
Two workers are enough for one to take what the other was woken for.  Two
handlers are the most of which neither holds the mutex when the third acts is
the host; three requests allow a start, a second start and a stop, and two
processes a child and another one, of the server or of a user.  (Liveness is
checked without symmetry; the safety properties are proved for any number of
requests and processes.)  `MaxFaults`,
`MaxRequests` and `MaxHostCalls` bound faults, requests and registrations.

In `server_input` (1.6 million states) a buffer of 6 bytes holds some heads
with a part of the content and is filled by others to the last byte; contents
are shorter, as long and longer than every buffer (`MaxPayload` 4, `DataMax`
8, `DiscardSize` 2, words of 2 in the file).  Two connections allow a store, a
kill and a second store.  The samples are all texts of up to 3 bytes from 10
(each escape and each kind of byte), names of up to 4, URIs and queries of up
to 5, origins of up to 3 labels against lists of one or two candidates with
every combination of ports: the functions look at no more than a few bytes or
one label at a time.

In `client` (740,000 states) one of the two hosts writes its headers in a
spelling the client does not know and the other one can be woken; the second
search is the one in which answers to the first arrive; the clock of the
search goes to 3, that of `select` to 1, so that `select` can time out before
the search is over.

`CHECK_DEADLOCK FALSE` is used where the system stops: the web server after
`mg_stop`, the service after a registration that kept the mutex, the client
after the user has left it.

## Fairness

Every thread of the server that can go on goes on (`WF` on the steps of each
thread; with finitely many connections and requests, and hence finitely many
acquisitions of a mutex by others, weak fairness is enough for the one who
waits for it).  No fairness for clients, users, the host program, `mg_stop` or
failing calls.  Spurious wake-ups happen only finitely often.  In `DialServer`
a process that was sent SIGTERM ends at some time, which is what
`netflix_stop` counts on; a forked child need not be scheduled, and an
application need not end.  In `DialClient` time passes and the client goes on
while it searches; the hosts, the network and the user owe nothing.

## Theorems

`MongoosePoolProofs` proves for any number of workers, connections, slots and
modelled faults that `MongoosePool` keeps `TypeOK`, `RingWithinBounds`,
`TakeFindsSocket`, `MutualExclusion` and `HoldsSockets`.  They depend on each
other: a worker may take a socket because nobody can have emptied the ring
since it looked, which is mutual exclusion; the ring is not left with fewer
sockets than none because it finds one; and what it takes is a socket because
the slots in use hold sockets, which bringing the positions back does not
change (`WrapKeepsSlot`).  Their conjunction `IInv` is inductive.  The proof
has a lemma per thread, a step per action.  The assumptions are those on the
constants (`PoolAssumption`, `FinitelyManyWorkers`), and that the calls whose
result the code ignores succeed: a worker whose `pthread_mutex_lock` failed
(`mongoose.c:774`, `847`) would be in its critical section without the mutex.

The same module proves `CountSafe` and `FreeSafe`: as long as no call
fails, `num_threads` is the number of workers that run, although it is
incremented without the mutex, and the context is freed when all have gone.
`CountInv` says why: before `mg_start` has returned nobody has told the server
to stop, so no worker leaves and no decrement can fall between the load and the
store; and the master gets to "destroy" only by finding the count zero.
`QuietKeepsCountInv` does the steps at which no worker is born, goes or is
counted.

`PoolServiceProofs` proves that `MongoosePool` implements `ConnQueue`
(`ImplementsConnQueue`), and `ServesOne` on the way.  `OnceInv` says that a
connection is in one place at a time: unopened, in the kernel's backlog, in
the master's hand, in one slot of the ring in use, with one worker, or closed.
It needs `SlotsDiffer`: positions in use are less than the size apart, so that
they are different slots, also on both sides of the end of the ring.  Then
each step is mapped: queuing a socket leaves the line of those who wait as it
is (`EnqueueKeepsLine`), taking one takes its head (`ConsumeIsTake`), and a
server that stops drops the connection in hand or the backlog
(`DropIsAbandon`, by `CutMiddle`).

`DialServerProofs` and `DialRequestsProofs` prove every safety invariant of
`DialServer` that a run checks and that holds, for any number of threads,
processes, kinds of requests, origins and calls of the host, from
`DialAssumption` and `PidAssumption` (the identifiers differ, the processes are
finitely many).

* `TypesOK`, `MuxSafe`, `AppsSafe`.  `IInv` is `TypeOK`, `MuxDiscipline` and
  `AppOutlivesHandler` with `Handling`: a thread that is not idle has a
  request, and one in `waitpid` has a process.  An application in use stays
  registered because the host changes the list only when no handler has the
  mutex, which is `MuxDiscipline`, and because `Enter` finds it under the mutex.
* The other three rest on `Shapes`, a case analysis of the steps by what they
  do to the requests and to the process table: the handler goes on, answers,
  launches or receives, or a clone answers.
* `StopSafe`: `StopInv` adds to `StoppedBeforeAnswer` that a process named in
  an answer, or in a handler's `target`, is not a free entry of the table,
  since a fork could otherwise make a running child of it later.
* `WindowSafe`: `WindowInv` says that a thread about to fork Netflix has noted
  every child that is Netflix or is about to be.  It can forget none, since
  only the thread with the mutex forks.
* `AnsweredOnce`: `AnswerInv` adds that no two threads have the same request,
  that an idle thread has none, and that the requests not yet received have
  neither answers nor clones.

`DialClientProofs` proves for any hosts, any number of searches, any input
file and any bounds on the clocks that the client implements `ServerDirectory`
(`ImplementsDirectory`), lists only servers that ran since the search began
(`ListsServersThatWereUp`), uses no deleted server (`UsesNoDeletedServer`) and
judges a test by the headers of its own answers (`VerdictsAreOwn`: be it
the code of the answer or digits of its Location).  Its `IInv` says that
every answer in the socket of the current search comes from a host that has
run since that search began, that the servers found are those heard, that a
server the menu or the tests point at is in the map, and that the codes of a
command are in the headers of answers sent since it began.  The invariants of all these
modules were checked with TLC before they were proved.

`CommandsWork` is about the requests of the client.  `CommandInv` adds to
`CommandWorks` that a stop about to be sent has its end point if the
application runs, which is why a status always comes before it (`StopPath`,
`LaunchPath`).  `AskedIsHandled` says what the server makes of a URL: the query
is cut off at its only question mark (`QueryCutOff`) and decoding leaves the
rest alone (`DecodedLiteral`).  That needs registered names that stand for
themselves (`UrlName`: letters, digits and -._~, such as the names `main.c`
registers, not beginning with two dots): another name is another application
to the server, or none.  The names the client asks for need not be registered
ones, and may have escapes in them.

`RequestServiceProofs` is about one connection after the other and the data,
for any requests, sizes of buffers, pieces and numbers of kills.

* `BodyIsContentHolds`, `ClosedWithAnswerHolds`, `SegmentationIndependentHolds`.
  `ConnInv` says that what is known of the head is what `get_request_len`
  makes of the bytes in the buffer (`HeadFound`), that the position in the
  socket follows from what is buffered and what is consumed (`Consuming`),
  that the handler's buffer is a beginning of the content (`Copied`), that
  without a `recv` that gives up it is all that was asked for (`ReadsAll`), and
  that the answer is then the one to a request that arrives at once (`AsWhole`).
  The heart is `RequestLenOfPrefix`: more bytes do not change where a head
  ends.  `HttpAssumption` says what a request is: only one whose head is
  complete has a content.
* `AnsweredIsStoredHolds`, `NeverMixedHolds`.  `DataInv` says that memory and
  file have, each by itself, the data of one request, in its order or
  reversed.  It rests on `FileRoundTrip`: reading back the file of any list of
  pairs that its lines can hold gives that list, reversed.

`TextProofs` proves what `ServerText` promises for texts, names, paths,
queries and lists of any length, from `TextAssumption`: an application's name
has no space (mongoose's `url_decode` keeps the `+` it is escaped to), no
slash and at most `MaxName` bytes; hosts are labels, ports are digits.

* A recursive function is described by an equation per step (`Recurs`, and
  `Jumps` where a step takes up to three bytes, as an escape does) and shown to
  exist and to be the only one.  The induction is over the numbers of a set
  (`SetInduction`, from the well-foundedness of the naturals): what is to be
  proved of n is made the set of those n.
* `UrlRoundTripHolds`: an escaped text is a sequence of codes of its bytes
  (`IsCoded`), and reading from code to code gives the bytes back.
  `DataForNamedAppHolds` puts such a code between the constant parts of a
  URI (`CodesConcat`).
* `NoParentDirectoryHolds` follows the cleaning from the end of the path to its
  beginning; `PathsReachTheirAppHolds` says which paths it leaves alone
  (`IsClean`) and what they lead to (`PathIs`).
* `EncodedFitsHolds` and `EscapesWholeHolds`: only a quote or an apostrophe
  takes all of the room its own code makes, so that one other byte, anywhere,
  leaves some for the last one (`RoomLeft`).
* `ParamByNameHolds`: the parts of a query are placed in it one after the other
  (`Placed`), so that the first place of a name is in the first part with it.
* `OriginMatchingHolds`: a list of candidates falls into them again
  (`CandidatesOfJoined`), a text falls into host and port at its only colon
  (`PortOf`), and the code, which compares the texts from a dot on, compares
  the labels but the first (`SubdomainMatchesTail`): the documented rules, for a
  wildcard of one label.

`ConnInv`, `DataInv`, `IInv` and `CommandInv` are formulas TLC can evaluate,
and hold on the instances of `server_input` and `client`.

So every safety property that a passing run checks is also proved.  Only
model-checked are the liveness properties (`ServedUnlessStopped`,
`StopHangsOnlyAsleep`, `EventuallyAnswered`, `StoppedIsReaped`, `SearchEnds`):
fairness is stated with ENABLED, which is beyond the prover.

## Where the code and its texts differ, and what the models allow

Besides the `findings`, modelling showed behaviour that no document forbids;
the models have it and no property claims the contrary.

* `receiveResponses` gives `select` a set and a timeout that the call before
  has changed: after one timeout the socket is not looked at again ("deaf"),
  although the client says that it waits for 5 seconds.  A `getServerInfo`
  that is slow uses up the time of the search.  The socket of a search is
  never closed, and the description of a known server never fetched again.
* Only "LOCATION: " in capitals is understood; all servers that write it
  otherwise share one entry with an empty location (`Unlocated`).
* The conformance tests abort if the description of the server is missing
  (`main.cpp:124`), and waking up a server without a MAC address ends the client.
* A test is satisfied by its code anywhere in the headers: by a 201 whose
  Location has a port with 404 in it, if it expects 404. A test of stop is
  satisfied by the 200 of the status request that precedes it; `DELETE` with
  an empty end point is answered 404 by the server.
* A registration with a null list of origins, which `dial_server.h:146` allows,
  returns with the mutex held (`dial_server.c:951`): every later handler blocks,
  and there `dial_requests` ends.  A master that waits for a slot of a full ring
  when the server is stopped sleeps for ever, like the worker of
  `pool_lost_wakeup`: `mg_stop` wakes nobody, and the workers leave without
  taking another socket.
* `run` and `hide` URIs are recognised by their end and their length, whatever
  they begin with, and a name longer than 255 bytes cannot be stopped.
* With a control character in its head, a request is refused or not depending
  on the pieces it comes in.  A content that stops for 500 ms is taken as it
  is, stored and answered 200 or 201.
* A key with a space in it, or a word of more than 255 bytes, is another one
  after a restart; a write that failed is not noticed.
* A text of nothing but quotes and apostrophes loses its last one in the
  status.
* The status is cut to `DIAL_DATA_SIZE` and to the buffer of `mg_printf`, perhaps
  inside an element.
* An origin is checked before the handler takes the mutex: the application may
  by then be registered again with other origins.  A new application's `run_id`
  may make `netflix_status` reap any child.

## Not modelled, and assumptions

* The pthread calls whose result the code ignores succeed (`mongoose.c:774`,
  `779`, `784`, `801`, `847`, `851`); the comment at line 843 knows of one of them.
* `ds_lock`, `ds_unlock`, `malloc` and `strdup` do not fail in `DialServer`.
* stdio writes a file when it is closed: the data of an application have at most
  about 4096 bytes, which is taken to be no more than its buffer.  A buffer that
  is written out earlier would let a killed server leave a part of the new data.
* The buffers that cut the status: what is proved of it is what
  `url_decode_xml_encode` returns for each text.
* The payload kept with an application, and `shouldRelaunch`, whose result is
  only printed; the texts of the answers.  `DIAL_start` and `DIAL_stop` only
  call `mg_start` and `mg_stop`.
* In `DialServer` a data request is one step and a body is read in the step
  that takes the mutex; `RequestService` has the steps of both, for one
  thread.  A connection carries one request: the server does not keep it.
* `isAppRunning` walks `/proc` in one step, and looking for a process and
  killing it is one step; process identifiers are not used again.
* The copy of the server that a failed `execv` leaves only finishes the
  handler it is in.  No thread of it accepts connections; that its one worker
  could go on to the sockets queued at the fork, which its copy of the ring
  still holds, is left out.
* SIGTERM is not sent to the server itself.
* `netflix_start` cannot return `kDIALStatusError`: its buffer has room for a
  payload of the greatest length, encoded.
* Errors of `accept` other than the timeout.
* What `parse_http_request` finds in a complete head is part of the request
  (method, version, headers), not computed from its bytes.
* In the client: the report, the checks of headers and bodies other than the
  response code, the pauses between the tests, the text of the input file, the
  arguments of the command line and the input of the user that is no choice of
  the menu.  A server answers a request in one step, and an answer arrives
  whole or not at all (the code would search headers that were received in part).
* libcurl: it ends the header lines it hands over with a zero byte, which
  `header_cb` counts on, and it sends the bytes of `ClientByte` as they are.
  What it does to spaces, `#` and dot segments (`.`, `..` and their escapes) in a
  name (refuse, cut, resolve) is left out.
* The hardware address in `quick_ssdp.c`, `smartstrncpy`, the unit tests and
  the build files.

## What could come next

An abstract service of DIAL that `DialServer` refines, with the states a
client may see of an application; `DialClient` with requests that `DialServer`
handles in its own steps, so that two clients or a user may come in between;
several connections of `RequestService` at once, each by its own worker.
