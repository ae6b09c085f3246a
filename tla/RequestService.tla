---------------------------- MODULE RequestService ----------------------------
(***************************************************************************)
(* What the server makes of the bytes of a request: HttpConnection calls   *)
(* handle_app_start, handle_app_status or handle_dial_data of              *)
(* server/dial_server.c, which reads the content, keeps and stores the     *)
(* application's data (AppData) and answers.  The server may be killed at  *)
(* any point and started again, the disk may be full, and the host may     *)
(* remove the application and register it again.  One thread, one          *)
(* application: what several threads do is in DialServer.                  *)
(***************************************************************************)
EXTENDS HttpConnection, AppData

CONSTANTS
  MaxPayload,    \* DIAL_MAX_PAYLOAD
  PayloadExtra,  \* what handle_app_start's buffer holds beyond it
  DataMax,       \* DIAL_DATA_MAX_PAYLOAD
  MaxKills,      \* bound on the ends of the server
  MaxDiskFull,   \* bound on the writes that fail
  MaxHostCalls   \* bound on removals and registrations

ASSUME ServiceAssumption ==
  /\ MaxPayload \in Nat /\ PayloadExtra \in Nat \ {0} /\ DataMax \in Nat
  /\ MaxKills \in Nat /\ MaxDiskFull \in Nat /\ MaxHostCalls \in Nat

VARIABLES
  registered,    \* whether the application is in the list
  posted,        \* history: the data of every request that reached the store
  kills, disk_full, host_calls,    \* counters
  damaged        \* history: the file holds a part of what was to be written

dataVars == <<dial_data, file, registered, posted>>
faultVars == <<kills, disk_full, host_calls, damaged>>
vars == <<connVars, dataVars, faultVars>>

Init ==
  /\ ConnInit
  /\ dial_data = <<>> /\ file = NoFile /\ registered = TRUE
  /\ posted = {} /\ kills = 0 /\ disk_full = 0 /\ host_calls = 0
  /\ damaged = FALSE

-------------------------------------------------------------------------------
\* The handlers.

\* isBadPayload
IsBadPayload(text) == \E i \in DOMAIN text : text[i] >= 127 \/ text[i] <= 31

\* A response after which the connection discards the rest of the content.
Answer(code) ==
  /\ Reply(code) /\ at' = "discard"
  /\ UNCHANGED <<parseVars, readVars, served>>

\* The application was removed.
NotFound ==
  /\ at = "handler" /\ ~registered
  /\ Answer("404")
  /\ UNCHANGED <<dataVars, faultVars>>

\* handle_app_status: the data are listed in the response.
Status ==
  /\ at = "handler" /\ registered /\ req.op = "status"
  /\ Answer("200")
  /\ UNCHANGED <<dataVars, faultVars>>

\* handle_app_start and a POST of data read the content.
ReadContent ==
  /\ at = "handler" /\ registered
  /\ \/ req.op = "start" /\ CallMgRead("handler", MaxPayload + PayloadExtra)
     \/ req.op = "data" /\ req.method = "POST" /\ CallMgRead("handler", DataMax)
  /\ UNCHANGED <<dataVars, faultVars>>

\* Any other request for the data has them in its query.
TakeQuery ==
  /\ at = "handler" /\ registered /\ req.op = "data" /\ req.method # "POST"
  /\ IF Len(req.query) > DataMax
     THEN Answer("413")
     ELSE /\ body' = req.query /\ at' = "reply"
          /\ UNCHANGED <<parseVars, taken, consumed, want, entry, caller, cut,
                         replies, served>>
  /\ UNCHANGED <<dataVars, faultVars>>

StartCode(text) ==
  CASE Len(text) > MaxPayload -> "413"
    [] Len(text) <= MaxPayload /\ IsBadPayload(text) -> "400"
    [] OTHER -> "201"

\* handle_app_start goes on: the application is started with the payload.
Start ==
  /\ at = "reply" /\ req.op = "start"
  /\ Answer(StartCode(body))
  /\ UNCHANGED <<dataVars, faultVars>>

\* handle_dial_data goes on.
RefuseData ==
  /\ at = "reply" /\ req.op = "data" /\ IsBadPayload(body)
  /\ Answer("400")
  /\ UNCHANGED <<dataVars, faultVars>>

\* Mutant: the request is answered before the data are stored.
KeepDataAnswered ==
  /\ at = "reply" /\ req.op = "data" /\ ~IsBadPayload(body)
  /\ dial_data' = parse_params(body)
  /\ posted' = posted \cup {parse_params(body)}
  /\ Answer("200")
  /\ UNCHANGED <<file, registered, faultVars>>

\* Mutant: the old data are not freed.
KeepDataToo ==
  /\ at = "reply" /\ req.op = "data" /\ ~IsBadPayload(body)
  /\ dial_data' = parse_params(body) \o dial_data
  /\ posted' = posted \cup {parse_params(body)}
  /\ at' = "store"
  /\ UNCHANGED <<file, registered, parseVars, readVars, replies, served, faultVars>>

\* The old data are freed and the new ones parsed.
KeepData ==
  /\ at = "reply" /\ req.op = "data" /\ ~IsBadPayload(body)
  /\ dial_data' = parse_params(body)
  /\ posted' = posted \cup {parse_params(body)}
  /\ at' = "store"
  /\ UNCHANGED <<file, registered, parseVars, readVars, replies, served,
                 faultVars>>

\* store_dial_data opens the file ...
OpenFile ==
  /\ at = "store" /\ Truncate /\ at' = "write"
  /\ UNCHANGED <<dial_data, registered, posted, parseVars, readVars,
                 replies, served, faultVars>>

\* ... writes it and closes it, and the request is answered.
WriteFile ==
  /\ at = "write" /\ WriteOut /\ damaged' = FALSE
  /\ Answer("200")
  /\ UNCHANGED <<dial_data, registered, posted, kills, disk_full,
                 host_calls>>

DiskFull ==
  /\ at = "write" /\ disk_full < MaxDiskFull /\ WriteOutPart
  /\ disk_full' = disk_full + 1 /\ damaged' = TRUE
  /\ Answer("200")
  /\ UNCHANGED <<dial_data, registered, posted, kills, host_calls>>

-------------------------------------------------------------------------------
\* The end of the server and its start, and the host.

\* The connection and the memory of the server are gone.
Die ==
  /\ at' = "down" /\ kills' = kills + 1
  /\ UNCHANGED <<parseVars, readVars, replies, served, dataVars, disk_full,
                 host_calls, damaged>>

Killed == at # "down" /\ kills < MaxKills /\ Die

\* store_dial_data calls exit(1) if it cannot open the file.
OpenFileFails == at = "store" /\ kills < MaxKills /\ Die

\* The server starts and registers the application.
Restart ==
  /\ at = "down"
  /\ dial_data' = retrieve_dial_data(file) /\ registered' = TRUE
  /\ req' = NoRequest /\ taken' = 0 /\ data_len' = 0 /\ request_len' = 0
  /\ content_len' = -1 /\ consumed' = 0 /\ body' = <<>> /\ want' = 0 /\ entry' = 0
  /\ caller' = "handler" /\ cut' = FALSE /\ replies' = <<>>
  /\ at' = "idle"
  /\ UNCHANGED <<file, posted, served, faultVars>>

\* A handler holds the mutex while it reads the content and stores the data.
MuxFree == \/ at \notin {"mg_read", "pull", "reply", "store", "write", "down"}
           \/ caller = "discard" /\ at \in {"mg_read", "pull"}

\* DIAL_unregister_app and DIAL_register_app of the same name.
Unregister ==
  /\ registered /\ MuxFree /\ host_calls < MaxHostCalls
  /\ registered' = FALSE /\ host_calls' = host_calls + 1
  /\ UNCHANGED <<connVars, dial_data, file, posted, kills, disk_full, damaged>>

Register ==
  /\ ~registered /\ MuxFree
  /\ registered' = TRUE /\ dial_data' = retrieve_dial_data(file)
  /\ UNCHANGED <<connVars, file, posted, faultVars>>

Rest == at = "idle" /\ served = MaxRequests /\ UNCHANGED vars

Handler ==
  \/ NotFound \/ Status \/ ReadContent \/ TakeQuery \/ Start \/ RefuseData
  \/ KeepData \/ OpenFile \/ WriteFile \/ DiskFull

Next ==
  \/ ConnStep /\ UNCHANGED <<dataVars, faultVars>>
  \/ Handler \/ Killed \/ OpenFileFails \/ Restart \/ Unregister \/ Register \/ Rest

Spec == Init /\ [][Next]_vars

-------------------------------------------------------------------------------
\* Properties of the connection.

\* The handler reads the content of its own request and nothing else: its
\* buffer is the beginning of what follows the head, no longer than
\* Content-Length, although a part of it comes from the request buffer and
\* the rest from the socket, in pieces.
BodyIsContent ==
  at \in {"mg_read", "pull", "reply"} /\ req.method = "POST"
    => /\ body = SubSeq(Stream(req), request_len + 1, request_len + Len(body))
       /\ caller = "handler" => Len(body) = consumed
       /\ consumed <= (IF content_len > 0 THEN content_len ELSE 0)
       /\ at = "pull" => taken = request_len + consumed

\* What a request whose bytes all arrive at once is answered, and what its
\* handler reads.
Whole(r) ==
  LET all == SubSeq(Stream(r), 1, Least(BufSize, Len(Stream(r))))
      len == get_request_len(all)
      code == Refusal(r, len, Len(all))
      read(room) == SubSeq(Stream(r), len + 1, len + Least(room, ContentLength(r)))
  IN  CASE code = "close" -> [replies |-> <<>>, body |-> <<>>]
        [] code \notin {"", "close"} -> [replies |-> <<code>>, body |-> <<>>]
        [] code = "" /\ r.op = "status" -> [replies |-> <<"200">>, body |-> <<>>]
        [] code = "" /\ r.op = "start" ->
             LET text == read(MaxPayload + PayloadExtra)
             IN  [replies |-> <<StartCode(text)>>, body |-> text]
        [] OTHER ->
             LET text == IF r.method = "POST" THEN read(DataMax) ELSE r.query
             IN  IF r.method # "POST" /\ Len(text) > DataMax
                 THEN [replies |-> <<"413">>, body |-> <<>>]
                 ELSE [replies |-> << IF IsBadPayload(text) THEN "400" ELSE "200" >>,
                       body |-> text]

\* The answer to a request, and what its handler reads, do not depend on the
\* pieces in which its bytes arrive, if all of them do: pipelined, split in
\* the middle of a line end or larger than a buffer.  (With a control
\* character in the head they do, see get_request_len.)
SegmentationIndependent ==
  at = "idle" /\ ~cut /\ req # NoRequest
    /\ (\A i \in DOMAIN req.head : ~IsControl(req.head[i]))
    => \/ [replies |-> replies, body |-> body] = Whole(req)
       \/ replies = <<"404">> /\ host_calls > 0

\* A response is sent once, and only a connection on which recv gave up, or
\* whose request is malformed, is closed without one.
ClosedWithAnswer ==
  at = "idle" /\ req # NoRequest
    => /\ Len(replies) <= 1
       /\ replies = <<>> => \/ cut /\ request_len = 0
                            \/ request_len = -1

-------------------------------------------------------------------------------
\* Properties of the data.

\* The keys and values that a line of the file can hold: a key may not have a
\* space in it, and neither may be longer than MaxWord.
Storable(data) ==
  \A i \in DOMAIN data :
    /\ Len(data[i].key) <= MaxWord /\ Len(data[i].value) <= MaxWord
    /\ \A j \in DOMAIN data[i].key : data[i].key[j] \notin Blanks

\* A request that was answered is stored: what the file would give a restarted
\* server is what the running one has in memory, perhaps in reverse order,
\* except while a handler stores new data and after a write that failed.
AnsweredIsStored ==
  at \notin {"store", "write", "down"} /\ registered /\ ~damaged /\ Storable(dial_data)
    => dial_data \in {retrieve_dial_data(file), Reverse(retrieve_dial_data(file))}

\* Whatever happened, killed in the middle of a store, removed and registered
\* again, started again, the server has the data of one request, none of them
\* missing and none from another one, or no data: never a mixture.  Only a
\* write that failed can leave one.
NeverMixed ==
  ~damaged /\ registered /\ (\A data \in posted : Storable(data))
    => dial_data \in {<<>>} \cup posted \cup {Reverse(data) : data \in posted}
===============================================================================
