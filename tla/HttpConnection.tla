---------------------------- MODULE HttpConnection ----------------------------
(***************************************************************************)
(* server/mongoose.c: one worker thread reads a request from its socket,   *)
(* checks it, lets the handler read the content with mg_read, and discards *)
(* what the handler did not read.  A client may send its bytes in any      *)
(* pieces, stop sending them, or close; recv may then give up after the    *)
(* 500 ms set on the listening socket.  Each connection carries one        *)
(* request.  What the handler does is in RequestService.                   *)
(***************************************************************************)
EXTENDS UrlLib

CONSTANTS
  Requests,      \* what clients may send: records, see RequestType
  BufSize,       \* conn->buf_size
  MaxHeaders,    \* size of ri->http_headers
  DiscardSize,   \* size of discard_buffer
  MaxRequests    \* bound on the connections of a behaviour

Header == [name : {"other", "content-length"}, value : Int]

\* head is the text up to the content, which only follows a head that ends; the
\* other fields up to body are what parse_http_request finds in the head.
RequestType ==
  [head : Seq(Byte), method : {"GET", "POST", "DELETE", "OPTIONS", "PUT"},
   version : {"1.0", "1.1", "2.0", "none"}, headers : Seq(Header),
   query : Seq(Byte), body : Seq(Byte), op : {"start", "data", "status"}]

VARIABLES
  req,           \* the request on the connection, NoRequest before the first
  taken,         \* how many of its bytes the server has received
  data_len,      \* how many of them are in conn->buf
  request_len,   \* length of the head, as get_request_len finds it
  content_len,   \* Content-Length, -1 without one
  consumed,      \* conn->consumed_content
  body,          \* the handler's buffer
  want,          \* the bytes mg_read has still to read
  entry,         \* consumed when mg_read was called
  caller,        \* who called it
  at,            \* control point of the thread
  cut,           \* history: a recv of this connection returned nothing
  replies,       \* the responses sent on this connection
  served         \* connections so far

parseVars == <<req, request_len, content_len, data_len>>
readVars == <<taken, consumed, body, want, entry, caller, cut>>
connVars == <<parseVars, readVars, at, replies, served>>

NoRequest == [head |-> <<>>, method |-> "GET", version |-> "none",
              headers |-> <<>>, query |-> <<>>, body |-> <<>>, op |-> "status"]

ConnInit ==
  /\ req = NoRequest /\ taken = 0 /\ data_len = 0 /\ request_len = 0
  /\ content_len = -1 /\ consumed = 0 /\ body = <<>> /\ want = 0 /\ entry = 0
  /\ caller = "handler" /\ at = "idle" /\ cut = FALSE
  /\ replies = <<>> /\ served = 0

\* All that the client sends.
Stream(r) == r.head \o r.body

Least(m, n) == IF m < n THEN m ELSE n

-------------------------------------------------------------------------------
\* The request.

\* The length of the head if text[i] begins its last line end, 0 otherwise.
HeadEndsAt(text, i) ==
  CASE text[i] = Ch.lf /\ text[i + 1] = Ch.lf -> i + 1
    [] text[i] = Ch.lf /\ i + 2 <= Len(text) /\ text[i + 1] = Ch.cr
         /\ text[i + 2] = Ch.lf -> i + 2
    [] OTHER -> 0

ASSUME HttpAssumption ==
  /\ Requests \subseteq RequestType
  /\ \A r \in Requests : r.body # <<>> =>
       \E i \in 1 .. Len(r.head) - 1 : HeadEndsAt(r.head, i) = Len(r.head)
  /\ BufSize \in Nat \ {0} /\ MaxHeaders \in Nat
  /\ DiscardSize \in Nat \ {0} /\ MaxRequests \in Nat

\* Not printable, and neither a line end nor beyond ASCII.
IsControl(c) == c \notin (32 .. 126) \cup {Ch.lf, Ch.cr} /\ c < 128

\* -1 for a malformed request, 0 for one that is not complete, or the length
\* of its head.  The last byte is not looked at by itself; a control character
\* is forgotten if the end of the head is found after it.
get_request_len(text) ==
  LET ends == {HeadEndsAt(text, i) : i \in 1 .. Len(text) - 1} \ {0}
  IN  IF ends # {} THEN Min(ends)
      ELSE IF \E i \in 1 .. Len(text) - 1 : IsControl(text[i]) THEN -1 ELSE 0

\* process_new_connection: nothing is left of the connection before.
Accept ==
  /\ at = "idle" /\ served < MaxRequests
  /\ req' \in Requests
  /\ taken' = 0 /\ data_len' = 0 /\ request_len' = 0 /\ content_len' = -1
  /\ consumed' = 0 /\ body' = <<>> /\ want' = 0 /\ entry' = 0
  /\ caller' = "handler" /\ cut' = FALSE /\ replies' = <<>>
  /\ at' = "read" /\ served' = served + 1

\* Mutant: only the bytes received last are searched for the end of the head.
ReadNewOnly(n) ==
  /\ at = "read" /\ n \in 1 .. Least(BufSize - data_len, Len(Stream(req)) - taken)
  /\ taken' = taken + n /\ data_len' = data_len + n
  /\ request_len' = LET len == get_request_len(SubSeq(Stream(req), data_len + 1, data_len + n))
                    IN  IF len > 0 THEN data_len + len ELSE len
  /\ at' = IF request_len' = 0 /\ data_len' < BufSize THEN "read" ELSE "parse"
  /\ UNCHANGED <<req, content_len, consumed, body, want, entry, caller, cut,
                 replies, served>>

\* read_request: one recv of n bytes.
Read(n) ==
  /\ at = "read" /\ n \in 1 .. Least(BufSize - data_len, Len(Stream(req)) - taken)
  /\ taken' = taken + n /\ data_len' = data_len + n
  /\ request_len' = get_request_len(SubSeq(Stream(req), 1, data_len + n))
  /\ at' = IF request_len' = 0 /\ data_len' < BufSize THEN "read" ELSE "parse"
  /\ UNCHANGED <<req, content_len, consumed, body, want, entry, caller, cut,
                 replies, served>>

\* recv returns an error, a timeout or the end of the stream.
ReadFails ==
  /\ at = "read"
  /\ cut' = TRUE /\ at' = "parse"
  /\ UNCHANGED <<parseVars, taken, consumed, body, want, entry, caller, replies,
                 served>>

IsValidHttpMethod(method) == method \in {"GET", "POST", "DELETE", "OPTIONS"}

\* The first Content-Length of the headers that were kept, -1 without one.
ContentLength(r) ==
  LET i == SelectInSubSeq(r.headers, 1, Least(Len(r.headers), MaxHeaders),
                          LAMBDA h : h.name = "content-length")
  IN  IF i = 0 THEN -1 ELSE r.headers[i].value

BadContentLength(r) ==
  LET i == SelectInSubSeq(r.headers, 1, Least(Len(r.headers), MaxHeaders),
                          LAMBDA h : h.name = "content-length")
  IN  i # 0 /\ r.headers[i].value < 0

\* Mutant: a request that fills the buffer is closed like one that ended.
RefusalSilent(r, len, buffered) ==
  CASE len <= 0 -> "close"
    [] len > 0 /\ (~IsValidHttpMethod(r.method) \/ r.version = "none") -> "400"
    [] len > 0 /\ IsValidHttpMethod(r.method) /\ r.version = "2.0" -> "505"
    [] OTHER -> IF BadContentLength(r) THEN "400" ELSE ""

\* The response to a request that is not handled, "close" for none, "" if it
\* is handled.
Refusal(r, len, buffered) ==
  CASE len = 0 /\ buffered = BufSize -> "413"
    [] len <= 0 /\ ~(len = 0 /\ buffered = BufSize) -> "close"
    [] len > 0 /\ (~IsValidHttpMethod(r.method) \/ r.version = "none") -> "400"
    [] len > 0 /\ IsValidHttpMethod(r.method) /\ r.version = "2.0" -> "505"
    [] OTHER -> IF BadContentLength(r) THEN "400" ELSE ""

Reply(code) == replies' = Append(replies, code)

\* The request is refused and the connection closed.
Refuse ==
  LET code == Refusal(req, request_len, data_len)
  IN  /\ at = "parse" /\ code # ""
      /\ IF code = "close" THEN UNCHANGED replies ELSE Reply(code)
      /\ at' = "close"
      /\ UNCHANGED <<parseVars, readVars, served>>

\* handle_request calls the handler.
Handle ==
  /\ at = "parse" /\ Refusal(req, request_len, data_len) = ""
  /\ content_len' = ContentLength(req)
  /\ at' = "handler"
  /\ UNCHANGED <<req, request_len, data_len, readVars, replies, served>>

-------------------------------------------------------------------------------
\* The content.

\* mg_read(conn, buf, len) is called.
CallMgRead(who, len) ==
  /\ at' = "mg_read" /\ want' = len /\ entry' = consumed /\ caller' = who
  /\ UNCHANGED <<parseVars, taken, consumed, body, cut, replies, served>>

\* Where mg_read returns to.
Return == IF caller = "handler" THEN "reply" ELSE "discard"

\* n bytes of the stream from its place `from` on go to the caller's buffer.
Fetch(from, n) ==
  /\ body' = IF caller = "handler" THEN body \o SubSeq(Stream(req), from + 1, from + n)
             ELSE body
  /\ consumed' = consumed + n

\* What mg_read may still read: no more than the content has.
Room == IF consumed < content_len THEN Least(want, content_len - consumed) ELSE 0

\* Mutant: the buffered part is taken from the beginning of the content again.
MgReadBufferedAgain ==
  LET buffered == data_len - request_len - consumed
      n == IF buffered > 0 THEN Least(Room, data_len - request_len) ELSE 0
  IN  /\ at = "mg_read"
      /\ Fetch(request_len, n)
      /\ want' = Room - n
      /\ at' = IF want' = 0 THEN Return ELSE "pull"
      /\ UNCHANGED <<parseVars, taken, entry, caller, cut, replies, served>>

\* mg_read first copies what is in the request buffer.
MgReadBuffered ==
  LET buffered == data_len - request_len - consumed
      n == IF buffered > 0 THEN Least(Room, buffered) ELSE 0
  IN  /\ at = "mg_read"
      /\ Fetch(request_len + consumed, n)
      /\ want' = Room - n
      /\ at' = IF want' = 0 THEN Return ELSE "pull"
      /\ UNCHANGED <<parseVars, taken, entry, caller, cut, replies, served>>

\* Then it calls recv until it has all it may read.
Pull(n) ==
  /\ at = "pull" /\ n \in 1 .. Least(want, Len(Stream(req)) - taken)
  /\ Fetch(taken, n)
  /\ taken' = taken + n /\ want' = want - n
  /\ at' = IF want' = 0 THEN Return ELSE "pull"
  /\ UNCHANGED <<parseVars, entry, caller, cut, replies, served>>

\* Or until recv returns nothing: mg_read returns what it has got so far, and
\* its caller cannot tell.  Discarding ends when it has got nothing.
PullFails ==
  /\ at = "pull"
  /\ cut' = TRUE /\ want' = 0
  /\ at' = IF caller = "discard" /\ consumed = entry THEN "close" ELSE Return
  /\ UNCHANGED <<parseVars, taken, consumed, body, entry, caller, replies, served>>

\* discard_current_request_from_buffer: one turn of its loop.
Discard ==
  /\ at = "discard" /\ content_len # -1 /\ consumed < content_len
  /\ CallMgRead("discard", Least(content_len - consumed, DiscardSize))

Discarded ==
  /\ at = "discard" /\ ~(content_len # -1 /\ consumed < content_len)
  /\ at' = "close"
  /\ UNCHANGED <<parseVars, readVars, replies, served>>

\* close_connection: the rest that has arrived is read and dropped.
Close ==
  /\ at = "close" /\ at' = "idle"
  /\ UNCHANGED <<parseVars, readVars, replies, served>>

ConnStep ==
  \/ Accept \/ (\E n \in 1 .. BufSize : Read(n)) \/ ReadFails \/ Refuse \/ Handle
  \/ MgReadBuffered \/ (\E n \in 1 .. want : Pull(n)) \/ PullFails
  \/ Discard \/ Discarded \/ Close
===============================================================================
