------------------------- MODULE RequestServiceProofs -------------------------
(***************************************************************************)
(* Proofs about RequestService and HttpConnection, for any set of          *)
(* requests, any sizes of the buffers and any number of connections,       *)
(* kills and failing writes.                                               *)
(***************************************************************************)
EXTENDS RequestService, TextLemmas

Ends(text) == {HeadEndsAt(text, i) : i \in 1 .. Len(text) - 1} \ {0}

-------------------------------------------------------------------------------
\* The end of the head.

LEMMA HeadEndsAtType ==
  ASSUME NEW text \in Seq(Byte), NEW i \in 1 .. Len(text) - 1
  PROVE  HeadEndsAt(text, i) \in {0} \cup (i + 1 .. Len(text))
BY DEF HeadEndsAt

LEMMA EndsType ==
  ASSUME NEW text \in Seq(Byte)
  PROVE  Ends(text) \subseteq 1 .. Len(text)
BY HeadEndsAtType DEF Ends

LEMMA RequestLenOfEnds ==
  ASSUME NEW text
  PROVE  get_request_len(text) =
           IF Ends(text) # {} THEN Min(Ends(text))
           ELSE IF \E i \in 1 .. Len(text) - 1 : IsControl(text[i]) THEN -1 ELSE 0
BY DEF get_request_len, Ends

LEMMA FirstEnd ==
  ASSUME NEW text \in Seq(Byte), Ends(text) # {}
  PROVE  /\ get_request_len(text) \in Ends(text)
         /\ \A y \in Ends(text) : get_request_len(text) <= y
BY RequestLenOfEnds, EndsType, MinProperties

LEMMA RequestLenType ==
  ASSUME NEW text \in Seq(Byte)
  PROVE  get_request_len(text) \in -1 .. Len(text)
<1>1. CASE Ends(text) # {}
  BY <1>1, EndsType, FirstEnd
<1>2. CASE Ends(text) = {}
  BY <1>2, RequestLenOfEnds
<1> QED
  BY <1>1, <1>2

\* The head ends in a beginning of the text where it ends in the text.
LEMMA EndsOfPrefix ==
  ASSUME NEW text \in Seq(Byte), NEW n \in 0 .. Len(text)
  PROVE  Ends(SubSeq(text, 1, n)) = Ends(text) \cap (1 .. n)
<1> DEFINE p == SubSeq(text, 1, n)
<1>1. p \in Seq(Byte) /\ Len(p) = n /\ \A i \in 1 .. n : p[i] = text[i]
  OBVIOUS
<1> HIDE DEF p
<1>2. ASSUME NEW i \in 1 .. n - 1, HeadEndsAt(p, i) # 0
      PROVE  HeadEndsAt(text, i) = HeadEndsAt(p, i)
  <2>1. p[i] = text[i] /\ p[i + 1] = text[i + 1] /\ i \in Nat
    BY <1>1
  <2>2. i + 2 <= n => p[i + 2] = text[i + 2] /\ i + 2 <= Len(text)
    BY <1>1
  <2>3. CASE p[i] = Ch.lf /\ p[i + 1] = Ch.lf
    BY <2>1, <2>3 DEF HeadEndsAt, Ch
  <2>4. CASE ~ (p[i] = Ch.lf /\ p[i + 1] = Ch.lf)
    BY <1>1, <1>2, <2>1, <2>2, <2>4 DEF HeadEndsAt, Ch
  <2> QED
    BY <2>3, <2>4
<1>3. ASSUME NEW i \in 1 .. Len(text) - 1, HeadEndsAt(text, i) \in 1 .. n
      PROVE  i \in 1 .. n - 1 /\ HeadEndsAt(p, i) = HeadEndsAt(text, i)
  BY <1>1, <1>3 DEF HeadEndsAt, Ch
<1>4. Ends(p) \subseteq Ends(text) \cap (1 .. n)
  BY <1>1, <1>2, EndsType DEF Ends
<1>5. Ends(text) \cap (1 .. n) \subseteq Ends(p)
  BY <1>1, <1>3 DEF Ends
<1> QED
  BY <1>4, <1>5 DEF p

\* A head that is found when a part of the text has arrived is the one that is
\* found when all of it has.
LEMMA RequestLenOfPrefix ==
  ASSUME NEW text \in Seq(Byte), NEW n \in 0 .. Len(text),
         get_request_len(SubSeq(text, 1, n)) > 0
  PROVE  get_request_len(text) = get_request_len(SubSeq(text, 1, n))
<1> DEFINE p == SubSeq(text, 1, n)
<1>1. Ends(p) # {}
  BY RequestLenOfEnds
<1>2. Ends(p) = Ends(text) \cap (1 .. n) /\ Ends(text) \subseteq 1 .. Len(text)
  BY EndsOfPrefix, EndsType
<1>3. p \in Seq(Byte)
  OBVIOUS
<1> HIDE DEF p
<1>4. /\ get_request_len(p) \in Ends(p)
      /\ \A y \in Ends(p) : get_request_len(p) <= y
      /\ get_request_len(text) \in Ends(text)
      /\ \A y \in Ends(text) : get_request_len(text) <= y
  BY <1>1, <1>2, <1>3, FirstEnd
<1>5. get_request_len(text) \in Ends(p)
  BY <1>2, <1>4
<1> QED
  BY <1>2, <1>4, <1>5 DEF p

Controlled(r) == \E i \in DOMAIN r.head : IsControl(r.head[i])

LEMMA StreamType ==
  ASSUME NEW r \in Requests \cup {NoRequest}
  PROVE  /\ r \in RequestType /\ Stream(r) \in Seq(Byte) /\ Len(Stream(r)) \in Nat
         /\ Len(Stream(r)) = Len(r.head) + Len(r.body)
         /\ \A i \in 1 .. Len(r.head) : Stream(r)[i] = r.head[i]
<1>1. r \in RequestType
  <2>1. <<>> \in Seq(Byte) /\ <<>> \in Seq(Header)
    OBVIOUS
  <2>2. NoRequest \in RequestType
    BY <2>1 DEF NoRequest, RequestType, Byte
  <2> QED
    BY <2>2, HttpAssumption
<1> QED
  BY <1>1 DEF RequestType, Stream, Byte

\* A head without a control character is never taken for a malformed one,
\* whatever part of the request has arrived and whatever its content is.
LEMMA NotMalformedText ==
  ASSUME NEW head \in Seq(Byte), NEW content \in Seq(Byte),
         \A i \in 1 .. Len(head) : ~IsControl(head[i]),
         content # <<>> =>
           \E i \in 1 .. Len(head) - 1 : HeadEndsAt(head, i) = Len(head),
         NEW n \in 0 .. Len(head \o content)
  PROVE  get_request_len(SubSeq(head \o content, 1, n)) # -1
<1> DEFINE s == head \o content
           p == SubSeq(s, 1, n)
<1>1. /\ s \in Seq(Byte) /\ Len(s) = Len(head) + Len(content)
      /\ \A i \in 1 .. Len(head) : s[i] = head[i]
      /\ n <= Len(s) /\ n \in Nat
  OBVIOUS
<1> HIDE DEF s
<1>2. p \in Seq(Byte) /\ Len(p) = n /\ \A i \in 1 .. n : p[i] = s[i]
  BY <1>1
<1> HIDE DEF p
<1> SUFFICES ASSUME get_request_len(p) = -1 PROVE FALSE
  BY DEF s, p
<1>3. Ends(p) = {}
  BY <1>2, FirstEnd, EndsType
<1>4. PICK i \in 1 .. Len(p) - 1 : IsControl(p[i])
  BY <1>3, RequestLenOfEnds
<1>5. i > Len(head)
  <2> DEFINE h == Len(head)
  <2>1. i \in 1 .. n - 1 /\ p[i] = s[i] /\ h \in Nat
    BY <1>1, <1>2
  <2> HIDE DEF h
  <2>2. CASE i <= h
    <3>1. i \in 1 .. h
      BY <2>1, <2>2
    <3>2. s[i] = head[i] /\ ~IsControl(head[i])
      BY <1>1, <3>1 DEF h
    <3> QED
      BY <1>4, <2>1, <3>2
  <2> QED
    BY <1>1, <2>1, <2>2 DEF h
<1>6. content # <<>>
  BY <1>1, <1>2, <1>4, <1>5
<1>7. PICK k \in 1 .. Len(head) - 1 : HeadEndsAt(head, k) = Len(head)
  BY <1>6
<1>8. /\ Len(head) < n /\ k \in 1 .. Len(p) - 1
      /\ \A j \in 1 .. Len(head) : p[j] = head[j]
  <2>1. Len(head) < n /\ Len(head) \in Nat
    BY <1>2, <1>4, <1>5
  <2> QED
    BY <1>1, <1>2, <2>1
<1>9. HeadEndsAt(p, k) = Len(head)
  <2>1. p[k] = head[k] /\ p[k + 1] = head[k + 1] /\ k + 1 <= Len(head)
    <3>1. k \in 1 .. Len(head) /\ k + 1 \in 1 .. Len(head)
      OBVIOUS
    <3> QED
      BY <1>8, <3>1
  <2>2. k + 2 <= Len(head) => p[k + 2] = head[k + 2] /\ k + 2 <= Len(p)
    BY <1>2, <1>8
  <2>3. CASE head[k] = Ch.lf /\ head[k + 1] = Ch.lf
    BY <1>7, <2>1, <2>3 DEF HeadEndsAt, Ch
  <2>4. CASE ~ (head[k] = Ch.lf /\ head[k + 1] = Ch.lf)
    <3>1. /\ k + 2 <= Len(head) /\ head[k] = Ch.lf /\ head[k + 1] = Ch.cr
          /\ head[k + 2] = Ch.lf /\ k + 2 = Len(head)
      BY <1>7, <2>1, <2>4 DEF HeadEndsAt, Ch
    <3> QED
      BY <2>1, <2>2, <3>1 DEF HeadEndsAt, Ch
  <2> QED
    BY <2>3, <2>4
<1>10. HeadEndsAt(p, k) \in Ends(p)
  <2>1. HeadEndsAt(p, k) # 0
    BY <1>7, <1>9
  <2> QED
    BY <1>8, <2>1, Zenon DEF Ends
<1> QED
  BY <1>3, <1>10

LEMMA NotMalformed ==
  ASSUME NEW r \in Requests \cup {NoRequest}, ~Controlled(r),
         NEW n \in 0 .. Len(Stream(r))
  PROVE  get_request_len(SubSeq(Stream(r), 1, n)) # -1
<1>1. r.head \in Seq(Byte) /\ r.body \in Seq(Byte)
  BY StreamType DEF RequestType, Byte
<1>2. r.body # <<>> => \E i \in 1 .. Len(r.head) - 1 : HeadEndsAt(r.head, i) = Len(r.head)
  BY HttpAssumption DEF NoRequest
<1>3. \A i \in 1 .. Len(r.head) : ~IsControl(r.head[i])
  BY <1>1 DEF Controlled
<1>4. n \in 0 .. Len(r.head \o r.body)
  BY DEF Stream
<1> QED
  BY <1>1, <1>2, <1>3, <1>4, NotMalformedText DEF Stream

LEMMA RefusalValues ==
  ASSUME NEW r, NEW len \in Int, NEW buffered
  PROVE  /\ Refusal(r, len, buffered) \in {"413", "close", "400", "505", ""}
         /\ Refusal(r, len, buffered) = "" => len > 0
         /\ Refusal(r, len, buffered) = "close"
              => len <= 0 /\ ~(len = 0 /\ buffered = BufSize)
         /\ \A other : len > 0 => Refusal(r, len, other) = Refusal(r, len, buffered)
<1> DEFINE full(b) == len = 0 /\ b = BufSize
           bad == ~IsValidHttpMethod(r.method) \/ r.version = "none"
           newer == IsValidHttpMethod(r.method) /\ r.version = "2.0"
<1>1. CASE len <= 0
  <2>1. CASE full(buffered)
    BY <1>1, <2>1 DEF Refusal
  <2>2. CASE ~full(buffered)
    <3>1. Refusal(r, len, buffered) = "close"
      BY <1>1, <2>2 DEF Refusal
    <3> QED
      BY <1>1, <2>2, <3>1
  <2> QED
    BY <2>1, <2>2
<1>2. CASE len > 0
  <2>1. CASE bad
    <3>1. \A b : Refusal(r, len, b) = "400"
      BY <1>2, <2>1 DEF Refusal
    <3> QED
      BY <1>2, <3>1
  <2>2. CASE ~bad /\ newer
    <3>1. \A b : Refusal(r, len, b) = "505"
      BY <1>2, <2>2 DEF Refusal
    <3> QED
      BY <1>2, <3>1
  <2>3. CASE ~bad /\ ~newer
    <3>1. CASE BadContentLength(r)
      <4>1. \A b : Refusal(r, len, b) = "400"
        BY <1>2, <2>3, <3>1 DEF Refusal
      <4> QED
        BY <1>2, <4>1
    <3>2. CASE ~BadContentLength(r)
      <4>1. \A b : Refusal(r, len, b) = ""
        BY <1>2, <2>3, <3>2 DEF Refusal
      <4> QED
        BY <1>2, <4>1
    <3> QED
      BY <3>1, <3>2
  <2> QED
    BY <2>1, <2>2, <2>3
<1>3. len <= 0 \/ len > 0
  OBVIOUS
<1> QED
  BY <1>1, <1>2, <1>3, Zenon

LEMMA RefusalOfHead ==
  ASSUME NEW r, NEW len \in Int, len > 0, NEW a, NEW b
  PROVE  Refusal(r, len, a) = Refusal(r, len, b)
<1>1. \A other : len > 0 => Refusal(r, len, other) = Refusal(r, len, b)
  BY RefusalValues
<1> QED
  BY <1>1

LEMMA ContentLengthType ==
  ASSUME NEW r \in RequestType
  PROVE  ContentLength(r) \in Int
<1> DEFINE I == {i \in 1 .. Least(Len(r.headers), MaxHeaders) :
                   r.headers[i].name = "content-length"}
<1>1. r.headers \in Seq(Header) /\ Len(r.headers) \in Nat /\ MaxHeaders \in Nat
  BY HttpAssumption DEF RequestType
<1>2. I \subseteq 1 .. Len(r.headers)
  <2>1. Least(Len(r.headers), MaxHeaders) <= Len(r.headers)
    BY <1>1 DEF Least
  <2>2. I \subseteq 1 .. Least(Len(r.headers), MaxHeaders)
    OBVIOUS
  <2> HIDE DEF I
  <2>3. Least(Len(r.headers), MaxHeaders) \in Nat
    BY <1>1 DEF Least
  <2> QED
    BY <1>1, <2>1, <2>2, <2>3
<1>3. ContentLength(r) = IF (IF I # {} THEN Min(I) ELSE 0) = 0 THEN -1
                         ELSE r.headers[IF I # {} THEN Min(I) ELSE 0].value
  BY DEF ContentLength, SelectInSubSeq
<1> HIDE DEF I
<1>4. I # {} => Min(I) \in 1 .. Len(r.headers)
  <2>1. I \subseteq Nat
    BY <1>1, <1>2
  <2> QED
    BY <1>2, <2>1, MinProperties
<1>5. CASE I # {}
  <2>1. r.headers[Min(I)] \in Header
    BY <1>1, <1>4, <1>5
  <2> QED
    BY <1>3, <1>4, <1>5, <2>1 DEF Header
<1> QED
  BY <1>3, <1>5

-------------------------------------------------------------------------------
\* The inductive invariant of the connection.

StorePoints == {"store", "write"}
Points == {"idle", "read", "parse", "handler", "mg_read", "pull", "reply", "discard",
           "close", "down"} \cup StorePoints

\* The handler has not answered; it has, and its content is being discarded.
Handling ==
  \/ at \in {"handler", "reply"} \cup StorePoints
  \/ at \in {"mg_read", "pull"} /\ caller = "handler"
Discarding ==
  \/ at = "discard"
  \/ at \in {"mg_read", "pull"} /\ caller = "discard"
Over == at \in {"close", "idle"} /\ req # NoRequest

ReplyCodes == {"200", "201", "400", "404", "413", "505"}

\* What the handler asks of mg_read, and how much there is.
TakesQuery(r) == r.op = "data" /\ r.method # "POST"
RoomOf(r) == IF r.op = "start" THEN MaxPayload + PayloadExtra ELSE DataMax
Content(r) == IF ContentLength(r) > 0 THEN ContentLength(r) ELSE 0

Undisturbed == ~cut /\ ~Controlled(req)
AnsweredAsWhole ==
  \/ replies = <<"404">> /\ host_calls > 0
  \/ [replies |-> replies, body |-> body] = Whole(req)

ConnTypes ==
  /\ req \in Requests \cup {NoRequest}
  /\ taken \in Nat /\ data_len \in Nat /\ consumed \in Nat /\ want \in Nat
  /\ request_len \in Int /\ content_len \in Int /\ body \in Seq(Byte)
  /\ at \in Points /\ caller \in {"handler", "discard"} /\ cut \in BOOLEAN
  /\ replies \in Seq(ReplyCodes)

\* What is known of the head is what get_request_len makes of all the bytes
\* in the buffer, and reading ends when it is found, the buffer is full or recv
\* gives up.
HeadFound ==
  /\ data_len <= BufSize /\ data_len <= taken /\ taken <= Len(Stream(req))
  /\ request_len = get_request_len(SubSeq(Stream(req), 1, data_len))
  /\ at \notin {"idle", "down"} => req \in Requests
  /\ at \in {"read", "parse"} => taken = data_len
  /\ at \in {"read", "parse", "handler"} =>
       consumed = 0 /\ body = <<>> /\ caller = "handler"
  /\ at = "read" => request_len = 0 /\ data_len < BufSize /\ ~cut
  /\ at = "parse" => request_len # 0 \/ data_len = BufSize \/ cut

\* Bytes are taken from the socket only when those in the buffer are consumed.
Consuming ==
  Handling \/ Discarding =>
    /\ Refusal(req, request_len, data_len) = "" /\ request_len \in 1 .. data_len
    /\ content_len = ContentLength(req) /\ consumed <= Content(req)
    /\ taken = IF consumed < data_len - request_len THEN data_len
               ELSE request_len + consumed
    /\ at = "pull" => /\ taken = request_len + consumed
                      /\ want > 0 /\ want <= content_len - consumed

\* The handler's buffer is the beginning of the content.
Copied ==
  (Handling \/ Discarding) /\ ~TakesQuery(req) =>
    /\ body = SubSeq(Stream(req), request_len + 1, request_len + Len(body))
    /\ Len(body) <= consumed
    /\ Handling => Len(body) = consumed

\* Who reads what.
Callers ==
  /\ Handling => caller = "handler"
  /\ Handling /\ TakesQuery(req) => at \notin {"mg_read", "pull"}
  /\ at \in {"reply"} \cup StorePoints =>
       /\ req.op # "status"
       /\ TakesQuery(req) => body = req.query /\ Len(body) <= DataMax
  /\ at \in {"mg_read", "pull"} /\ Handling => req.op # "status"
  /\ at \in StorePoints => req.op = "data" /\ ~IsBadPayload(body)

\* Unless recv gives up, the handler gets all it has asked for.
ReadsAll ==
  Handling /\ ~cut /\ ~TakesQuery(req) =>
    /\ at = "mg_read" => consumed = 0 /\ want = RoomOf(req)
    /\ at = "pull" => consumed + want = Least(RoomOf(req), Content(req))
    /\ at \in {"reply"} \cup StorePoints => consumed = Least(RoomOf(req), Content(req))

AnswersOnce ==
  /\ at \in {"read", "parse"} \/ Handling => replies = <<>>
  /\ Discarding => Len(replies) = 1
  /\ Over => /\ Len(replies) <= 1
             /\ replies = <<>> => \/ cut /\ request_len = 0
                                  \/ request_len = -1
  /\ host_calls \in Nat /\ registered \in BOOLEAN /\ (~registered => host_calls > 0)

\* The answer is the one to a request that arrives at once.
AsWhole == (Discarding \/ Over) /\ Undisturbed => AnsweredAsWhole

ConnInv ==
  /\ ConnTypes /\ HeadFound /\ Consuming /\ Copied /\ Callers /\ ReadsAll
  /\ AnswersOnce /\ AsWhole

-------------------------------------------------------------------------------
LEMMA NothingRead ==
  ASSUME NEW r \in Requests \cup {NoRequest}
  PROVE  get_request_len(SubSeq(Stream(r), 1, 0)) = 0 /\ 0 <= Len(Stream(r))
<1> DEFINE text == SubSeq(Stream(r), 1, 0)
<1>1. text \in Seq(Byte) /\ Len(text) = 0 /\ Len(Stream(r)) \in Nat
  BY StreamType
<1> HIDE DEF text
<1>2. get_request_len(text) \in -1 .. 0
  BY <1>1, RequestLenType
<1>3. Ends(text) \subseteq 1 .. 0
  BY <1>1, EndsType
<1>4. Ends(text) = {}
  BY <1>3
<1>5. get_request_len(text) = 0
  BY <1>1, <1>2, <1>4, RequestLenOfEnds
<1> QED
  BY <1>1, <1>5 DEF text

LEMMA InitConnInv == Init => ConnInv
<1> SUFFICES ASSUME Init PROVE ConnInv
  OBVIOUS
<1>1. ConnTypes
  <2>1. body \in Seq(Byte) /\ replies \in Seq(ReplyCodes)
    BY DEF Init, ConnInit
  <2>2. /\ req = NoRequest /\ taken = 0 /\ data_len = 0 /\ request_len = 0
        /\ content_len = -1 /\ consumed = 0 /\ want = 0 /\ at = "idle"
        /\ caller = "handler" /\ cut = FALSE
    BY DEF Init, ConnInit
  <2>3. req \in Requests \cup {NoRequest}
    BY <2>2
  <2>4. taken \in Nat /\ data_len \in Nat /\ consumed \in Nat /\ want \in Nat
    BY <2>2
  <2>5. request_len \in Int /\ content_len \in Int
    BY <2>2
  <2>6. at \in Points /\ caller \in {"handler", "discard"} /\ cut \in BOOLEAN
    BY <2>2 DEF Points
  <2> QED
    BY <2>1, <2>3, <2>4, <2>5, <2>6 DEF ConnTypes
<1>2. get_request_len(SubSeq(Stream(req), 1, 0)) = 0 /\ 0 <= Len(Stream(req))
  BY <1>1, NothingRead DEF ConnTypes
<1> USE DEF Init, ConnInit
<1>3. HeadFound
  BY <1>2, HttpAssumption, StreamType DEF HeadFound
<1> QED
  BY <1>1, <1>3 DEF ConnInv, Consuming, Copied, Callers, ReadsAll, AnswersOnce, AsWhole,
                    Handling, Discarding, Over, StorePoints

LEMMA Sizes ==
  BufSize \in Nat \ {0} /\ DiscardSize \in Nat \ {0} /\ MaxPayload + PayloadExtra \in Nat
  /\ DataMax \in Nat
BY HttpAssumption, ServiceAssumption

LEMMA FirstReply ==
  ASSUME NEW code \in ReplyCodes, replies = <<>>, replies' = Append(replies, code)
  PROVE  /\ replies' = <<code>> /\ replies' \in Seq(ReplyCodes)
         /\ Len(replies') = 1 /\ replies' # <<>>
<1>1. Append(<<>>, code) = <<code>> /\ <<code>> \in Seq(ReplyCodes) /\ Len(<<code>>) = 1
  OBVIOUS
<1>2. replies' = <<code>>
  BY <1>1
<1> QED
  BY <1>1, <1>2

LEMMA StreamOfReq ==
  ASSUME ConnInv
  PROVE  /\ Stream(req) \in Seq(Byte) /\ Len(Stream(req)) \in Nat
         /\ req \in RequestType /\ ContentLength(req) \in Int
         /\ RoomOf(req) \in Nat /\ Content(req) \in Nat
<1>1. req \in Requests \cup {NoRequest}
  BY DEF ConnInv, ConnTypes
<1>2. Stream(req) \in Seq(Byte) /\ req \in RequestType
  BY <1>1, StreamType
<1>3. ContentLength(req) \in Int
  BY <1>2, ContentLengthType
<1>4. RoomOf(req) \in Nat
  BY Sizes DEF RoomOf
<1> QED
  BY <1>2, <1>3, <1>4 DEF Content

headVars == <<req, data_len, request_len>>

LEMMA AcceptKeepsConnInv ==
  ASSUME ConnInv, Accept, UNCHANGED <<registered, host_calls>>
  PROVE  ConnInv'
<1>1. /\ req' \in Requests /\ taken' = 0 /\ data_len' = 0 /\ request_len' = 0
      /\ content_len' = -1 /\ consumed' = 0 /\ body' = <<>> /\ want' = 0
      /\ caller' = "handler" /\ cut' = FALSE /\ replies' = <<>> /\ at' = "read"
  BY DEF Accept
<1>2. ConnTypes'
  <2>1. body' \in Seq(Byte) /\ replies' \in Seq(ReplyCodes)
    BY <1>1
  <2>2. at' \in Points /\ caller' \in {"handler", "discard"} /\ cut' \in BOOLEAN
    BY <1>1 DEF Points
  <2>3. taken' \in Nat /\ data_len' \in Nat /\ consumed' \in Nat /\ want' \in Nat
        /\ request_len' \in Int /\ content_len' \in Int
    BY <1>1
  <2> QED
    BY <1>1, <2>1, <2>2, <2>3 DEF ConnTypes
<1>3. get_request_len(SubSeq(Stream(req'), 1, 0)) = 0 /\ 0 <= Len(Stream(req'))
  BY <1>1, NothingRead
<1>4. HeadFound'
  BY <1>1, <1>3, HttpAssumption DEF HeadFound
<1>5. AnswersOnce'
  BY <1>1 DEF ConnInv, AnswersOnce, Handling, Discarding, Over, StorePoints
<1> QED
  BY <1>1, <1>2, <1>4, <1>5
     DEF ConnInv, Consuming, Copied, Callers, ReadsAll, AsWhole, Handling, Discarding,
         Over, StorePoints

LEMMA ReadKeepsConnInv ==
  ASSUME ConnInv, NEW n \in 1 .. BufSize, Read(n), UNCHANGED <<registered, host_calls>>
  PROVE  ConnInv'
<1> DEFINE text == SubSeq(Stream(req), 1, data_len + n)
<1>1. /\ at = "read" /\ n <= BufSize - data_len /\ n <= Len(Stream(req)) - taken
      /\ taken' = taken + n /\ data_len' = data_len + n
      /\ request_len' = get_request_len(text)
      /\ at' = (IF request_len' = 0 /\ data_len' < BufSize THEN "read" ELSE "parse")
      /\ UNCHANGED <<req, content_len, consumed, body, want, caller, cut, replies>>
  <2>1. Len(Stream(req)) \in Nat /\ taken \in Nat /\ data_len \in Nat /\ BufSize \in Nat
    BY StreamType, HttpAssumption DEF ConnInv, ConnTypes
  <2> QED
    BY <2>1 DEF Read, Least
<1>2. /\ ConnTypes /\ HeadFound /\ AnswersOnce /\ taken = data_len /\ ~cut /\ req \in Requests
      /\ consumed = 0 /\ body = <<>> /\ caller = "handler" /\ replies = <<>>
  BY <1>1 DEF ConnInv, HeadFound, AnswersOnce
<1>3. text \in Seq(Byte) /\ data_len' \in Nat /\ data_len' <= BufSize
      /\ data_len' <= Len(Stream(req))
  <2>1. /\ Stream(req) \in Seq(Byte) /\ data_len \in Nat /\ n \in Nat /\ BufSize \in Nat
        /\ Len(Stream(req)) \in Nat
    BY <1>2, StreamOfReq, Sizes DEF ConnTypes
  <2>2. data_len + n \in 0 .. Len(Stream(req)) /\ data_len + n <= BufSize
    BY <1>1, <1>2, <2>1
  <2> QED
    BY <1>1, <2>1, <2>2
<1>4. request_len' \in Int
  <2> HIDE DEF text
  <2>1. get_request_len(text) \in -1 .. Len(text) /\ Len(text) \in Nat
    BY <1>3, RequestLenType
  <2> QED
    BY <1>1, <2>1
<1> HIDE DEF text
<1>5. ConnTypes'
  <2>1. at' \in Points
    BY <1>1 DEF Points
  <2>2. taken' \in Nat
    BY <1>1, <1>2, <1>3
  <2> QED
    BY <1>1, <1>2, <1>3, <1>4, <2>1, <2>2 DEF ConnTypes
<1>6. HeadFound'
  <2>1. taken' = data_len' /\ taken' <= Len(Stream(req'))
    BY <1>1, <1>2, <1>3
  <2>2. request_len' = get_request_len(SubSeq(Stream(req'), 1, data_len'))
    BY <1>1 DEF text
  <2>3. at' \in {"read", "parse"} /\ (at' = "read" => request_len' = 0 /\ data_len' < BufSize)
        /\ (at' = "parse" => request_len' # 0 \/ data_len' = BufSize)
    BY <1>1, <1>3, HttpAssumption
  <2> QED
    BY <1>1, <1>2, <1>3, <2>1, <2>2, <2>3 DEF HeadFound
<1>7. AnswersOnce'
  BY <1>1, <1>2 DEF AnswersOnce, Handling, Discarding, Over, StorePoints
<1> QED
  BY <1>1, <1>5, <1>6, <1>7
     DEF ConnInv, Consuming, Copied, Callers, ReadsAll, AsWhole, Handling, Discarding,
         Over, StorePoints

LEMMA ReadFailsKeepsConnInv ==
  ASSUME ConnInv, ReadFails, UNCHANGED <<registered, host_calls>>
  PROVE  ConnInv'
<1>1. /\ at = "read" /\ at' = "parse" /\ cut' = TRUE
      /\ UNCHANGED <<headVars, taken, content_len, consumed, body, want, caller, replies>>
  BY DEF ReadFails, parseVars, headVars
<1>2. ConnTypes'
  BY <1>1 DEF ConnInv, ConnTypes, Points, headVars
<1>3. HeadFound'
  BY <1>1 DEF ConnInv, HeadFound, headVars
<1>4. AnswersOnce'
  BY <1>1 DEF ConnInv, AnswersOnce, Handling, Discarding, Over, StorePoints
<1> QED
  BY <1>1, <1>2, <1>3, <1>4
     DEF ConnInv, Consuming, Copied, Callers, ReadsAll, AsWhole, Handling, Discarding,
         Over, StorePoints

-------------------------------------------------------------------------------
\* A request that arrives at once.

AtOnce(r) == SubSeq(Stream(r), 1, Least(BufSize, Len(Stream(r))))

\* The beginning that was read of a request, up to the end of its head or a full
\* buffer, is judged as the whole buffer is.
LEMMA JudgedAsWhole ==
  ASSUME NEW r \in Requests, ~Controlled(r), NEW n \in 0 .. Len(Stream(r)), n <= BufSize,
         NEW len, len = get_request_len(SubSeq(Stream(r), 1, n)),
         len # 0 \/ n = BufSize
  PROVE  /\ get_request_len(AtOnce(r)) = len
         /\ Refusal(r, len, Len(AtOnce(r))) = Refusal(r, len, n)
<1> DEFINE s == Stream(r)
           m == Least(BufSize, Len(s))
           p == SubSeq(s, 1, n)
<1>1. s \in Seq(Byte) /\ Len(s) \in Nat /\ BufSize \in Nat
  <2>1. r \in Requests \cup {NoRequest}
    OBVIOUS
  <2> QED
    BY <2>1, StreamType, Sizes
<1>2. n \in 0 .. m /\ m \in 0 .. Len(s) /\ (n = BufSize => m = n)
  BY <1>1 DEF Least
<1>3. len \in -1 .. n
  <2>1. p \in Seq(Byte) /\ Len(p) = n
    BY <1>1
  <2> QED
    BY <2>1, RequestLenType
<1>4. len # -1
  BY NotMalformed
<1>5. AtOnce(r) = SubSeq(s, 1, m)
  BY DEF AtOnce
<1> HIDE DEF s, m
<1>6. CASE len > 0
  <2> DEFINE all == SubSeq(s, 1, m)
  <2>1. all \in Seq(Byte) /\ Len(all) = m /\ SubSeq(all, 1, n) = p
    BY <1>1, <1>2
  <2> HIDE DEF all, p
  <2>2. get_request_len(all) = get_request_len(p)
    <3>1. get_request_len(SubSeq(all, 1, n)) > 0 /\ n \in 0 .. Len(all)
      BY <1>2, <1>6, <2>1 DEF p, s
    <3> QED
      BY <2>1, <3>1, RequestLenOfPrefix
  <2>3. Refusal(r, len, Len(all)) = Refusal(r, len, n)
    <3>1. len \in Int
      BY <1>3
    <3> QED
      BY <1>6, <3>1, RefusalOfHead, Zenon
  <2> QED
    BY <1>5, <2>2, <2>3 DEF all, p, s
<1>7. CASE len = 0
  BY <1>1, <1>2, <1>5, <1>7 DEF s
<1> QED
  BY <1>3, <1>4, <1>6, <1>7

\* The cases of Whole.
LEMMA WholeCases ==
  ASSUME NEW r, NEW len, NEW code,
         len = get_request_len(AtOnce(r)), code = Refusal(r, len, Len(AtOnce(r))),
         NEW text,
         text = IF TakesQuery(r) THEN r.query
                ELSE SubSeq(Stream(r), len + 1, len + Least(RoomOf(r), ContentLength(r)))
  PROVE  /\ code = "close" => Whole(r) = [replies |-> <<>>, body |-> <<>>]
         /\ code \notin {"close", ""} => Whole(r) = [replies |-> <<code>>, body |-> <<>>]
         /\ code = "" /\ r.op = "status" =>
              Whole(r) = [replies |-> <<"200">>, body |-> <<>>]
         /\ code = "" /\ r.op = "start" =>
              Whole(r) = [replies |-> <<StartCode(text)>>, body |-> text]
         /\ code = "" /\ r.op = "data" =>
              Whole(r) = IF r.method # "POST" /\ Len(text) > DataMax
                         THEN [replies |-> <<"413">>, body |-> <<>>]
                         ELSE [replies |-> << IF IsBadPayload(text) THEN "400" ELSE "200" >>,
                               body |-> text]
<1>1. CASE code = "close"
  BY <1>1 DEF Whole, AtOnce
<1>2. CASE code \notin {"close", ""}
  BY <1>2 DEF Whole, AtOnce
<1>3. CASE code = "" /\ r.op = "status"
  BY <1>3 DEF Whole, AtOnce
<1>4. CASE code = "" /\ r.op = "start"
  BY <1>4 DEF Whole, AtOnce, TakesQuery, RoomOf
<1>5. CASE code = "" /\ r.op = "data"
  BY <1>5 DEF Whole, AtOnce, TakesQuery, RoomOf
<1> QED
  BY <1>1, <1>2, <1>3, <1>4, <1>5

-------------------------------------------------------------------------------
\* The steps after the head was read.

\* Until cut, or with a control character, the request was judged as the whole.
LEMMA JudgedReq ==
  ASSUME ConnInv, at = "parse" \/ Handling \/ Discarding, Undisturbed
  PROVE  /\ get_request_len(AtOnce(req)) = request_len
         /\ Refusal(req, request_len, Len(AtOnce(req))) = Refusal(req, request_len, data_len)
<1>1. /\ req \in Requests /\ data_len \in Nat /\ data_len <= Len(Stream(req))
      /\ data_len <= BufSize
      /\ request_len = get_request_len(SubSeq(Stream(req), 1, data_len))
  <2>1. at \notin {"idle", "down"}
    BY DEF Handling, Discarding, StorePoints
  <2>2. Len(Stream(req)) \in Nat
    BY StreamOfReq
  <2> QED
    BY <2>1, <2>2 DEF ConnInv, HeadFound, ConnTypes
<1>2. request_len # 0 \/ data_len = BufSize
  <2>1. CASE at = "parse"
    BY <2>1 DEF ConnInv, HeadFound, Undisturbed
  <2>2. CASE Handling \/ Discarding
    <3>1. request_len \in 1 .. data_len
      BY <2>2 DEF ConnInv, Consuming
    <3> QED
      BY <3>1
  <2> QED
    BY <2>1, <2>2
<1>3. data_len \in 0 .. Len(Stream(req))
  BY <1>1, StreamOfReq
<1>4. ~Controlled(req)
  BY DEF Undisturbed
<1> QED
  BY <1>1, <1>2, <1>3, <1>4, JudgedAsWhole

LEMMA RefuseKeepsConnInv ==
  ASSUME ConnInv, Refuse, UNCHANGED <<registered, host_calls>>
  PROVE  ConnInv'
<1> DEFINE code == Refusal(req, request_len, data_len)
<1>1. /\ at = "parse" /\ code # "" /\ at' = "close"
      /\ replies' = (IF code = "close" THEN replies ELSE Append(replies, code))
      /\ UNCHANGED <<headVars, taken, content_len, consumed, body, want, caller, cut>>
  BY DEF Refuse, Reply, parseVars, readVars, headVars
<1>2. /\ ConnTypes /\ HeadFound /\ request_len \in Int /\ req \in Requests /\ body = <<>>
      /\ replies = <<>> /\ (request_len # 0 \/ data_len = BufSize \/ cut)
  BY <1>1 DEF ConnInv, HeadFound, AnswersOnce, ConnTypes
<1>3. /\ code \in {"413", "close", "400", "505", ""} /\ code # ""
      /\ code = "close" => request_len <= 0 /\ ~(request_len = 0 /\ data_len = BufSize)
  BY <1>1, <1>2, RefusalValues
<1>4. request_len \in -1 .. data_len
  <2> DEFINE text == SubSeq(Stream(req), 1, data_len)
  <2>1. data_len \in 0 .. Len(Stream(req)) /\ Stream(req) \in Seq(Byte)
    BY <1>2, StreamOfReq DEF HeadFound, ConnTypes
  <2>2. text \in Seq(Byte) /\ Len(text) = data_len
    BY <2>1
  <2> HIDE DEF text
  <2>3. get_request_len(text) \in -1 .. data_len
    BY <2>2, RequestLenType
  <2> QED
    BY <2>3, <1>2 DEF HeadFound, text
<1> HIDE DEF code
<1>5. /\ code = "close" => replies' = <<>>
      /\ code # "close" => replies' = <<code>> /\ replies' # <<>>
      /\ replies' \in Seq(ReplyCodes) /\ Len(replies') <= 1
  <2>1. CASE code = "close"
    <3>1. replies' = <<>>
      BY <1>1, <1>2, <2>1
    <3> QED
      BY <2>1, <3>1
  <2>2. CASE code # "close"
    <3>1. code \in ReplyCodes /\ replies' = Append(replies, code)
      BY <1>1, <1>3, <2>2 DEF ReplyCodes
    <3> QED
      BY <1>2, <2>2, <3>1, FirstReply
  <2> QED
    BY <2>1, <2>2
<1>6. ConnTypes'
  <2>1. replies' \in Seq(ReplyCodes)
    BY <1>5
  <2>2. at' \in Points
    BY <1>1 DEF Points
  <2> QED
    BY <1>1, <1>2, <2>1, <2>2 DEF ConnTypes, headVars
<1>7. HeadFound'
  BY <1>1, <1>2 DEF HeadFound, headVars
<1>8. AnswersOnce'
  <2>1. Len(replies') <= 1
    BY <1>5
  <2>2. replies' = <<>> => (cut /\ request_len = 0) \/ request_len = -1
    <3>1. code # "close" => replies' # <<>>
      BY <1>5
    <3>2. code = "close" => request_len = -1 \/ (request_len = 0 /\ data_len # BufSize)
      <4>1. request_len \in Int /\ data_len \in Nat
        BY <1>2 DEF ConnTypes
      <4>2. request_len = -1 \/ request_len = 0 \/ request_len > 0
        BY <1>4, <4>1
      <4>3. CASE request_len > 0
        BY <1>3, <4>1, <4>3
      <4> QED
        BY <4>2, <4>3, <1>3
    <3> QED
      BY <3>1, <3>2, <1>2, Zenon
  <2> QED
    BY <1>1, <2>1, <2>2
       DEF ConnInv, AnswersOnce, Handling, Discarding, Over, StorePoints, headVars
<1>9. AsWhole'
  <2> SUFFICES ASSUME Undisturbed PROVE AnsweredAsWhole'
    BY <1>1 DEF AsWhole, Undisturbed, headVars
  <2>1. code = Refusal(req, get_request_len(AtOnce(req)), Len(AtOnce(req)))
    BY <1>1, JudgedReq DEF code
  <2>2. /\ code = "close" => Whole(req) = [replies |-> <<>>, body |-> <<>>]
        /\ code \notin {"close", ""} => Whole(req) = [replies |-> <<code>>, body |-> <<>>]
    BY <2>1, WholeCases
  <2>3. [replies |-> replies', body |-> body'] = Whole(req)
    BY <1>1, <1>2, <1>5, <2>2
  <2>4. Whole(req)' = Whole(req)
    BY <1>1 DEF headVars
  <2> QED
    BY <2>3, <2>4 DEF AnsweredAsWhole
<1> QED
  BY <1>1, <1>6, <1>7, <1>8, <1>9
     DEF ConnInv, Consuming, Copied, Callers, ReadsAll, Handling, Discarding, StorePoints

LEMMA HandleKeepsConnInv ==
  ASSUME ConnInv, Handle, UNCHANGED <<registered, host_calls>>
  PROVE  ConnInv'
<1>1. /\ at = "parse" /\ Refusal(req, request_len, data_len) = ""
      /\ content_len' = ContentLength(req) /\ at' = "handler"
      /\ UNCHANGED <<headVars, taken, consumed, body, want, caller, cut, replies>>
  BY DEF Handle, readVars, headVars
<1>2. /\ ConnTypes /\ HeadFound /\ request_len \in Int /\ req \in Requests /\ body = <<>>
      /\ replies = <<>> /\ consumed = 0 /\ caller = "handler" /\ taken = data_len
      /\ data_len \in Nat
  BY <1>1 DEF ConnInv, HeadFound, AnswersOnce, ConnTypes
<1>3. request_len \in 1 .. data_len
  <2> DEFINE text == SubSeq(Stream(req), 1, data_len)
  <2>1. data_len \in 0 .. Len(Stream(req)) /\ Stream(req) \in Seq(Byte)
    BY <1>2, StreamOfReq DEF HeadFound, ConnTypes
  <2>2. text \in Seq(Byte) /\ Len(text) = data_len
    BY <2>1
  <2> HIDE DEF text
  <2>3. get_request_len(text) \in -1 .. data_len
    BY <2>2, RequestLenType
  <2>4. request_len > 0
    BY <1>1, <1>2, RefusalValues
  <2> QED
    BY <2>3, <2>4, <1>2 DEF HeadFound, text
<1>4. ConnTypes'
  <2>1. content_len' \in Int
    BY <1>1, StreamOfReq
  <2> QED
    BY <1>1, <1>2, <2>1 DEF ConnTypes, Points, headVars
<1>5. HeadFound'
  BY <1>1, <1>2 DEF HeadFound, headVars
<1>6. Consuming'
  <2>1. UNCHANGED <<req, data_len, request_len, consumed, taken>>
    BY <1>1 DEF headVars
  <2>2. consumed <= Content(req)
    BY <1>2, StreamOfReq
  <2>3. taken = IF consumed < data_len - request_len THEN data_len
                ELSE request_len + consumed
    BY <1>2, <1>3
  <2> QED
    BY <1>1, <1>3, <2>1, <2>2, <2>3 DEF Consuming, Content
<1>7. Copied'
  <2>1. SubSeq(Stream(req), request_len + 1, request_len + 0) = <<>>
    BY <1>3, StreamOfReq
  <2>2. body' = SubSeq(Stream(req'), request_len' + 1, request_len' + Len(body'))
    BY <1>1, <1>2, <2>1 DEF headVars
  <2>3. Len(body') = 0 /\ consumed' = 0
    BY <1>1, <1>2
  <2> QED
    BY <2>2, <2>3 DEF Copied
<1>8. AnswersOnce'
  BY <1>1, <1>2 DEF ConnInv, AnswersOnce, Handling, Discarding, Over, StorePoints
<1> QED
  BY <1>1, <1>2, <1>4, <1>5, <1>6, <1>7, <1>8
     DEF ConnInv, Callers, ReadsAll, AsWhole, Handling, Discarding, Over, StorePoints

-------------------------------------------------------------------------------
\* The content.

LEMMA Extended ==
  ASSUME NEW s \in Seq(Byte), NEW a \in Nat, NEW k \in Nat, NEW n \in Nat,
         a + k + n <= Len(s)
  PROVE  /\ SubSeq(s, a + 1, a + k) \o SubSeq(s, a + k + 1, a + k + n)
              = SubSeq(s, a + 1, a + (k + n))
         /\ Len(SubSeq(s, a + 1, a + (k + n))) = k + n
         /\ SubSeq(s, a + 1, a + (k + n)) \in Seq(Byte)
<1>1. Len(s) \in Nat /\ a + 1 \in 1 .. Len(s) + 1 /\ a + k \in (a + 1) - 1 .. Len(s)
  OBVIOUS
<1>2. a + k + n \in a + k .. Len(s) /\ a + (k + n) = a + k + n
  BY <1>1
<1>3. SubSeq(s, a + 1, a + k) \o SubSeq(s, (a + k) + 1, a + k + n) = SubSeq(s, a + 1, a + k + n)
  BY <1>1, <1>2, ConcatAdjacentSubSeq
<1>4. /\ Len(SubSeq(s, a + 1, a + (k + n))) = k + n
      /\ SubSeq(s, a + 1, a + (k + n)) \in Seq(Byte)
  BY <1>1
<1> QED
  BY <1>2, <1>3, <1>4

LEMMA FetchedIsContent ==
  ASSUME ConnInv, at \in {"mg_read", "pull"}, NEW n \in Nat, NEW from \in Nat,
         n > 0 => from = request_len + consumed /\ from + n <= Len(Stream(req)),
         Fetch(from, n), UNCHANGED <<req, request_len, caller>>
  PROVE  /\ body' \in Seq(Byte)
         /\ ~TakesQuery(req) =>
              /\ body' = SubSeq(Stream(req), request_len + 1, request_len + Len(body'))
              /\ Len(body') <= consumed'
              /\ caller = "handler" => Len(body') = consumed'
<1>1. /\ Handling \/ Discarding
      /\ caller = "handler" => Handling
      /\ caller = "handler" \/ caller = "discard"
      /\ body \in Seq(Byte) /\ consumed \in Nat /\ request_len \in Nat
      /\ Stream(req) \in Seq(Byte) /\ Len(Stream(req)) \in Nat
  <2>1. caller = "handler" \/ caller = "discard"
    BY DEF ConnInv, ConnTypes
  <2>2. Handling \/ Discarding
    BY <2>1 DEF Handling, Discarding
  <2>3. request_len \in 1 .. data_len /\ body \in Seq(Byte) /\ consumed \in Nat
        /\ data_len \in Nat
    BY <2>2 DEF ConnInv, Consuming, ConnTypes
  <2> QED
    BY <2>1, <2>2, <2>3, StreamOfReq DEF Handling
<1>2. CASE caller = "handler"
  <2> DEFINE s == Stream(req)
             more == SubSeq(s, from + 1, from + n)
  <2>1. body' = body \o more /\ consumed' = consumed + n
    BY <1>2 DEF Fetch
  <2>2. more \in Seq(Byte)
    <3>1. CASE n = 0
      BY <1>1, <3>1
    <3>2. CASE n > 0
      BY <1>1, <3>2
    <3> QED
      BY <3>1, <3>2
  <2>3. body' \in Seq(Byte)
    BY <1>1, <2>1, <2>2
  <2>4. ASSUME ~TakesQuery(req)
        PROVE  /\ body' = SubSeq(s, request_len + 1, request_len + Len(body'))
               /\ Len(body') = consumed'
    <3>1. body = SubSeq(s, request_len + 1, request_len + consumed) /\ Len(body) = consumed
      BY <1>1, <1>2, <2>4 DEF ConnInv, Copied
    <3>2. CASE n = 0
      <4>1. more = <<>>
        BY <1>1, <3>2
      <4>2. body' = body /\ consumed' = consumed
        BY <1>1, <2>1, <3>2, <4>1
      <4> QED
        BY <3>1, <4>2
    <3>3. CASE n > 0
      <4>1. from = request_len + consumed /\ request_len + consumed + n <= Len(s)
        BY <3>3
      <4>2. /\ body' = SubSeq(s, request_len + 1, request_len + (consumed + n))
            /\ Len(body') = consumed + n
        BY <1>1, <2>1, <3>1, <4>1, Extended
      <4> QED
        BY <2>1, <4>2
    <3> QED
      BY <3>2, <3>3
  <2> QED
    <3>1. consumed' \in Nat
      BY <1>1, <2>1
    <3> QED
      BY <2>3, <2>4, <3>1
<1>3. CASE caller = "discard"
  <2>1. body' = body /\ consumed' = consumed + n
    BY <1>3 DEF Fetch
  <2>2. ~TakesQuery(req) =>
          /\ body = SubSeq(Stream(req), request_len + 1, request_len + Len(body))
          /\ Len(body) <= consumed
    BY <1>1 DEF ConnInv, Copied
  <2>3. Len(body) <= consumed => Len(body) <= consumed + n
    BY <1>1
  <2> QED
    BY <1>1, <1>3, <2>1, <2>2, <2>3
<1> QED
  BY <1>1, <1>2, <1>3

\* A step of mg_read.
LEMMA MgReadKeepsConnInv ==
  ASSUME ConnInv, at \in {"mg_read", "pull"}, NEW n \in Nat, NEW from \in Nat,
         n > 0 => from = request_len + consumed /\ from + n <= Len(Stream(req)),
         Fetch(from, n), at' = (IF want' = 0 THEN Return ELSE "pull"),
         want' \in Nat, taken' \in Nat, taken' <= Len(Stream(req)), data_len <= taken',
         UNCHANGED <<headVars, content_len, caller, cut, replies, registered, host_calls>>,
         Consuming', ReadsAll'
  PROVE  ConnInv'
<1>1. /\ caller = "handler" => Handling /\ ~Discarding
      /\ caller = "discard" => Discarding /\ ~Handling
      /\ caller = "handler" \/ caller = "discard"
      /\ at' = (IF want' # 0 THEN "pull" ELSE IF caller = "handler" THEN "reply"
                ELSE "discard")
  <2>1. caller = "handler" \/ caller = "discard"
    BY DEF ConnInv, ConnTypes
  <2> QED
    BY <2>1 DEF Return, Handling, Discarding, StorePoints
<1>2. /\ caller = "handler" => Handling' /\ ~Discarding'
      /\ caller = "discard" => Discarding' /\ ~Handling'
      /\ ~Over' /\ at' \notin StorePoints
  BY <1>1 DEF Handling, Discarding, Over, StorePoints
<1>3. /\ body' \in Seq(Byte)
      /\ ~TakesQuery(req) =>
           /\ body' = SubSeq(Stream(req), request_len + 1, request_len + Len(body'))
           /\ Len(body') <= consumed'
           /\ caller = "handler" => Len(body') = consumed'
  BY FetchedIsContent DEF headVars
<1>4. ConnTypes'
  <2>1. consumed' \in Nat
    BY DEF Fetch, ConnInv, ConnTypes
  <2>2. at' \in Points
    BY <1>1 DEF Points
  <2> QED
    BY <1>3, <2>1, <2>2 DEF ConnInv, ConnTypes, headVars
<1>5. HeadFound'
  BY <1>1 DEF ConnInv, HeadFound, headVars
<1>6. Copied'
  BY <1>1, <1>2, <1>3 DEF Copied, headVars
<1>7. Callers'
  <2>1. caller = "handler" => ~TakesQuery(req) /\ req.op # "status"
    BY <1>1 DEF ConnInv, Callers
  <2> QED
    BY <1>1, <1>2, <2>1 DEF Callers, headVars
<1>8. AnswersOnce'
  <2>1. AnswersOnce
    BY DEF ConnInv
  <2> QED
    BY <1>1, <1>2, <2>1 DEF AnswersOnce
<1>9. AsWhole'
  <2> SUFFICES ASSUME Discarding', Undisturbed' PROVE AnsweredAsWhole'
    BY <1>2 DEF AsWhole
  <2>1. caller = "discard" /\ Discarding /\ Undisturbed
    BY <1>1, <1>2 DEF Undisturbed, headVars
  <2>2. AnsweredAsWhole
    BY <2>1 DEF ConnInv, AsWhole
  <2>3. body' = body
    BY <2>1 DEF Fetch
  <2> QED
    BY <2>2, <2>3 DEF AnsweredAsWhole, headVars
<1> QED
  BY <1>4, <1>5, <1>6, <1>7, <1>8, <1>9 DEF ConnInv

LEMMA MgReadBufferedKeepsConnInv ==
  ASSUME ConnInv, MgReadBuffered, UNCHANGED <<registered, host_calls>>
  PROVE  ConnInv'
<1> DEFINE buffered == data_len - request_len - consumed
           n == IF buffered > 0 THEN Least(Room, buffered) ELSE 0
<1>1. /\ at = "mg_read" /\ Fetch(request_len + consumed, n) /\ consumed' = consumed + n
      /\ want' = Room - n /\ at' = (IF want' = 0 THEN Return ELSE "pull")
      /\ UNCHANGED <<headVars, content_len, taken, caller, cut, replies>>
  BY DEF MgReadBuffered, Fetch, parseVars, headVars
<1>2. /\ consumed \in Nat /\ want \in Nat /\ data_len \in Nat /\ taken \in Nat
      /\ content_len \in Int
      /\ request_len \in 1 .. data_len /\ content_len = ContentLength(req)
      /\ consumed <= Content(req) /\ data_len <= taken /\ taken <= Len(Stream(req))
      /\ taken = IF consumed < data_len - request_len THEN data_len
                 ELSE request_len + consumed
      /\ Len(Stream(req)) \in Nat /\ (Handling \/ Discarding)
  <2>1. Handling \/ Discarding
    BY <1>1 DEF Handling, Discarding, ConnInv, ConnTypes
  <2> QED
    BY <2>1, StreamOfReq DEF ConnInv, ConnTypes, HeadFound, Consuming
<1>3. Room \in Nat /\ Room <= want /\ (Room > 0 => Room <= content_len - consumed)
  BY <1>2 DEF Room, Least
<1>4. n \in Nat /\ n <= Room /\ (n > 0 => n <= buffered) /\ (n < Room => n = buffered \/ buffered <= 0)
  BY <1>2, <1>3 DEF Least
<1> HIDE DEF n
<1>5. n > 0 => request_len + consumed + n <= Len(Stream(req))
  BY <1>2, <1>4
<1>6. want' \in Nat /\ request_len + consumed \in Nat
  BY <1>1, <1>2, <1>3, <1>4
<1>7. Consuming'
  <2>1. Refusal(req, request_len, data_len) = ""
    BY <1>2 DEF ConnInv, Consuming
  <2>2. consumed' <= Content(req)
    BY <1>1, <1>2, <1>3, <1>4 DEF Content
  <2>3. taken = IF consumed' < data_len - request_len THEN data_len
                ELSE request_len + consumed'
    BY <1>1, <1>2, <1>4
  <2>4. want' # 0 => /\ taken = request_len + consumed' /\ want' > 0
                     /\ want' <= content_len - consumed'
    BY <1>1, <1>2, <1>3, <1>4, <1>6
  <2>5. at' = "pull" => want' # 0
    BY <1>1 DEF Return
  <2> QED
    BY <1>1, <1>2, <2>1, <2>2, <2>3, <2>4, <2>5 DEF Consuming, Content, headVars
<1>8. ReadsAll'
  <2> SUFFICES ASSUME Handling', ~cut, ~TakesQuery(req)
               PROVE  /\ at' = "pull" => consumed' + want' = Least(RoomOf(req), Content(req))
                      /\ at' = "reply" => consumed' = Least(RoomOf(req), Content(req))
    BY <1>1 DEF ReadsAll, headVars, Return, StorePoints
  <2>1. caller = "handler" /\ Handling
    BY <1>1 DEF Handling, Return, StorePoints
  <2>2. consumed = 0 /\ want = RoomOf(req)
    BY <1>1, <2>1 DEF ConnInv, ReadsAll
  <2>3. Room = Least(RoomOf(req), Content(req))
    BY <1>2, <2>2, StreamOfReq DEF Room, Least, Content
  <2>4. consumed' + want' = Room
    BY <1>1, <1>2, <1>3, <1>4, <2>2
  <2>5. at' = "reply" => want' = 0
    BY <1>1
  <2> QED
    BY <1>1, <1>2, <1>4, <2>3, <2>4, <2>5
<1> QED
  BY <1>1, <1>2, <1>4, <1>5, <1>6, <1>7, <1>8, MgReadKeepsConnInv

LEMMA PullKeepsConnInv ==
  ASSUME ConnInv, NEW n \in Nat, Pull(n), UNCHANGED <<registered, host_calls>>
  PROVE  ConnInv'
<1>1. /\ at = "pull" /\ n \in 1 .. Least(want, Len(Stream(req)) - taken) /\ Fetch(taken, n)
      /\ consumed' = consumed + n /\ taken' = taken + n
      /\ want' = want - n /\ at' = (IF want' = 0 THEN Return ELSE "pull")
      /\ UNCHANGED <<headVars, content_len, caller, cut, replies>>
  BY DEF Pull, Fetch, parseVars, headVars
<1>2. /\ consumed \in Nat /\ want \in Nat /\ data_len \in Nat /\ taken \in Nat
      /\ content_len \in Int
      /\ request_len \in 1 .. data_len /\ content_len = ContentLength(req)
      /\ data_len <= taken /\ taken <= Len(Stream(req))
      /\ taken = IF consumed < data_len - request_len THEN data_len
                 ELSE request_len + consumed
      /\ taken = request_len + consumed /\ want <= content_len - consumed
      /\ Len(Stream(req)) \in Nat /\ (Handling \/ Discarding)
  <2>1. Handling \/ Discarding
    BY <1>1 DEF Handling, Discarding, ConnInv, ConnTypes
  <2> QED
    BY <1>1, <2>1, StreamOfReq DEF ConnInv, ConnTypes, HeadFound, Consuming
<1>3. n <= want /\ n <= Len(Stream(req)) - taken /\ n > 0
  BY <1>1, <1>2 DEF Least
<1>4. want' \in Nat /\ taken' \in Nat /\ taken' <= Len(Stream(req)) /\ data_len <= taken'
  BY <1>1, <1>2, <1>3
<1>5. Consuming'
  <2>1. Refusal(req, request_len, data_len) = ""
    BY <1>2 DEF ConnInv, Consuming
  <2>2. consumed' <= Content(req)
    BY <1>1, <1>2, <1>3 DEF Content
  <2>3. /\ taken' = IF consumed' < data_len - request_len THEN data_len
                    ELSE request_len + consumed'
        /\ taken' = request_len + consumed' /\ want' <= content_len - consumed'
    BY <1>1, <1>2, <1>3
  <2>4. at' = "pull" => want' > 0
    BY <1>1, <1>4 DEF Return
  <2> QED
    BY <1>1, <1>2, <2>1, <2>2, <2>3, <2>4 DEF Consuming, Content, headVars
<1>6. ReadsAll'
  <2> SUFFICES ASSUME Handling', ~cut, ~TakesQuery(req)
               PROVE  /\ at' = "pull" => consumed' + want' = Least(RoomOf(req), Content(req))
                      /\ at' = "reply" => consumed' = Least(RoomOf(req), Content(req))
    BY <1>1 DEF ReadsAll, headVars, Return, StorePoints
  <2>1. caller = "handler" /\ Handling
    BY <1>1 DEF Handling, Return, StorePoints
  <2>2. consumed + want = Least(RoomOf(req), Content(req))
    BY <1>1, <2>1 DEF ConnInv, ReadsAll
  <2>3. consumed' + want' = consumed + want
    BY <1>1, <1>2
  <2>4. at' = "reply" => want' = 0
    BY <1>1
  <2> QED
    BY <1>1, <1>2, <2>2, <2>3, <2>4
<1> QED
  BY <1>1, <1>2, <1>3, <1>4, <1>5, <1>6, MgReadKeepsConnInv

LEMMA PullFailsKeepsConnInv ==
  ASSUME ConnInv, PullFails, UNCHANGED <<registered, host_calls>>
  PROVE  ConnInv'
<1>1. /\ at = "pull" /\ cut' = TRUE /\ want' = 0
      /\ at' \in {"close", "reply", "discard"}
      /\ at' = "reply" => caller = "handler"
      /\ at' # "reply" => caller = "discard"
      /\ UNCHANGED <<headVars, content_len, taken, consumed, body, caller, replies>>
  <2>1. caller = "handler" \/ caller = "discard"
    BY DEF ConnInv, ConnTypes
  <2> QED
    BY <2>1 DEF PullFails, Return, parseVars, headVars
<1>2. /\ ~Undisturbed'
      /\ Over' => Discarding
      /\ Handling' => Handling /\ at' = "reply"
      /\ Discarding' => Discarding
  BY <1>1 DEF Undisturbed, Over, Handling, Discarding, StorePoints
<1>3. /\ ConnTypes' /\ HeadFound'
  BY <1>1 DEF ConnInv, ConnTypes, HeadFound, Points, headVars
<1>4. Consuming' /\ Copied'
  BY <1>1, <1>2 DEF ConnInv, Consuming, Copied, headVars
<1>5. Callers' /\ ReadsAll'
  <2>1. Handling => ~TakesQuery(req) /\ req.op # "status" /\ caller = "handler"
    BY <1>1 DEF ConnInv, Callers
  <2>2. Callers'
    <3>1. at' = "reply" => Handling
      BY <1>1 DEF Handling
    <3> QED
      BY <1>1, <1>2, <2>1, <3>1 DEF Callers, headVars, StorePoints, TakesQuery
  <2>3. ReadsAll'
    BY <1>1 DEF ReadsAll
  <2> QED
    BY <2>2, <2>3
<1>6. AnswersOnce'
  <2>1. AnswersOnce /\ (Handling' => replies' = <<>>) /\ (Discarding' => Len(replies') = 1)
        /\ (Over' => Len(replies') = 1)
    BY <1>1, <1>2 DEF ConnInv, AnswersOnce
  <2>2. Over' => replies' # <<>> /\ Len(replies') <= 1
    BY <2>1
  <2> QED
    BY <1>1, <2>1, <2>2 DEF AnswersOnce
<1>7. AsWhole'
  BY <1>2, Zenon DEF AsWhole
<1> QED
  BY <1>3, <1>4, <1>5, <1>6, <1>7 DEF ConnInv

LEMMA DiscardKeepsConnInv ==
  ASSUME ConnInv, Discard, UNCHANGED <<registered, host_calls>>
  PROVE  ConnInv'
<1>1. /\ at = "discard" /\ at' = "mg_read" /\ caller' = "discard" /\ want' \in Nat
      /\ UNCHANGED <<headVars, content_len, taken, consumed, body, cut, replies>>
  <2>1. /\ at = "discard" /\ at' = "mg_read" /\ caller' = "discard"
        /\ consumed < content_len /\ want' = Least(content_len - consumed, DiscardSize)
        /\ UNCHANGED <<headVars, content_len, taken, consumed, body, cut, replies>>
    BY DEF Discard, CallMgRead, parseVars, headVars
  <2>2. content_len \in Int /\ consumed \in Nat /\ DiscardSize \in Nat
    BY Sizes DEF ConnInv, ConnTypes
  <2> QED
    BY <2>1, <2>2 DEF Least
<1>2. Discarding /\ Discarding' /\ ~Handling' /\ ~Over'
  BY <1>1 DEF Over, Handling, Discarding, StorePoints
<1>3. /\ ConnTypes' /\ HeadFound'
  BY <1>1 DEF ConnInv, ConnTypes, HeadFound, Points, headVars
<1>4. Consuming' /\ Copied'
  BY <1>1, <1>2 DEF ConnInv, Consuming, Copied, headVars
<1>5. Callers' /\ ReadsAll'
  BY <1>1, <1>2 DEF Callers, ReadsAll, StorePoints
<1>6. AnswersOnce'
  BY <1>1, <1>2 DEF ConnInv, AnswersOnce, headVars
<1>7. AsWhole'
  BY <1>1, <1>2 DEF ConnInv, AsWhole, AnsweredAsWhole, Undisturbed, headVars
<1> QED
  BY <1>3, <1>4, <1>5, <1>6, <1>7 DEF ConnInv

LEMMA EndKeepsConnInv ==
  ASSUME ConnInv, Discarded \/ Close, UNCHANGED <<registered, host_calls>>
  PROVE  ConnInv'
<1>1. /\ at = "discard" \/ at = "close"
      /\ at' = (IF at = "discard" THEN "close" ELSE "idle")
      /\ UNCHANGED <<headVars, content_len, taken, consumed, want, caller, body, cut, replies>>
  <2>1. CASE Discarded
    BY <2>1 DEF Discarded, parseVars, readVars, headVars
  <2>2. CASE Close
    BY <2>2 DEF Close, parseVars, readVars, headVars
  <2> QED
    BY <2>1, <2>2
<1>2. ~Discarding' /\ ~Handling' /\ (Over' => Discarding \/ Over)
  BY <1>1 DEF Over, Handling, Discarding, StorePoints, headVars
<1>3. /\ ConnTypes' /\ HeadFound'
  BY <1>1 DEF ConnInv, ConnTypes, HeadFound, Points, headVars
<1>4. Consuming' /\ Copied'
  BY <1>2 DEF Consuming, Copied
<1>5. Callers' /\ ReadsAll'
  BY <1>1, <1>2 DEF Callers, ReadsAll, StorePoints
<1>6. AnswersOnce'
  <2>1. AnswersOnce /\ (Discarding => replies # <<>> /\ Len(replies) <= 1)
    <3>1. AnswersOnce
      BY DEF ConnInv
    <3>2. Len(replies) = 1 => replies # <<>> /\ Len(replies) <= 1
      OBVIOUS
    <3> QED
      BY <3>1, <3>2 DEF AnswersOnce
  <2> QED
    BY <1>1, <1>2, <2>1 DEF AnswersOnce, headVars
<1>7. AsWhole'
  BY <1>1, <1>2 DEF ConnInv, AsWhole, AnsweredAsWhole, Undisturbed, headVars
<1> QED
  BY <1>3, <1>4, <1>5, <1>6, <1>7 DEF ConnInv

-------------------------------------------------------------------------------
\* The handler.

\* What a handler that nothing has disturbed answers is what Whole says.
LEMMA AnswerOfWhole ==
  ASSUME ConnInv, at \in {"handler", "reply"} \cup StorePoints, Undisturbed
  PROVE  /\ at = "handler" /\ req.op = "status" =>
              Whole(req) = [replies |-> <<"200">>, body |-> body]
         /\ at = "handler" /\ TakesQuery(req) /\ Len(req.query) > DataMax =>
              Whole(req) = [replies |-> <<"413">>, body |-> body]
         /\ at = "reply" /\ req.op = "start" =>
              Whole(req) = [replies |-> <<StartCode(body)>>, body |-> body]
         /\ at \in {"reply"} \cup StorePoints /\ req.op = "data" =>
              Whole(req) = [replies |-> << IF IsBadPayload(body) THEN "400" ELSE "200" >>,
                            body |-> body]
<1> DEFINE text == IF TakesQuery(req) THEN req.query
                   ELSE SubSeq(Stream(req), request_len + 1,
                               request_len + Least(RoomOf(req), ContentLength(req)))
<1>1. Handling /\ at \notin {"mg_read", "pull"}
  BY DEF Handling, StorePoints
<1>2. Refusal(req, request_len, Len(AtOnce(req))) = "" /\ request_len = get_request_len(AtOnce(req))
  BY <1>1, JudgedReq DEF ConnInv, Consuming
<1>3. /\ req.op = "status" => Whole(req) = [replies |-> <<"200">>, body |-> <<>>]
      /\ req.op = "start" => Whole(req) = [replies |-> <<StartCode(text)>>, body |-> text]
      /\ req.op = "data" =>
           Whole(req) = IF req.method # "POST" /\ Len(text) > DataMax
                        THEN [replies |-> <<"413">>, body |-> <<>>]
                        ELSE [replies |-> << IF IsBadPayload(text) THEN "400" ELSE "200" >>,
                              body |-> text]
  <2> DEFINE len == request_len
             code == Refusal(req, len, Len(AtOnce(req)))
  <2>1. code = "" /\ len = get_request_len(AtOnce(req))
    BY <1>2
  <2>2. /\ code = "" /\ req.op = "status" =>
             Whole(req) = [replies |-> <<"200">>, body |-> <<>>]
        /\ code = "" /\ req.op = "start" =>
             Whole(req) = [replies |-> <<StartCode(text)>>, body |-> text]
        /\ code = "" /\ req.op = "data" =>
             Whole(req) = IF req.method # "POST" /\ Len(text) > DataMax
                          THEN [replies |-> <<"413">>, body |-> <<>>]
                          ELSE [replies |-> << IF IsBadPayload(text) THEN "400" ELSE "200" >>,
                                body |-> text]
    BY <2>1, WholeCases
  <2> QED
    BY <2>1, <2>2
<1>4. at = "handler" => body = <<>>
  BY DEF ConnInv, HeadFound
<1>5. at \in {"reply"} \cup StorePoints /\ TakesQuery(req) =>
        body = text /\ Len(text) <= DataMax
  BY DEF ConnInv, Callers
<1>6. at \in {"reply"} \cup StorePoints /\ ~TakesQuery(req) => body = text
  <2> SUFFICES ASSUME at \in {"reply"} \cup StorePoints, ~TakesQuery(req)
               PROVE  body = SubSeq(Stream(req), request_len + 1,
                                    request_len + Least(RoomOf(req), ContentLength(req)))
    OBVIOUS
  <2>1. /\ body = SubSeq(Stream(req), request_len + 1,
                         request_len + Least(RoomOf(req), Content(req)))
    BY <1>1 DEF ConnInv, Copied, ReadsAll, Undisturbed
  <2>2. request_len \in Int
    BY DEF ConnInv, ConnTypes
  <2>3. CASE ContentLength(req) > 0
    BY <2>1, <2>3 DEF Content
  <2>4. CASE ~ (ContentLength(req) > 0)
    <3>1. Least(RoomOf(req), Content(req)) = 0 /\ Least(RoomOf(req), ContentLength(req)) <= 0
          /\ Least(RoomOf(req), ContentLength(req)) \in Int
      BY <2>4, StreamOfReq DEF Content, Least
    <3> DEFINE m == Least(RoomOf(req), ContentLength(req))
    <3>2. request_len + m < request_len + 1 /\ request_len + m \in Int
          /\ request_len + 0 < request_len + 1 /\ request_len + 1 \in Int
      BY <2>2, <3>1
    <3>3. SubSeq(Stream(req), request_len + 1, request_len + m) = <<>>
      BY <3>2, SubSeqEmpty
    <3>4. SubSeq(Stream(req), request_len + 1, request_len + 0) = <<>>
      BY <2>2, <3>2, SubSeqEmpty
    <3> QED
      BY <2>1, <3>1, <3>3, <3>4
  <2> QED
    BY <2>3, <2>4
<1> HIDE DEF text
<1>7. TakesQuery(req) => text = req.query /\ req.op = "data" /\ req.method # "POST"
  BY DEF text, TakesQuery
<1>8. ASSUME at = "handler", TakesQuery(req), Len(req.query) > DataMax
      PROVE  Whole(req) = [replies |-> <<"413">>, body |-> body]
  BY <1>3, <1>4, <1>7, <1>8
<1>9. ASSUME at \in {"reply"} \cup StorePoints, req.op = "data"
      PROVE  Whole(req) = [replies |-> << IF IsBadPayload(body) THEN "400" ELSE "200" >>,
                           body |-> body]
  <2>1. body = text
    BY <1>5, <1>6, <1>9
  <2>2. ~ (req.method # "POST" /\ Len(text) > DataMax)
    <3>1. CASE TakesQuery(req)
      <4>1. Len(text) <= DataMax /\ Len(text) \in Nat /\ DataMax \in Nat
        BY <1>5, <1>9, <2>1, <3>1, Sizes DEF ConnInv, ConnTypes
      <4> QED
        BY <4>1
    <3>2. CASE ~TakesQuery(req)
      BY <1>9, <3>2 DEF TakesQuery
    <3> QED
      BY <3>1, <3>2
  <2> QED
    BY <1>3, <1>9, <2>1, <2>2, Zenon
<1> QED
  BY <1>3, <1>4, <1>5, <1>6, <1>8, <1>9

LEMMA AnswerKeepsConnInv ==
  ASSUME ConnInv, at \in {"handler", "reply"} \cup StorePoints,
         NEW code \in ReplyCodes, Answer(code), UNCHANGED <<registered, host_calls>>,
         Undisturbed => \/ Whole(req) = [replies |-> <<code>>, body |-> body]
                        \/ code = "404" /\ host_calls > 0
  PROVE  ConnInv'
<1>1. /\ at' = "discard" /\ replies' = Append(replies, code)
      /\ UNCHANGED <<headVars, content_len, taken, consumed, want, body, caller, cut>>
  BY DEF Answer, Reply, parseVars, readVars, headVars
<1>2. Handling /\ Discarding' /\ ~Handling' /\ ~Over'
  BY <1>1 DEF Handling, Discarding, Over, StorePoints
<1>3. replies = <<>>
  BY <1>2 DEF ConnInv, AnswersOnce
<1>4. replies' = <<code>> /\ replies' \in Seq(ReplyCodes) /\ Len(replies') = 1
  BY <1>1, <1>3, FirstReply
<1>5. ConnTypes'
  <2>1. at' \in Points
    BY <1>1 DEF Points
  <2> QED
    BY <1>1, <1>4, <2>1 DEF ConnInv, ConnTypes, headVars
<1>6. HeadFound'
  BY <1>1 DEF ConnInv, HeadFound, headVars, StorePoints
<1>7. Consuming' /\ Copied'
  BY <1>1, <1>2 DEF ConnInv, Consuming, Copied, headVars
<1>8. Callers' /\ ReadsAll'
  BY <1>1, <1>2 DEF Callers, ReadsAll, StorePoints
<1>9. AnswersOnce'
  <2>1. host_calls \in Nat /\ registered \in BOOLEAN /\ (~registered => host_calls > 0)
    BY DEF ConnInv, AnswersOnce
  <2> QED
    BY <1>1, <1>2, <1>4, <2>1 DEF AnswersOnce
<1>10. AsWhole'
  <2> SUFFICES ASSUME Undisturbed PROVE AnsweredAsWhole'
    BY <1>1 DEF AsWhole, Undisturbed, headVars
  <2>1. Whole(req)' = Whole(req)
    BY <1>1 DEF headVars
  <2> QED
    BY <1>1, <1>4, <2>1 DEF AnsweredAsWhole
<1> QED
  BY <1>5, <1>6, <1>7, <1>8, <1>9, <1>10 DEF ConnInv

LEMMA StartCodeValues ==
  ASSUME NEW text \in Seq(Byte)
  PROVE  StartCode(text) \in ReplyCodes
<1>1. Len(text) \in Nat /\ MaxPayload \in Nat
  BY ServiceAssumption
<1>2. CASE Len(text) > MaxPayload
  BY <1>1, <1>2 DEF StartCode, ReplyCodes
<1>3. CASE Len(text) <= MaxPayload /\ IsBadPayload(text)
  BY <1>1, <1>3 DEF StartCode, ReplyCodes
<1>4. CASE Len(text) <= MaxPayload /\ ~IsBadPayload(text)
  BY <1>1, <1>4 DEF StartCode, ReplyCodes
<1> QED
  BY <1>1, <1>2, <1>3, <1>4

\* The step of a handler that goes on from `at` without answering.
LEMMA GoOnKeepsConnInv ==
  ASSUME ConnInv, at \in {"reply", "store"}, at' \in StorePoints, req.op = "data",
         ~IsBadPayload(body),
         UNCHANGED <<parseVars, readVars, replies, registered, host_calls>>
  PROVE  ConnInv'
<1>1. UNCHANGED <<headVars, content_len, taken, consumed, want, body, caller, cut, replies,
                  registered, host_calls>>
  BY DEF parseVars, readVars, headVars
<1>2. Handling /\ Handling' /\ ~Discarding' /\ ~Over'
  BY DEF Handling, Discarding, Over, StorePoints
<1>3. ConnTypes'
  BY <1>1 DEF ConnInv, ConnTypes, Points, headVars
<1>4. HeadFound'
  BY <1>1 DEF ConnInv, HeadFound, headVars, StorePoints
<1>5. Consuming' /\ Copied'
  BY <1>1, <1>2 DEF ConnInv, Consuming, Copied, headVars, StorePoints
<1>6. Callers' /\ ReadsAll'
  <2>1. TakesQuery(req) => body = req.query /\ Len(body) <= DataMax
    BY DEF ConnInv, Callers, StorePoints
  <2>2. caller = "handler"
    BY <1>2 DEF ConnInv, Callers
  <2>3. ~cut /\ ~TakesQuery(req) => consumed = Least(RoomOf(req), Content(req))
    BY <1>2 DEF ConnInv, ReadsAll, StorePoints
  <2>4. IsBadPayload(body)' = IsBadPayload(body) /\ req.op # "status"
    BY <1>1
  <2>5. Callers'
    BY <1>1, <2>1, <2>2, <2>4 DEF Callers, headVars, StorePoints
  <2>6. ReadsAll'
    BY <1>1, <2>3 DEF ReadsAll, headVars, StorePoints
  <2> QED
    BY <2>5, <2>6
<1>7. AnswersOnce'
  BY <1>1, <1>2 DEF ConnInv, AnswersOnce
<1>8. AsWhole'
  BY <1>2 DEF AsWhole
<1> QED
  BY <1>3, <1>4, <1>5, <1>6, <1>7, <1>8 DEF ConnInv

LEMMA ReadContentKeepsConnInv ==
  ASSUME ConnInv, ReadContent
  PROVE  ConnInv'
<1>1. /\ at = "handler" /\ at' = "mg_read" /\ caller' = "handler" /\ want' = RoomOf(req)
      /\ ~TakesQuery(req) /\ req.op # "status"
      /\ UNCHANGED <<headVars, content_len, taken, consumed, body, cut, replies,
                     registered, host_calls>>
  BY DEF ReadContent, CallMgRead, RoomOf, TakesQuery, parseVars, headVars, dataVars, faultVars
<1>2. Handling /\ Handling' /\ ~Discarding' /\ ~Over'
  BY <1>1 DEF Handling, Discarding, Over, StorePoints
<1>3. ConnTypes'
  <2>1. want' \in Nat
    BY <1>1, StreamOfReq
  <2> QED
    BY <1>1, <2>1 DEF ConnInv, ConnTypes, Points, headVars
<1>4. HeadFound'
  BY <1>1 DEF ConnInv, HeadFound, headVars
<1>5. Consuming' /\ Copied'
  BY <1>1, <1>2 DEF ConnInv, Consuming, Copied, headVars
<1>6. Callers' /\ ReadsAll'
  <2>1. consumed = 0
    BY <1>1 DEF ConnInv, HeadFound
  <2> QED
    BY <1>1, <2>1 DEF Callers, ReadsAll, headVars, StorePoints, TakesQuery, RoomOf
<1>7. AnswersOnce'
  BY <1>1, <1>2 DEF ConnInv, AnswersOnce
<1>8. AsWhole'
  BY <1>2 DEF AsWhole
<1> QED
  BY <1>3, <1>4, <1>5, <1>6, <1>7, <1>8 DEF ConnInv

LEMMA TakeQueryKeepsConnInv ==
  ASSUME ConnInv, TakeQuery
  PROVE  ConnInv'
<1>1. CASE Len(req.query) > DataMax
  <2>1. /\ at = "handler" /\ Answer("413") /\ TakesQuery(req)
        /\ UNCHANGED <<registered, host_calls>>
    BY <1>1 DEF TakeQuery, TakesQuery, dataVars, faultVars
  <2>2. Undisturbed => Whole(req) = [replies |-> <<"413">>, body |-> body]
    BY <1>1, <2>1, AnswerOfWhole
  <2>3. "413" \in ReplyCodes
    BY DEF ReplyCodes
  <2> QED
    BY <2>1, <2>2, <2>3, AnswerKeepsConnInv
<1>2. CASE ~ (Len(req.query) > DataMax)
  <2>1. /\ at = "handler" /\ at' = "reply" /\ body' = req.query /\ TakesQuery(req)
        /\ req.op = "data"
        /\ UNCHANGED <<headVars, content_len, taken, consumed, want, caller, cut, replies,
                       registered, host_calls>>
    BY <1>2 DEF TakeQuery, TakesQuery, parseVars, headVars, dataVars, faultVars
  <2>2. Handling /\ Handling' /\ ~Discarding' /\ ~Over'
    BY <2>1 DEF Handling, Discarding, Over, StorePoints
  <2>3. body' \in Seq(Byte) /\ Len(body') <= DataMax
    <3>1. req \in RequestType /\ DataMax \in Nat
      BY StreamOfReq, Sizes
    <3>2. req.query \in Seq(Byte)
      BY <3>1 DEF RequestType, Byte
    <3> QED
      BY <1>2, <2>1, <3>1, <3>2
  <2>4. ConnTypes'
    BY <2>1, <2>3 DEF ConnInv, ConnTypes, Points, headVars
  <2>5. HeadFound'
    BY <2>1 DEF ConnInv, HeadFound, headVars
  <2>6. Consuming' /\ Copied' /\ ReadsAll'
    BY <2>1, <2>2 DEF ConnInv, Consuming, Copied, ReadsAll, headVars, TakesQuery
  <2>7. Callers'
    <3>1. caller = "handler"
      BY <2>2 DEF ConnInv, Callers
    <3> QED
      BY <2>1, <2>3, <3>1 DEF Callers, headVars, StorePoints
  <2>8. AnswersOnce'
    BY <2>1, <2>2 DEF ConnInv, AnswersOnce
  <2>9. AsWhole'
    BY <2>2 DEF AsWhole
  <2> QED
    BY <2>4, <2>5, <2>6, <2>7, <2>8, <2>9 DEF ConnInv
<1> QED
  BY <1>1, <1>2

LEMMA HandlerKeepsConnInv ==
  ASSUME ConnInv, Handler
  PROVE  ConnInv'
<1> USE DEF dataVars, faultVars
<1>0. /\ "200" \in ReplyCodes /\ "400" \in ReplyCodes /\ "404" \in ReplyCodes
  BY DEF ReplyCodes
<1>1. CASE NotFound
  <2>1. at = "handler" /\ ~registered /\ Answer("404") /\ UNCHANGED <<registered, host_calls>>
    BY <1>1 DEF NotFound
  <2>2. host_calls > 0
    BY <2>1 DEF ConnInv, AnswersOnce
  <2> QED
    BY <1>0, <2>1, <2>2, AnswerKeepsConnInv
<1>2. CASE Status
  <2>1. /\ at = "handler" /\ req.op = "status" /\ Answer("200")
        /\ UNCHANGED <<registered, host_calls>>
    BY <1>2 DEF Status
  <2>2. Undisturbed => Whole(req) = [replies |-> <<"200">>, body |-> body]
    BY <2>1, AnswerOfWhole
  <2> QED
    BY <1>0, <2>1, <2>2, AnswerKeepsConnInv
<1>3. CASE ReadContent
  BY <1>3, ReadContentKeepsConnInv
<1>4. CASE TakeQuery
  BY <1>4, TakeQueryKeepsConnInv
<1>5. CASE Start
  <2>1. /\ at = "reply" /\ req.op = "start" /\ Answer(StartCode(body))
        /\ UNCHANGED <<registered, host_calls>>
    BY <1>5 DEF Start
  <2>2. Undisturbed => Whole(req) = [replies |-> <<StartCode(body)>>, body |-> body]
    BY <2>1, AnswerOfWhole
  <2>3. StartCode(body) \in ReplyCodes
    BY StartCodeValues DEF ConnInv, ConnTypes
  <2> QED
    BY <2>1, <2>2, <2>3, AnswerKeepsConnInv
<1>6. CASE RefuseData
  <2>1. /\ at = "reply" /\ req.op = "data" /\ IsBadPayload(body) /\ Answer("400")
        /\ UNCHANGED <<registered, host_calls>>
    BY <1>6 DEF RefuseData
  <2>2. Undisturbed => Whole(req) = [replies |-> <<"400">>, body |-> body]
    BY <2>1, AnswerOfWhole
  <2> QED
    BY <1>0, <2>1, <2>2, AnswerKeepsConnInv
<1>7. CASE KeepData
  <2>1. at = "reply" /\ at' = "store" /\ req.op = "data" /\ ~IsBadPayload(body)
    BY <1>7 DEF KeepData
  <2>2. UNCHANGED <<parseVars, readVars, replies, registered, host_calls>>
    BY <1>7 DEF KeepData
  <2> QED
    BY <2>1, <2>2, GoOnKeepsConnInv DEF StorePoints
<1>8. CASE OpenFile
  <2>1. at = "store" /\ at' = "write"
    BY <1>8 DEF OpenFile
  <2>2. UNCHANGED <<parseVars, readVars, replies, registered, host_calls>>
    BY <1>8 DEF OpenFile
  <2>3. req.op = "data" /\ ~IsBadPayload(body)
    BY <2>1 DEF ConnInv, Callers, StorePoints
  <2> QED
    BY <2>1, <2>2, <2>3, GoOnKeepsConnInv DEF StorePoints
<1>9. CASE WriteFile \/ DiskFull
  <2>1. at = "write" /\ Answer("200") /\ UNCHANGED <<registered, host_calls>>
    BY <1>9 DEF WriteFile, DiskFull
  <2>2. req.op = "data" /\ ~IsBadPayload(body)
    BY <2>1 DEF ConnInv, Callers, StorePoints
  <2>3. Undisturbed => Whole(req) = [replies |-> <<"200">>, body |-> body]
    BY <2>1, <2>2, AnswerOfWhole DEF StorePoints
  <2> QED
    BY <1>0, <2>1, <2>3, AnswerKeepsConnInv DEF StorePoints
<1> QED
  BY <1>1, <1>2, <1>3, <1>4, <1>5, <1>6, <1>7, <1>8, <1>9 DEF Handler

-------------------------------------------------------------------------------
\* The end of the server and its start, and the host.

LEMMA DieKeepsConnInv ==
  ASSUME ConnInv, Die
  PROVE  ConnInv'
<1>1. /\ at' = "down"
      /\ UNCHANGED <<headVars, content_len, taken, consumed, want, body, caller, cut, replies,
                     registered, host_calls>>
  BY DEF Die, parseVars, readVars, headVars, dataVars
<1>2. ~Handling' /\ ~Discarding' /\ ~Over'
  BY <1>1 DEF Handling, Discarding, Over, StorePoints
<1>3. ConnTypes'
  BY <1>1 DEF ConnInv, ConnTypes, Points, headVars
<1>4. HeadFound'
  BY <1>1 DEF ConnInv, HeadFound, headVars
<1>5. AnswersOnce'
  BY <1>1, <1>2 DEF ConnInv, AnswersOnce
<1> QED
  BY <1>1, <1>2, <1>3, <1>4, <1>5
     DEF ConnInv, Consuming, Copied, Callers, ReadsAll, AsWhole, StorePoints

LEMMA RestartKeepsConnInv ==
  ASSUME ConnInv, Restart
  PROVE  ConnInv'
<1>1. /\ req' = NoRequest /\ taken' = 0 /\ data_len' = 0 /\ request_len' = 0
      /\ content_len' = -1 /\ consumed' = 0 /\ body' = <<>> /\ want' = 0
      /\ caller' = "handler" /\ cut' = FALSE /\ replies' = <<>> /\ at' = "idle"
      /\ registered' = TRUE /\ host_calls' = host_calls
  BY DEF Restart, faultVars
<1>2. ~Handling' /\ ~Discarding' /\ ~Over'
  BY <1>1 DEF Handling, Discarding, Over, StorePoints
<1>3. ConnTypes'
  <2>1. body' \in Seq(Byte) /\ replies' \in Seq(ReplyCodes)
    BY <1>1
  <2>2. at' \in Points /\ caller' \in {"handler", "discard"} /\ cut' \in BOOLEAN
    BY <1>1 DEF Points
  <2>3. taken' \in Nat /\ data_len' \in Nat /\ consumed' \in Nat /\ want' \in Nat
        /\ request_len' \in Int /\ content_len' \in Int
    BY <1>1
  <2> QED
    BY <1>1, <2>1, <2>2, <2>3 DEF ConnTypes
<1>4. HeadFound'
  <2>1. get_request_len(SubSeq(Stream(req'), 1, 0)) = 0 /\ 0 <= Len(Stream(req'))
    BY <1>1, NothingRead
  <2>2. 0 <= BufSize
    BY Sizes
  <2> QED
    BY <1>1, <2>1, <2>2 DEF HeadFound
<1>5. AnswersOnce'
  BY <1>1, <1>2 DEF ConnInv, AnswersOnce
<1> QED
  BY <1>1, <1>2, <1>3, <1>4, <1>5
     DEF ConnInv, Consuming, Copied, Callers, ReadsAll, AsWhole, StorePoints

LEMMA HostKeepsConnInv ==
  ASSUME ConnInv, UNCHANGED connVars, registered' \in BOOLEAN,
         host_calls' \in {host_calls, host_calls + 1}, ~registered' => host_calls' > 0
  PROVE  ConnInv'
<1>1. UNCHANGED <<headVars, at, content_len, taken, consumed, want, body, caller, cut, replies>>
  BY DEF connVars, parseVars, readVars, headVars
<1>2. /\ ConnTypes' /\ HeadFound'
  BY <1>1 DEF ConnInv, ConnTypes, HeadFound, headVars
<1>3. (Handling' <=> Handling) /\ (Discarding' <=> Discarding) /\ (Over' <=> Over)
  BY <1>1 DEF Handling, Discarding, Over, headVars
<1>4. Consuming' /\ Copied'
  BY <1>1, <1>3 DEF ConnInv, Consuming, Copied, headVars
<1>5. Callers' /\ ReadsAll'
  BY <1>1, <1>3 DEF ConnInv, Callers, ReadsAll, headVars
<1>6. AnswersOnce'
  BY <1>1, <1>3 DEF ConnInv, AnswersOnce, headVars
<1>7. AsWhole'
  <2>1. host_calls > 0 => host_calls' > 0
    BY DEF ConnInv, AnswersOnce
  <2>2. AnsweredAsWhole => AnsweredAsWhole'
    BY <1>1, <2>1 DEF AnsweredAsWhole, headVars
  <2> QED
    BY <1>1, <1>3, <2>2 DEF ConnInv, AsWhole, Undisturbed, headVars
<1> QED
  BY <1>2, <1>4, <1>5, <1>6, <1>7 DEF ConnInv

LEMMA NextKeepsConnInv ==
  ASSUME ConnInv, [Next]_vars
  PROVE  ConnInv'
<1> USE DEF dataVars, faultVars
<1>0. host_calls \in Nat /\ registered \in BOOLEAN /\ (~registered => host_calls > 0)
  BY DEF ConnInv, AnswersOnce
<1>1. CASE ConnStep /\ UNCHANGED <<dataVars, faultVars>>
  <2>1. UNCHANGED <<registered, host_calls>>
    BY <1>1
  <2> QED
    BY <1>1, <2>1, AcceptKeepsConnInv, ReadKeepsConnInv, ReadFailsKeepsConnInv,
       RefuseKeepsConnInv, HandleKeepsConnInv, MgReadBufferedKeepsConnInv,
       PullKeepsConnInv, PullFailsKeepsConnInv, DiscardKeepsConnInv, EndKeepsConnInv
       DEF ConnStep
<1>2. CASE Handler
  BY <1>2, HandlerKeepsConnInv
<1>3. CASE Killed \/ OpenFileFails
  BY <1>3, DieKeepsConnInv DEF Killed, OpenFileFails
<1>4. CASE Restart
  BY <1>4, RestartKeepsConnInv
<1>5. CASE Unregister
  <2>1. /\ UNCHANGED connVars /\ registered' = FALSE /\ host_calls' = host_calls + 1
        /\ host_calls' > 0
    BY <1>0, <1>5 DEF Unregister
  <2> QED
    BY <2>1, HostKeepsConnInv
<1>6. CASE Register
  BY <1>0, <1>6, HostKeepsConnInv DEF Register
<1>7. CASE Rest \/ UNCHANGED vars
  BY <1>0, <1>7, HostKeepsConnInv DEF Rest, vars
<1> QED
  BY <1>1, <1>2, <1>3, <1>4, <1>5, <1>6, <1>7 DEF Next

\* The connection's invariant, whatever arrives and in whatever pieces, and
\* wherever the server is killed.
THEOREM ConnInvariant == Spec => []ConnInv
<1>1. ConnInv /\ [Next]_vars => ConnInv'
  BY NextKeepsConnInv
<1> QED
  BY InitConnInv, <1>1, PTL DEF Spec

\* The handler reads the content of its own request and nothing else: for every
\* request, every size of the buffer and every way the bytes come in pieces, its
\* buffer is the beginning of what follows the head, and mg_read has consumed
\* no more than Content-Length.
THEOREM BodyIsContentHolds == Spec => []BodyIsContent
<1>1. ConnInv => BodyIsContent
  <2> SUFFICES ASSUME ConnInv, at \in {"mg_read", "pull", "reply"}, req.method = "POST"
               PROVE  /\ body = SubSeq(Stream(req), request_len + 1, request_len + Len(body))
                      /\ caller = "handler" => Len(body) = consumed
                      /\ consumed <= (IF content_len > 0 THEN content_len ELSE 0)
                      /\ at = "pull" => taken = request_len + consumed
    BY DEF BodyIsContent
  <2>1. (Handling \/ Discarding) /\ (caller = "handler" => Handling) /\ ~TakesQuery(req)
    BY DEF ConnInv, ConnTypes, Handling, Discarding, TakesQuery
  <2> QED
    BY <2>1 DEF ConnInv, Copied, Consuming, Content
<1> QED
  BY <1>1, ConnInvariant, PTL

\* A request is answered once, and only a connection on which recv gave up
\* before the head was there, or whose head is malformed, is closed without an
\* answer: after any number of requests, kills and removals.
THEOREM ClosedWithAnswerHolds == Spec => []ClosedWithAnswer
<1>1. ConnInv => ClosedWithAnswer
  BY DEF ConnInv, AnswersOnce, Over, ClosedWithAnswer
<1> QED
  BY <1>1, ConnInvariant, PTL

\* What a request is answered, and what its handler reads, are the same in
\* whatever pieces the request arrives, for requests of any length and buffers of
\* any size.
THEOREM SegmentationIndependentHolds == Spec => []SegmentationIndependent
<1>1. ConnInv => SegmentationIndependent
  BY DEF ConnInv, AsWhole, Over, Undisturbed, Controlled, AnsweredAsWhole,
         SegmentationIndependent
<1> QED
  BY <1>1, ConnInvariant, PTL

-------------------------------------------------------------------------------
\* The file of the data.

\* A line of the file can hold it.
Held(pair) == /\ IsPart(pair.key, Blanks) /\ IsPart(pair.value, Blanks)
              /\ Len(pair.key) <= MaxWord /\ Len(pair.value) <= MaxWord

LEMMA LineOfPair ==
  ASSUME NEW pair \in Pair, Held(pair)
  PROVE  /\ pair.key \in Seq(Byte) /\ pair.value \in Seq(Byte)
         /\ Ch.space \in Byte /\ Ch.lf \in Byte /\ Ch.space \in Blanks /\ Ch.lf \in Blanks
         /\ Line(pair) = Append(Append(pair.key, Ch.space) \o pair.value, Ch.lf)
         /\ Line(pair) \in Seq(Byte)
<1>1. pair.key \in Seq(Byte) /\ pair.value \in Seq(Byte)
  BY DEF Pair
<1>2. Ch.space \in Byte /\ Ch.lf \in Byte /\ Ch.space \in Blanks /\ Ch.lf \in Blanks
  BY DEF Ch, Byte, Blanks
<1>3. Cut(pair.key) = pair.key /\ Cut(pair.value) = pair.value
  <2>1. ASSUME NEW w \in Seq(Byte), Len(w) <= MaxWord PROVE Cut(w) = w
    <3>1. (IF Len(w) < MaxWord THEN Len(w) ELSE MaxWord) = Len(w)
      BY <2>1, WordAssumption
    <3>2. SubSeq(w, 1, Len(w)) = w
      BY SubSeqFull
    <3> QED
      BY <3>1, <3>2 DEF Cut
  <2> QED
    BY <1>1, <2>1 DEF Held
<1> DEFINE k == pair.key
           v == pair.value
           sp == Ch.space
           nl == Ch.lf
<1>4. Line(pair) = ((k \o <<sp>>) \o v) \o <<nl>>
  BY <1>3 DEF Line
<1> HIDE DEF k, v, sp, nl
<1>5. k \in Seq(Byte) /\ v \in Seq(Byte) /\ sp \in Byte /\ nl \in Byte
  BY <1>1, <1>2 DEF k, v, sp, nl
<1>6. k \o <<sp>> = Append(k, sp) /\ Append(k, sp) \in Seq(Byte)
  BY <1>5, AppendIsConcat, AppendProperties
<1> DEFINE t == Append(k, sp) \o v
<1>7. t \in Seq(Byte)
  BY <1>5, <1>6, ConcatProperties
<1>8. Line(pair) = t \o <<nl>>
  BY <1>4, <1>6
<1> HIDE DEF t
<1>9. Line(pair) = Append(t, nl) /\ Append(t, nl) \in Seq(Byte)
  BY <1>5, <1>7, <1>8, AppendIsConcat, AppendProperties
<1> QED
  BY <1>1, <1>2, <1>9 DEF t, k, v, sp, nl

LEMMA FieldsAfterLine ==
  ASSUME NEW text \in Seq(Byte), IsClosed(text, Blanks), NEW pair \in Pair, Held(pair)
  PROVE  /\ text \o Line(pair) \in Seq(Byte) /\ IsClosed(text \o Line(pair), Blanks)
         /\ EndsIn(text \o Line(pair), Ch.lf)
         /\ PartsAre(text \o Line(pair), Blanks, Append(Fields(text, Blanks), pair.key),
                     pair.value)
<1> DEFINE k == pair.key
           v == pair.value
           sp == Ch.space
           nl == Ch.lf
           line == Line(pair)
<1>1. /\ k \in Seq(Byte) /\ v \in Seq(Byte) /\ sp \in Byte /\ nl \in Byte
      /\ sp \in Blanks /\ nl \in Blanks
      /\ IsPart(k, Blanks) /\ IsPart(v, Blanks)
  BY LineOfPair DEF Held
<1>2. line = LineOf(k, sp, v, nl)
  BY LineOfPair DEF LineOf
<1> HIDE DEF k, v, sp, nl, line
<1>3. /\ PartsAre(text \o line, Blanks, Append(Fields(text, Blanks), k), v)
      /\ text \o line \in Seq(Byte) /\ IsClosed(text \o line, Blanks)
      /\ EndsIn(text \o line, nl)
  BY <1>1, <1>2, FieldsOfTwo
<1> QED
  BY <1>3 DEF k, v, nl, line

\* The words of a file of n lines: the keys and the values, in turn.
WordsOf(words, data, n) ==
  /\ words \in Seq(Seq(Byte)) /\ Len(words) = 2 * n
  /\ \A i \in 1 .. n : words[2 * i - 1] = data[i].key /\ words[2 * i] = data[i].value

LEMMA WordsGrow ==
  ASSUME NEW data \in Seq(Pair), NEW n \in Nat, n + 1 <= Len(data), NEW words,
         WordsOf(words, data, n)
  PROVE  WordsOf(Append(Append(words, data[n + 1].key), data[n + 1].value), data, n + 1)
<1> DEFINE k == data[n + 1].key
           v == data[n + 1].value
           w1 == Append(words, k)
           w2 == Append(w1, v)
<1>1. k \in Seq(Byte) /\ v \in Seq(Byte)
  <2>1. data[n + 1] \in Pair
    OBVIOUS
  <2> QED
    BY <2>1 DEF Pair
<1> HIDE DEF k, v
<1>2. /\ words \in Seq(Seq(Byte)) /\ Len(words) = 2 * n
      /\ \A i \in 1 .. n : words[2 * i - 1] = data[i].key /\ words[2 * i] = data[i].value
  BY DEF WordsOf
<1>3. /\ w1 \in Seq(Seq(Byte)) /\ Len(w1) = 2 * n + 1 /\ w1[2 * n + 1] = k
      /\ \A j \in 1 .. 2 * n : w1[j] = words[j]
  BY <1>1, <1>2, AppendProperties
<1> HIDE DEF w1
<1>4. /\ w2 \in Seq(Seq(Byte)) /\ Len(w2) = 2 * n + 2 /\ w2[2 * n + 2] = v
      /\ \A j \in 1 .. 2 * n + 1 : w2[j] = w1[j]
  <2>1. /\ w2 \in Seq(Seq(Byte)) /\ Len(w2) = Len(w1) + 1 /\ w2[Len(w1) + 1] = v
        /\ \A j \in 1 .. Len(w1) : w2[j] = w1[j]
    BY <1>1, <1>3, AppendProperties
  <2>2. (2 * n + 1) + 1 = 2 * n + 2
    OBVIOUS
  <2> HIDE DEF w2
  <2> QED
    BY <1>3, <2>1, <2>2
<1> HIDE DEF w2
<1>5. ASSUME NEW i \in 1 .. n + 1
      PROVE  w2[2 * i - 1] = data[i].key /\ w2[2 * i] = data[i].value
  <2>1. CASE i = n + 1
    <3>1. 2 * i - 1 = 2 * n + 1 /\ 2 * i = 2 * n + 2 /\ 2 * n + 1 \in 1 .. 2 * n + 1
      BY <2>1
    <3> QED
      BY <1>3, <1>4, <2>1, <3>1 DEF k, v
  <2>2. CASE i # n + 1
    <3>1. i \in 1 .. n /\ 2 * i - 1 \in 1 .. 2 * n /\ 2 * i \in 1 .. 2 * n
          /\ 2 * i - 1 \in 1 .. 2 * n + 1 /\ 2 * i \in 1 .. 2 * n + 1
      BY <2>2
    <3> QED
      BY <1>2, <1>3, <1>4, <3>1
  <2> QED
    BY <2>1, <2>2
<1>6. 2 * n + 2 = 2 * (n + 1)
  OBVIOUS
<1>7. WordsOf(w2, data, n + 1)
  BY <1>4, <1>5, <1>6 DEF WordsOf
<1> QED
  BY <1>7 DEF w2, w1, k, v

LEMMA WordsOfFile ==
  ASSUME NEW data \in Seq(Pair), \A i \in 1 .. Len(data) : Held(data[i])
  PROVE  /\ WordsOf(Fields(FileText(data), Blanks), data, Len(data))
         /\ FileText(data) # NoFile
<1> DEFINE n == Len(data)
           lines == [i \in 1 .. n |-> Line(data[i])]
<1>1. n \in Nat /\ \A i \in 1 .. n : data[i] \in Pair /\ Held(data[i])
  OBVIOUS
<1>2. /\ lines \in Seq(Seq(Byte)) /\ Len(lines) = n /\ FileText(data) = FlattenSeq(lines)
      /\ \A i \in 1 .. n : lines[i] = Line(data[i])
  <2>1. \A i \in 1 .. n : Line(data[i]) \in Seq(Byte)
    BY <1>1, LineOfPair
  <2>2. lines \in Seq(Seq(Byte)) /\ Len(lines) = n
    BY <1>1, <2>1
  <2>3. DOMAIN data = 1 .. n
    OBVIOUS
  <2>4. FileText(data) = FlattenSeq(lines)
    BY <2>3 DEF FileText
  <2>5. \A i \in 1 .. n : lines[i] = Line(data[i])
    OBVIOUS
  <2> QED
    BY <2>2, <2>4, <2>5
<1> HIDE DEF lines
<1>3. PICK f : Flattens(f, lines, Byte)
  BY <1>2, FlattenRecursion
<1>4. /\ f \in [0 .. n -> Seq(Byte)] /\ f[0] = <<>> /\ FileText(data) = f[n]
      /\ \A i \in 1 .. n : f[i] = f[i - 1] \o Line(data[i])
  BY <1>2, <1>3 DEF Flattens
<1> HIDE DEF n
<1> DEFINE Good(i) == /\ f[i] \in Seq(Byte) /\ IsClosed(f[i], Blanks)
                      /\ f[i] # <<>> => EndsIn(f[i], Ch.lf)
                      /\ WordsOf(Fields(f[i], Blanks), data, i)
           S == {i \in Nat : i <= n => Good(i)}
<1>5. 0 \in S
  <2>1. Fields(f[0], Blanks) = <<>>
    BY <1>4, FieldsOfNothing
  <2>2. <<>> \in Seq(Seq(Byte)) /\ Len(<<>>) = 2 * 0 /\ 1 .. 0 = {}
    OBVIOUS
  <2>3. WordsOf(Fields(f[0], Blanks), data, 0)
    BY <2>1, <2>2 DEF WordsOf
  <2>4. f[0] \in Seq(Byte)
    BY <1>1, <1>4
  <2> QED
    BY <1>4, <2>3, <2>4 DEF IsClosed
<1>6. ASSUME NEW i \in Nat, i \in S PROVE i + 1 \in S
  <2> SUFFICES ASSUME i + 1 <= n PROVE Good(i + 1)
    OBVIOUS
  <2> DEFINE pair == data[i + 1]
             t == f[i]
  <2>1. pair \in Pair /\ Held(pair) /\ f[i + 1] = t \o Line(pair)
    <3>1. i + 1 \in 1 .. n /\ (i + 1) - 1 = i
      BY <1>1
    <3> QED
      BY <1>1, <1>4, <3>1
  <2>2. t \in Seq(Byte) /\ IsClosed(t, Blanks) /\ WordsOf(Fields(t, Blanks), data, i)
    BY <1>1, <1>6
  <2> HIDE DEF t
  <2>3. WordsOf(Append(Append(Fields(t, Blanks), pair.key), pair.value), data, i + 1)
    BY <1>1, <2>2, WordsGrow DEF n
  <2> HIDE DEF pair
  <2>4. /\ t \o Line(pair) \in Seq(Byte) /\ IsClosed(t \o Line(pair), Blanks)
        /\ EndsIn(t \o Line(pair), Ch.lf)
        /\ Fields(t \o Line(pair), Blanks)
             = Append(Append(Fields(t, Blanks), pair.key), pair.value)
    BY <2>1, <2>2, FieldsAfterLine DEF PartsAre
  <2> QED
    BY <2>1, <2>3, <2>4
<1>7. Good(n)
  <2> HIDE DEF S, Good
  <2>1. n \in S
    BY <1>1, <1>5, <1>6, SetInduction
  <2> QED
    BY <1>1, <2>1 DEF S
<1>8. FileText(data) # NoFile
  <2>1. NoFile # <<>> /\ NoFile[Len(NoFile)] = 0 /\ Ch.lf # 0
    BY DEF NoFile, Ch
  <2> QED
    BY <1>4, <1>7, <2>1 DEF EndsIn
<1> QED
  BY <1>4, <1>7, <1>8 DEF n

\* What store_dial_data has written, retrieve_dial_data reads: the same pairs, in
\* reverse order.
LEMMA FileRoundTrip ==
  ASSUME NEW data \in Seq(Pair), \A i \in 1 .. Len(data) : Held(data[i])
  PROVE  retrieve_dial_data(FileText(data)) = Reverse(data)
<1> DEFINE n == Len(data)
           words == Fields(FileText(data), Blanks)
<1>1. WordsOf(words, data, n) /\ FileText(data) # NoFile /\ n \in Nat
  BY WordsOfFile
<1>2. retrieve_dial_data(FileText(data))
        = Reverse([i \in 1 .. (Len(words) + 1) \div 2 |-> PairRead(words, i)])
  BY <1>1 DEF retrieve_dial_data
<1> HIDE DEF words
<1>3. (Len(words) + 1) \div 2 = n
  <2>1. Len(words) = 2 * n
    BY <1>1 DEF WordsOf
  <2> HIDE DEF n
  <2>2. (2 * n + 1) \div 2 = n
    BY <1>1
  <2> QED
    BY <2>1, <2>2
<1>4. ASSUME NEW i \in 1 .. n PROVE PairRead(words, i) = data[i]
  <2>1. Len(words) = 2 * n /\ words[2 * i - 1] = data[i].key /\ words[2 * i] = data[i].value
    BY <1>1 DEF WordsOf
  <2>4. 2 * i <= Len(words)
    <3> HIDE DEF n
    <3> QED
      BY <1>1, <2>1
  <2>2. data[i] \in Pair
    OBVIOUS
  <2>3. PairRead(words, i) = [key |-> data[i].key, value |-> data[i].value]
    BY <2>1, <2>4 DEF PairRead
  <2> QED
    BY <2>2, <2>3 DEF Pair
<1>5. [i \in 1 .. n |-> PairRead(words, i)] = data
  BY <1>4
<1> QED
  BY <1>2, <1>3, <1>5

-------------------------------------------------------------------------------
\* The inductive invariant of the data.

ParsedData == {data \in Seq(Pair) : \A i \in 1 .. Len(data) : Parsed(data[i])}

\* The data of one request, as it came or in the other order, or none.
OfOneRequest == {<<>>} \cup posted \cup {Reverse(data) : data \in posted}
AllStorable == \A data \in posted : Storable(data)

PostedParsed == posted \subseteq ParsedData
StoringPosted == at \in StorePoints => dial_data \in posted

\* The memory and the file, each by itself, have the data of one request.
OneRequest ==
  ~damaged /\ AllStorable =>
    /\ dial_data \in OfOneRequest
    /\ file \in {NoFile, <<>>} \cup {FileText(data) : data \in OfOneRequest}

DataInv == PostedParsed /\ StoringPosted /\ AnsweredIsStored /\ OneRequest

LEMMA RetrieveNothing ==
  retrieve_dial_data(NoFile) = <<>> /\ retrieve_dial_data(<<>>) = <<>>
<1>1. retrieve_dial_data(NoFile) = <<>>
  BY DEF retrieve_dial_data
<1>2. retrieve_dial_data(<<>>) = <<>>
  <2> DEFINE words == Fields(<<>>, Blanks)
             pairs == [i \in 1 .. (Len(words) + 1) \div 2 |-> PairRead(words, i)]
  <2>1. words = <<>>
    BY FieldsOfNothing
  <2>2. (Len(words) + 1) \div 2 = 0
    <3>1. Len(words) = 0
      BY <2>1
    <3> QED
      BY <3>1
  <2>3. pairs = <<>>
    <3>1. 1 .. 0 = {}
      OBVIOUS
    <3> QED
      BY <2>2, <3>1
  <2>4. <<>> # NoFile
    BY DEF NoFile
  <2>5. retrieve_dial_data(<<>>) = Reverse(pairs)
    BY <2>4 DEF retrieve_dial_data
  <2>6. Reverse(pairs) = <<>>
    BY <2>3 DEF Reverse
  <2> QED
    BY <2>5, <2>6
<1> QED
  BY <1>1, <1>2

LEMMA StorableIsRetrieved ==
  ASSUME NEW data \in ParsedData, Storable(data)
  PROVE  retrieve_dial_data(FileText(data)) = Reverse(data)
<1>1. data \in Seq(Pair) /\ DOMAIN data = 1 .. Len(data)
  BY DEF ParsedData
<1>2. ASSUME NEW i \in 1 .. Len(data) PROVE Held(data[i])
  <2>1. /\ Parsed(data[i]) /\ data[i] \in Pair
        /\ Len(data[i].key) <= MaxWord /\ Len(data[i].value) <= MaxWord
        /\ \A j \in DOMAIN data[i].key : data[i].key[j] \notin Blanks
    BY <1>1 DEF ParsedData, Storable
  <2>2. data[i].key \in Seq(Byte)
    BY <2>1 DEF Pair
  <2>3. IsPart(data[i].key, Blanks)
    BY <2>1, <2>2 DEF Parsed, IsPart
  <2> QED
    BY <2>1, <2>3 DEF Parsed, Held
<1> QED
  BY <1>1, <1>2, FileRoundTrip

LEMMA ReverseStorable ==
  ASSUME NEW data \in ParsedData
  PROVE  /\ Reverse(data) \in ParsedData /\ Reverse(Reverse(data)) = data
         /\ Storable(data) => Storable(Reverse(data))
<1> DEFINE r == Reverse(data)
<1>1. data \in Seq(Pair) /\ \A i \in 1 .. Len(data) : Parsed(data[i])
  BY DEF ParsedData
<1>2. /\ r \in Seq(Pair) /\ Len(r) = Len(data) /\ Reverse(r) = data
      /\ \A i \in 1 .. Len(data) : r[i] = data[Len(data) - i + 1]
  BY <1>1, ReverseProperties, ReverseTwice
<1> HIDE DEF r
<1>3. \A i \in 1 .. Len(r) : /\ Len(data) - i + 1 \in 1 .. Len(data)
                             /\ r[i] = data[Len(data) - i + 1]
  BY <1>1, <1>2
<1>4. r \in ParsedData
  BY <1>1, <1>2, <1>3 DEF ParsedData
<1>5. Storable(data) => Storable(r)
  <2>1. DOMAIN data = 1 .. Len(data) /\ DOMAIN r = 1 .. Len(r)
    BY <1>1, <1>2
  <2> QED
    BY <1>3, <2>1 DEF Storable
<1> QED
  BY <1>2, <1>4, <1>5 DEF r

\* What a restarted server reads is again of one request.
LEMMA RetrieveOfOneRequest ==
  ASSUME PostedParsed, AllStorable,
         NEW text \in {NoFile, <<>>} \cup {FileText(data) : data \in OfOneRequest}
  PROVE  retrieve_dial_data(text) \in OfOneRequest
<1>1. CASE text \in {NoFile, <<>>}
  BY <1>1, RetrieveNothing DEF OfOneRequest
<1>2. ASSUME NEW data \in OfOneRequest, text = FileText(data)
      PROVE  retrieve_dial_data(text) \in OfOneRequest
  <2>1. CASE data = <<>>
    <3>1. <<>> \in ParsedData /\ Storable(<<>>) /\ Reverse(<<>>) = <<>>
      <4>1. <<>> \in Seq(Pair) /\ DOMAIN <<>> = {} /\ 1 .. Len(<<>>) = {}
        OBVIOUS
      <4>2. Reverse(<<>>) = <<>>
        BY <4>1 DEF Reverse
      <4> QED
        BY <4>1, <4>2 DEF ParsedData, Storable
    <3>2. retrieve_dial_data(FileText(<<>>)) = <<>>
      BY <3>1, StorableIsRetrieved
    <3> QED
      BY <1>2, <2>1, <3>2 DEF OfOneRequest
  <2>2. CASE data \in posted
    <3>1. data \in ParsedData /\ Storable(data)
      BY <2>2 DEF PostedParsed, AllStorable
    <3>2. retrieve_dial_data(text) = Reverse(data)
      BY <1>2, <3>1, StorableIsRetrieved
    <3> QED
      BY <2>2, <3>2 DEF OfOneRequest
  <2>3. ASSUME NEW d \in posted, data = Reverse(d)
        PROVE  retrieve_dial_data(text) \in OfOneRequest
    <3>1. d \in ParsedData /\ Storable(d)
      BY DEF PostedParsed, AllStorable
    <3>2. data \in ParsedData /\ Storable(data) /\ Reverse(data) = d
      BY <2>3, <3>1, ReverseStorable
    <3>3. retrieve_dial_data(text) = d
      BY <1>2, <3>2, StorableIsRetrieved
    <3> QED
      BY <3>3 DEF OfOneRequest
  <2> QED
    BY <2>1, <2>2, <2>3 DEF OfOneRequest
<1> QED
  BY <1>1, <1>2

LEMMA InitDataInv == Init => DataInv
<1> SUFFICES ASSUME Init PROVE DataInv
  OBVIOUS
<1>1. at = "idle" /\ dial_data = <<>> /\ file = NoFile /\ posted = {}
  BY DEF Init, ConnInit
<1>2. PostedParsed /\ StoringPosted /\ OneRequest
  BY <1>1 DEF PostedParsed, StoringPosted, OneRequest, OfOneRequest, StorePoints
<1>3. AnsweredIsStored
  <2>1. retrieve_dial_data(file) = dial_data
    BY <1>1, RetrieveNothing
  <2> QED
    BY <2>1 DEF AnsweredIsStored
<1> QED
  BY <1>2, <1>3 DEF DataInv

\* A step that touches neither the data nor the file, and does not end a store.
LEMMA SameDataKeepsDataInv ==
  ASSUME DataInv, UNCHANGED <<dial_data, file, posted>>,
         damaged' = damaged, registered' => registered,
         at' \in StorePoints => at \in StorePoints,
         at' \notin StorePoints \cup {"down"} => at \notin StorePoints \cup {"down"}
  PROVE  DataInv'
<1>1. PostedParsed' /\ StoringPosted'
  BY DEF DataInv, PostedParsed, StoringPosted
<1>2. AnsweredIsStored'
  BY DEF DataInv, AnsweredIsStored, StorePoints
<1>3. OneRequest'
  BY DEF DataInv, OneRequest, OfOneRequest, AllStorable
<1> QED
  BY <1>1, <1>2, <1>3 DEF DataInv

\* A start or a registration: the data are those of the file.
LEMMA RetrievedKeepsDataInv ==
  ASSUME DataInv, UNCHANGED <<file, posted, damaged>>, at' \notin StorePoints,
         dial_data' = retrieve_dial_data(file)
  PROVE  DataInv'
<1>1. PostedParsed' /\ StoringPosted'
  BY DEF DataInv, PostedParsed, StoringPosted
<1>2. AnsweredIsStored'
  BY DEF AnsweredIsStored
<1>3. OneRequest'
  <2> SUFFICES ASSUME ~damaged, AllStorable
               PROVE  /\ dial_data' \in OfOneRequest
                      /\ file \in {NoFile, <<>>} \cup {FileText(data) : data \in OfOneRequest}
    BY DEF OneRequest, OfOneRequest, AllStorable
  <2>1. file \in {NoFile, <<>>} \cup {FileText(data) : data \in OfOneRequest}
    BY DEF DataInv, OneRequest
  <2>2. PostedParsed
    BY DEF DataInv
  <2> QED
    BY <2>1, <2>2, RetrieveOfOneRequest
<1> QED
  BY <1>1, <1>2, <1>3 DEF DataInv

LEMMA KeepDataKeepsDataInv ==
  ASSUME ConnInv, DataInv, KeepData
  PROVE  DataInv'
<1> DEFINE data == parse_params(body)
<1>1. /\ dial_data' = data /\ posted' = posted \cup {data} /\ at' = "store"
      /\ file' = file /\ damaged' = damaged
  BY DEF KeepData, faultVars
<1>2. data \in ParsedData
  <2>1. body \in Seq(Byte)
    BY DEF ConnInv, ConnTypes
  <2> QED
    BY <2>1, ParseParamsType DEF ParsedData
<1> HIDE DEF data
<1>3. PostedParsed' /\ StoringPosted' /\ AnsweredIsStored'
  BY <1>1, <1>2 DEF DataInv, PostedParsed, StoringPosted, AnsweredIsStored
<1>4. OneRequest'
  <2> SUFFICES ASSUME ~damaged, AllStorable' PROVE OneRequest'
    BY <1>1 DEF OneRequest
  <2>1. AllStorable
    BY <1>1 DEF AllStorable
  <2>2. OfOneRequest \subseteq OfOneRequest' /\ dial_data' \in OfOneRequest'
    BY <1>1 DEF OfOneRequest
  <2>3. file \in {NoFile, <<>>} \cup {FileText(d) : d \in OfOneRequest}
    BY <2>1 DEF DataInv, OneRequest
  <2>4. file \in {NoFile, <<>>} \cup {FileText(d) : d \in OfOneRequest'}
    BY <2>2, <2>3
  <2> QED
    BY <1>1, <2>2, <2>4 DEF OneRequest
<1> QED
  BY <1>3, <1>4 DEF DataInv

LEMMA OpenFileKeepsDataInv ==
  ASSUME DataInv, OpenFile
  PROVE  DataInv'
<1>1. /\ at = "store" /\ at' = "write" /\ file' = <<>>
      /\ UNCHANGED <<dial_data, posted, damaged>>
  BY DEF OpenFile, Truncate, faultVars
<1>2. PostedParsed' /\ StoringPosted' /\ AnsweredIsStored'
  BY <1>1 DEF DataInv, PostedParsed, StoringPosted, AnsweredIsStored, StorePoints
<1>3. OneRequest'
  BY <1>1 DEF DataInv, OneRequest, OfOneRequest, AllStorable
<1> QED
  BY <1>2, <1>3 DEF DataInv

LEMMA WriteFileKeepsDataInv ==
  ASSUME DataInv, WriteFile
  PROVE  DataInv'
<1>1. /\ at = "write" /\ at' = "discard" /\ file' = FileText(dial_data)
      /\ UNCHANGED <<dial_data, posted>>
  BY DEF WriteFile, WriteOut, Answer
<1>2. dial_data \in posted /\ dial_data \in ParsedData
  BY <1>1 DEF DataInv, StoringPosted, PostedParsed, StorePoints
<1>3. PostedParsed' /\ StoringPosted'
  BY <1>1 DEF DataInv, PostedParsed, StoringPosted, StorePoints
<1>4. AnsweredIsStored'
  <2> SUFFICES ASSUME Storable(dial_data)
               PROVE  dial_data = Reverse(retrieve_dial_data(FileText(dial_data)))
    BY <1>1 DEF AnsweredIsStored
  <2> QED
    BY <1>2, StorableIsRetrieved, ReverseStorable
<1>5. OneRequest'
  BY <1>1, <1>2 DEF OneRequest, OfOneRequest
<1> QED
  BY <1>3, <1>4, <1>5 DEF DataInv

LEMMA DiskFullKeepsDataInv ==
  ASSUME DataInv, DiskFull
  PROVE  DataInv'
<1>1. at' = "discard" /\ damaged' = TRUE /\ UNCHANGED posted
  BY DEF DiskFull, Answer
<1> QED
  BY <1>1 DEF DataInv, PostedParsed, StoringPosted, StorePoints, AnsweredIsStored, OneRequest

LEMMA NextKeepsDataInv ==
  ASSUME ConnInv, DataInv, [Next]_vars
  PROVE  DataInv'
<1> DEFINE same == UNCHANGED <<dial_data, file, posted, damaged>>
           busy == StorePoints \cup {"down"}
<1>1. CASE ConnStep /\ UNCHANGED <<dataVars, faultVars>>
  <2>1. same /\ registered' = registered
    BY <1>1 DEF dataVars, faultVars
  <2>2. at \notin busy /\ at' \notin busy
    <3> USE DEF StorePoints
    <3>1. CASE Accept \/ (\E n \in 1 .. BufSize : Read(n)) \/ ReadFails \/ Refuse \/ Handle
      BY <3>1 DEF Accept, Read, ReadFails, Refuse, Handle
    <3>2. CASE MgReadBuffered \/ (\E n \in 1 .. want : Pull(n)) \/ PullFails
      BY <3>2 DEF MgReadBuffered, Pull, PullFails, Return
    <3>3. CASE Discard \/ Discarded \/ Close
      BY <3>3 DEF Discard, Discarded, Close, CallMgRead
    <3> QED
      BY <1>1, <3>1, <3>2, <3>3 DEF ConnStep
  <2> QED
    BY <2>1, <2>2, SameDataKeepsDataInv
<1>2. CASE NotFound \/ Status \/ ReadContent \/ TakeQuery \/ Start \/ RefuseData
  <2>1. same /\ registered' = registered
    BY <1>2 DEF NotFound, Status, ReadContent, TakeQuery, Start, RefuseData, dataVars, faultVars
  <2>2. at \in {"handler", "reply"} /\ at' \in {"discard", "mg_read", "reply"}
    BY <1>2 DEF NotFound, Status, ReadContent, TakeQuery, Start, RefuseData, Answer, CallMgRead
  <2> QED
    BY <2>1, <2>2, SameDataKeepsDataInv DEF StorePoints
<1>3. CASE KeepData \/ OpenFile \/ WriteFile \/ DiskFull
  BY <1>3, KeepDataKeepsDataInv, OpenFileKeepsDataInv, WriteFileKeepsDataInv,
     DiskFullKeepsDataInv
<1>4. CASE Killed \/ OpenFileFails
  <2>1. same /\ registered' = registered /\ at' = "down"
    BY <1>4 DEF Killed, OpenFileFails, Die, dataVars
  <2> QED
    BY <2>1, SameDataKeepsDataInv DEF StorePoints
<1>5. CASE Restart
  <2>1. /\ UNCHANGED <<file, posted, damaged>> /\ at' = "idle"
        /\ dial_data' = retrieve_dial_data(file)
    BY <1>5 DEF Restart, faultVars
  <2> QED
    BY <2>1, RetrievedKeepsDataInv DEF StorePoints
<1>6. CASE Register
  <2>1. /\ UNCHANGED <<file, posted, damaged>> /\ at' = at
        /\ dial_data' = retrieve_dial_data(file) /\ at \notin StorePoints
    BY <1>6 DEF Register, MuxFree, faultVars, connVars, parseVars, readVars, headVars, StorePoints
  <2> QED
    BY <2>1, RetrievedKeepsDataInv
<1>7. CASE Unregister \/ Rest \/ UNCHANGED vars
  <2>1. same /\ at' = at /\ (registered' => registered)
    BY <1>7 DEF Unregister, Rest, vars, dataVars, faultVars, connVars, parseVars, readVars, headVars
  <2> QED
    BY <2>1, SameDataKeepsDataInv
<1> QED
  BY <1>1, <1>2, <1>3, <1>4, <1>5, <1>6, <1>7 DEF Next, Handler

THEOREM DataInvariant == Spec => []DataInv
<1>1. Init => ConnInv /\ DataInv
  BY InitConnInv, InitDataInv
<1>2. ConnInv /\ DataInv /\ [Next]_vars => ConnInv' /\ DataInv'
  BY NextKeepsConnInv, NextKeepsDataInv
<1> QED
  BY <1>1, <1>2, PTL DEF Spec

\* What was answered is in the file, for requests of any length, any number of
\* kills, failing writes and removals: a server that is started again has what the
\* running one has in memory.
THEOREM AnsweredIsStoredHolds == Spec => []AnsweredIsStored
<1>1. DataInv => AnsweredIsStored
  BY DEF DataInv
<1> QED
  BY <1>1, DataInvariant, PTL

\* A server killed between the moment it empties the file and the moment the
\* file is written has the data of one request or none, never a mixture, after any
\* number of kills and requests; only a write that fails makes one.
THEOREM NeverMixedHolds == Spec => []NeverMixed
<1>1. DataInv => NeverMixed
  BY DEF DataInv, OneRequest, OfOneRequest, AllStorable, NeverMixed
<1> QED
  BY <1>1, DataInvariant, PTL
===============================================================================
