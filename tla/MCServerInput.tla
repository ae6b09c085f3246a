---------------------------- MODULE MCServerInput ----------------------------
(***************************************************************************)
(* RequestService and ServerText for TLC: a behaviour either serves        *)
(* requests or is one sample of texts.                                     *)
(***************************************************************************)
EXTENDS RequestService, ServerText

-------------------------------------------------------------------------------
\* The requests.  Letters: k, l, v, w; X stands for a whole request line.

X == 88
K == 107
L == 108
V == 118
W == 119

LfHead == <<X, Ch.lf, Ch.lf>>
CrLfHead == <<X, Ch.cr, Ch.lf, Ch.cr, Ch.lf>>

Length(n) == << [name |-> "content-length", value |-> n] >>
Other == [name |-> "other", value |-> 0]

\* A POST of text, as the tests of the repository send it.
Post(op, text) ==
  [head |-> LfHead, method |-> "POST", version |-> "1.1", headers |-> Length(Len(text)),
   query |-> <<>>, body |-> text, op |-> op]

Get(op, text) ==
  [head |-> LfHead, method |-> "GET", version |-> "1.1", headers |-> <<>>,
   query |-> text, body |-> <<>>, op |-> op]

OnePair == <<K, Ch.eq, V>>
TwoPairs == <<K, Ch.eq, V, Ch.amp, L, Ch.eq, W>>

\* Data that are kept, malformed, not printable, with a space in a key or
\* longer than a line of the file can hold.
DataRequests ==
  {Post("data", OnePair), Post("data", TwoPairs), Post("data", <<K, K>>),
   Post("data", <<K, Ch.eq, 1>>), Post("data", <<K, Ch.space, L, Ch.eq, V>>),
   Post("data", <<K, K, K, Ch.eq, V>>), Get("data", TwoPairs),
   Get("data", TwoPairs \o TwoPairs),
   [Get("data", OnePair) EXCEPT !.headers = Length(3), !.body = <<V, V, V>>]}

\* Heads in other forms, and requests that are refused.
HeadRequests ==
  {[Get("status", <<>>) EXCEPT !.head = h] :
     h \in {CrLfHead, <<200, Ch.lf, Ch.cr, Ch.lf>>, <<X, 1, Ch.lf, Ch.lf>>,
           <<X, X, X, X, X, X, X>>, <<X, X, X, X, Ch.lf, Ch.lf>>, <<X, Ch.lf>>}}
  \cup {[Post("start", OnePair) EXCEPT !.method = "PUT"],
        [Post("start", OnePair) EXCEPT !.version = "2.0"],
        [Post("start", OnePair) EXCEPT !.headers = Length(-5)]}

\* Contents as long as a buffer, longer, shorter than announced, and with a
\* Content-Length among other headers, twice, or behind too many.
ContentRequests ==
  {Post("start", SubSeq(<<V, V, V, V, V, V, V, V, V>>, 1, n)) : n \in {0, 3, 4, 5, 9}}
  \cup {[Post("start", <<V, V, V, V>>) EXCEPT !.headers = h] :
          h \in {Length(2), Length(6), <<Other>> \o Length(3),
                Length(1) \o Length(4), <<Other, Other>> \o Length(4)}}
  \cup {Post("start", <<V, 127>>)}

AllRequests == DataRequests \cup HeadRequests \cup ContentRequests

-------------------------------------------------------------------------------
\* The samples.

Bytes == {Ch.space, Ch.quot, Ch.apos, Ch.percent, Ch.amp, Ch.plus, Ch.lt, 50, 122, 200}
MCTexts == BoundedSeq(Bytes, 3)
\* Names that look like parts of the URIs, and one as long as a name may be.
UriNames ==
  {Tail(RUN_URI), Tail(HIDE_URI), Tail(DIAL_DATA_URI), Front(Tail(APPS_URI)),
   Tail(HIDE_URI) \o Tail(RUN_URI), [i \in 1 .. MaxName |-> K]}
MCAppNames == (BoundedSeq({K, Ch.dot, Ch.percent, 50}, 4) \ {<<>>}) \cup UriNames
MCUris == BoundedSeq({Ch.slash, Ch.backslash, Ch.dot, K}, 5)
MCQueries == BoundedSeq({K, L, Ch.eq, Ch.amp}, 5)
MCParamNames == {<<K>>, <<K, L>>}

\* Origins and candidates by their parts; <<>> is no port.
Hosts(n) == BoundedSeq({<<K>>, <<L>>, <<K, L>>}, n) \ {<<>>}
Ports == {<<>>, <<52, 52, 51>>, <<56>>}
MCOrigins == [host : Hosts(3), port : Ports, wild : {FALSE}]
AllCandidates == [host : Hosts(2), port : Ports, wild : BOOLEAN]
OtherCandidate == [host |-> <<<<K>>>>, port |-> <<56>>, wild |-> TRUE]
MCCandidateLists ==
  UNION {{<<c>>, <<c, OtherCandidate>>, <<OtherCandidate, c>>} : c \in AllCandidates}

NoSample == [fn |-> "none"]

MCInit == Init /\ (sample = NoSample \/ SampleInit)
MCNext == IF sample = NoSample THEN Next /\ UNCHANGED sample
                               ELSE UNCHANGED <<vars, sample>>
MCSpec == MCInit /\ [][MCNext]_<<vars, sample>>
===============================================================================
