------------------------------ MODULE ServerText ------------------------------
(***************************************************************************)
(* What the functions on texts that the handlers call (UrlLib, DialRoutes, *)
(* CorsOrigin) promise together.  They are pure: a behaviour is one sample, *)
(* a text or several that one of the promises is about.                    *)
(***************************************************************************)
EXTENDS CorsOrigin, DialRoutes

CONSTANTS
  Texts,           \* keys, values and payloads
  AppNames,        \* names of applications
  Uris,            \* paths of request lines, once mongoose has decoded them
  Queries,         \* queries of URIs
  ParamNames,      \* names of parameters in a query
  Origins,         \* Origin headers by their parts: [host, port, wild]
  CandidateLists   \* corsAllowedOrigin: a sequence of candidates, by their parts

\* What a text is made of in memory.
TextByte == Byte \ {0}

\* The labels of a host, and the digits of a port.
Label == Seq(TextByte \ {Ch.space, Ch.star, Ch.dot, Ch.colon}) \ {<<>>}
HostName == Seq(Label) \ {<<>>}
Digit == 48 .. 57

ASSUME TextAssumption ==
  /\ Texts \cup Uris \cup Queries \subseteq Seq(TextByte)
  /\ ParamNames \subseteq Seq(TextByte \ {Ch.eq, Ch.amp}) \ {<<>>}
  /\ AppNames \subseteq Seq(NameByte)
  /\ \A name \in AppNames : Len(name) \in 1 .. MaxName
  /\ Origins \subseteq [host : HostName, port : Seq(Digit), wild : {FALSE}]
  /\ CandidateLists \subseteq Seq([host : HostName, port : Seq(Digit), wild : BOOLEAN])

VARIABLE sample          \* what the functions are given

SampleInit ==
  \/ \E text \in Texts : sample = [fn |-> "text", text |-> text]
  \/ \E name \in AppNames : sample = [fn |-> "name", name |-> name]
  \/ \E uri \in Uris : sample = [fn |-> "uri", uri |-> uri]
  \/ \E query \in Queries, param \in ParamNames :
       sample = [fn |-> "query", query |-> query, param |-> param]
  \/ \E o \in Origins, list \in CandidateLists :
       sample = [fn |-> "cors", origin |-> o, list |-> list]

TextSpec == SampleInit /\ [][UNCHANGED sample]_sample

-------------------------------------------------------------------------------
\* Properties of the functions.

\* What url_encode makes of any text (the payload of Netflix, nf_callbacks.c), urldecode
\* makes the text again.
UrlRoundTrip ==
  sample.fn = "text" =>
    urldecode(url_encode(sample.text), 3 * Len(sample.text)) = sample.text

\* What url_decode_xml_encode makes of a stored text for the status is the whole
\* of it with every special character replaced, although the room for it is
\* twice the stored text and an escape may be six characters: only a text that is
\* nothing but quotes and apostrophes loses its last one.  (Of what it makes,
\* handle_app_status and mg_printf then show as much as their buffers hold.)
EscapesWhole ==
  sample.fn = "text" /\ (\E i \in DOMAIN sample.text : sample.text[i] \notin {Ch.quot, Ch.apos})
    => url_decode_xml_encode(url_encode(sample.text))
         = FlattenSeq([i \in DOMAIN sample.text |-> XmlEscape(sample.text[i])])

\* What handle_app_status writes never exceeds the 2n bytes it allocates for a
\* text of n bytes, escaped or not.
EncodedFits ==
  sample.fn = "text" => Len(url_decode_xml_encode(sample.text)) <= 2 * Len(sample.text)

\* The application that gets the data is the one whose name the client escaped
\* into the URI, after mongoose has decoded and cleaned the path: unless the
\* name begins with two dots, which are removed.
DataForNamedApp ==
  sample.fn = "name" /\ ~IsPrefix(<<Ch.dot, Ch.dot>>, sample.name) =>
    parse_app_name(remove_double_dots_and_double_slashes(url_decode(
        APPS_URI \o url_encode(sample.name) \o DIAL_DATA_URI)))
      = sample.name

\* The URIs of an application lead to the handlers and to its name, although
\* request_handler only looks at their length and their end, and even if the
\* application is named like a part of a URI: again but for two dots.
PathsReachTheirApp ==
  sample.fn = "name" /\ ~IsPrefix(<<Ch.dot, Ch.dot>>, sample.name) =>
    LET app == APPS_URI \o sample.name
        Handles(method, path, op) ==
          request_handler(method, path) = [op |-> op, app |-> sample.name]
    IN  /\ Handles("POST", app, "start") /\ Handles("GET", app, "status")
        /\ Handles("DELETE", app \o RUN_URI, "stop")
        /\ Handles("POST", app \o RUN_URI \o HIDE_URI, "hide")
        /\ Handles("POST", app \o DIAL_DATA_URI, "data")

\* parse_param looks for the name of a parameter (clientDialVer, key) anywhere in
\* the query, and still finds the value of that parameter, to its '&' or the
\* end, if no field before it has the name in it.
ParamByName ==
  sample.fn = "query" =>
    LET fields == Fields(sample.query, {Ch.amp})
        first == SelectInSeq(fields, LAMBDA f : FirstAt(sample.param, f) # 0)
    IN  first # 0 /\ IsPrefix(Append(sample.param, Ch.eq), fields[first])
          => parse_param(sample.query, sample.param)
               = From(fields[first], Len(sample.param) + 1)

\* "Protect against directory disclosure": no slash of the cleaned path is
\* followed by two dots, also where the cleaning has joined its ends.
NoParentDirectory ==
  sample.fn = "uri" =>
    LET path == remove_double_dots_and_double_slashes(sample.uri)
    IN  \A i \in 1 .. Len(path) - 2 :
          ~(IsSlash(path[i]) /\ path[i + 1] = Ch.dot /\ path[i + 2] = Ch.dot)

\* The parts, with sep between them.
Joined(parts, sep) ==
  FlattenSeq([i \in DOMAIN parts |-> IF i = 1 THEN parts[i] ELSE <<sep>> \o parts[i]])

\* An origin or a candidate as a text.
HostText(u) ==
  (IF u.wild THEN <<Ch.star, Ch.dot>> ELSE <<>>) \o Joined(u.host, Ch.dot)
PortText(port) == IF port = <<>> THEN <<>> ELSE <<Ch.colon>> \o port
HttpsText(u) == <<Https>> \o (HostText(u) \o PortText(u.port))

\* The rules that the comments of host_matches state: the hosts are equal, or the
\* candidate "may accept any subdomain", so that the origin's host "ends with the
\* portion of the host that occurs after the subdomain wildcard"; and the ports
\* are equal unless the candidate has none, or has 443 and the origin none.
Documented(o, c) ==
  /\ IF c.wild THEN \E n \in 1 .. Len(o.host) - 1 : From(o.host, n) = c.host
               ELSE o.host = c.host
  /\ \/ c.port \in {<<>>, o.port}
     \/ c.port = <<52, 52, 51>> /\ o.port = <<>>

\* What the code makes of them: the '*' stands for one label.
OneLabel(o, c) == c.wild => Len(o.host) = Len(c.host) + 1

OriginAccepted ==
  LET texts == [i \in DOMAIN sample.list |-> HttpsText(sample.list[i])]
  IN  is_uri_in_list(HttpsText(sample.origin), Joined(texts, Ch.space))

\* An origin is accepted if and only if one of the listed candidates accepts it,
\* wherever in the list it is: by the documented rules for hosts and ports, and
\* a subdomain only if it is one label longer than the domain.
OriginMatching ==
  sample.fn = "cors" =>
    (OriginAccepted <=> \E i \in DOMAIN sample.list :
                          /\ Documented(sample.origin, sample.list[i])
                          /\ OneLabel(sample.origin, sample.list[i]))

\* An origin that a listed candidate accepts by the documented rules is accepted
\* (is_uri_in_list, host_matches).
SubdomainsAsDocumented ==
  sample.fn = "cors" =>
    ((\E i \in DOMAIN sample.list : Documented(sample.origin, sample.list[i]))
       => OriginAccepted)
===============================================================================
