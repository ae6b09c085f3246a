----------------------------- MODULE MCDialClient -----------------------------
\* Instances of DialClient for TLC.
EXTENDS DialClient

CONSTANTS h1, h2

Netflix == <<78, 101, 116, 102, 108, 105, 120>>
Netflix1 == Append(Netflix, 49)
NetflixEscaped == <<37, 52, 101>> \o Tail(Netflix)       \* %4eetflix

NetflixOnly == {Netflix}
ErrorNames == {Netflix1, NetflixEscaped, System}
AllText == <<65, 76, 76>>

\* A server whose port has a code in it.
Addresses == [h \in Hosts |-> IF h = h1 THEN {"404"} ELSE {}]

\* A line of the input file.
Line(op, app, expect) == [op |-> op, app |-> app, payload |-> "fine", expect |-> expect]

InputFile ==
  << Line("launch", AllText, "201"),
     Line("stop", Netflix, "200"),
     [Line("launch", Netflix, "413") EXCEPT !.payload = "long"],
     Line("status", NetflixEscaped, "200"),
     Line("stop", System, "403") >>
===============================================================================
