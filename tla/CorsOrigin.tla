------------------------------ MODULE CorsOrigin ------------------------------
(***************************************************************************)
(* The comparison of an Origin header with the corsAllowedOrigin of an     *)
(* application (host_matches to is_uri_in_list in server/dial_server.c).   *)
(* A text is a sequence of bytes in which the scheme, "https://" say, is   *)
(* one symbol: the code compares it as a whole.                            *)
(***************************************************************************)
EXTENDS UrlLib

Https == 256           \* "https://"

LastColon(host) == SelectLastInSeq(host, LAMBDA c : c = Ch.colon)
FirstDot(host) == SelectInSeq(host, LAMBDA c : c = Ch.dot)

Port443 == <<Ch.colon, 52, 52, 51>>

\* host without its last colon and what follows it.
WithoutPort(host) == SubSeq(host, 1, LastColon(host) - 1)

\* The hosts that are compared, once the ports that do not matter are dropped:
\* 443 of the candidate if the origin has no port, and the origin's if the
\* candidate has none.
ComparedHost(origin, host) ==
  IF LastColon(host) # 0 /\ From(host, LastColon(host) - 1) = Port443
     /\ LastColon(origin) = 0
  THEN WithoutPort(host) ELSE host

\* Mutant: the port of the origin never matters.
ComparedOriginNoPort(origin, host) ==
  IF LastColon(origin) # 0 THEN WithoutPort(origin) ELSE origin

ComparedOrigin(origin, host) ==
  IF LastColon(host) = 0 /\ LastColon(origin) # 0 THEN WithoutPort(origin) ELSE origin

AcceptsSubdomain(host) == Len(host) > 2 /\ host[1] = Ch.star /\ host[2] = Ch.dot

\* The origin from its first dot on is the candidate after its '*'.
SubdomainMatches(origin, host) ==
  /\ Len(origin) >= Len(host)
  /\ FirstDot(origin) # 0
  /\ From(origin, FirstDot(origin) - 1) = From(host, 1)

host_matches(origin, candidate) ==
  /\ origin # <<>> /\ candidate # <<>>
  /\ origin[1] = Https /\ candidate[1] = Https
  /\ LET o == ComparedOrigin(Tail(origin), Tail(candidate))
         h == ComparedHost(Tail(origin), Tail(candidate))
     IN  /\ o # <<>> /\ h # <<>>
         /\ IF AcceptsSubdomain(h) THEN SubdomainMatches(o, h) ELSE o = h

origin_matches(origin, candidate) ==
  IF Len(candidate) > 1 /\ Last(candidate) = Ch.star
  THEN Len(origin) >= Len(candidate) /\ IsPrefix(Front(candidate), origin)
  ELSE origin = candidate

\* The candidates are separated by single spaces.
Candidates(list) ==
  LET parts[n \in 0 .. Len(list)] ==         \* those of the first n bytes
        IF n = 0 THEN << <<>> >>
        ELSE LET before == parts[n - 1]
             IN  IF list[n] = Ch.space THEN Append(before, <<>>)
                 ELSE [before EXCEPT ![Len(before)] = Append(@, list[n])]
  IN  parts[Len(list)]

Matches(origin, candidate) ==
  IF origin # <<>> /\ origin[1] = Https
  THEN host_matches(origin, candidate)
  ELSE origin_matches(origin, candidate)

is_uri_in_list(origin, list) ==
  \E i \in DOMAIN Candidates(list) : Matches(origin, Candidates(list)[i])
===============================================================================
