------------------------------ MODULE DialRoutes ------------------------------
(***************************************************************************)
(* Which operation a URI and a method ask for: handle_request of           *)
(* server/mongoose.c and request_handler of server/dial_server.c, without  *)
(* its checks of the origin and of the sender of data.  A text is a        *)
(* sequence of bytes, see UrlLib.                                          *)
(***************************************************************************)
EXTENDS UrlLib

CONSTANT MaxName       \* bytes of a name in a .../run or .../hide URI: 255

ASSUME RoutesAssumption == MaxName \in Nat

\* What a URI can name: mongoose's url_decode leaves a '+' alone, which the
\* client's encoder writes for a space, and a slash is cut out of the path.
NameByte == Byte \ {0, Ch.space, Ch.slash, Ch.backslash}

\* The names whose URIs are left alone by the cleaning of a path.
AppName ==
  {name \in Seq(NameByte) :
     Len(name) \in 1 .. MaxName /\ ~IsPrefix(<<Ch.dot, Ch.dot>>, name)}

\* The names that stand for themselves in a URL: unreserved characters only.
UrlByte == {c \in Byte : IsAlnum(c) \/ c \in {45, Ch.dot, 95, 126}}
UrlName == (AppName \cap Seq(UrlByte)) \ {<<Ch.dot>>}

APPS_URI == <<47, 97, 112, 112, 115, 47>>                         \* /apps/
RUN_URI == <<47, 114, 117, 110>>                                  \* /run
HIDE_URI == <<47, 104, 105, 100, 101>>                            \* /hide
DIAL_DATA_URI == <<47, 100, 105, 97, 108, 95, 100, 97, 116, 97>>  \* /dial_data

\* What is between the length of APPS_URI and the last n bytes, whatever the
\* bytes before and after are.
NameBefore(uri, n) ==
  LET appname_len == Len(uri) - n - Len(APPS_URI)
  IN  SubSeq(uri, Len(APPS_URI) + 1,
             Len(APPS_URI) + (IF appname_len > MaxName THEN MaxName ELSE appname_len))

\* Mutant: the end of the URI is all that counts.
IsRunUriByEnd(uri) == IsSuffix(RUN_URI, uri)

IsRunUri(uri) ==
  Len(uri) > Len(RUN_URI) + Len(APPS_URI) /\ IsSuffix(RUN_URI, uri)

IsAppUri(uri) ==
  /\ Len(uri) > Len(APPS_URI) /\ IsPrefix(APPS_URI, uri)
  /\ SelectInSeq(From(uri, Len(APPS_URI)), LAMBDA c : c = Ch.slash) = 0

IsHideUri(uri) ==
  /\ Len(uri) > Len(HIDE_URI) + Len(RUN_URI) + Len(APPS_URI)
  /\ IsSuffix(HIDE_URI, uri)

IsDataUri(uri) == FirstAt(DIAL_DATA_URI, uri) # 0

\* The tests are made in this order.
Resource(uri) ==
  CASE IsRunUri(uri) -> [path |-> "run", app |-> NameBefore(uri, Len(RUN_URI))]
    [] ~IsRunUri(uri) /\ IsAppUri(uri) ->
         [path |-> "app", app |-> From(uri, Len(APPS_URI))]
    [] ~IsRunUri(uri) /\ ~IsAppUri(uri) /\ IsHideUri(uri) ->
         [path |-> "hide", app |-> NameBefore(uri, Len(HIDE_URI) + Len(RUN_URI))]
    [] ~IsRunUri(uri) /\ ~IsAppUri(uri) /\ ~IsHideUri(uri) /\ IsDataUri(uri) ->
         [path |-> "data", app |-> parse_app_name(uri)]
    [] OTHER -> [path |-> "other", app |-> <<>>]

\* The handler for the method, or the response sent at once.
Operation(method, resource) ==
  CASE resource.path = "other" -> "404"
    [] resource.path = "data" /\ method # "OPTIONS" -> "data"
    [] resource.path = "run" /\ method = "DELETE" /\ resource.app # <<>> -> "stop"
    [] resource.path = "app" /\ method = "POST" -> "start"
    [] resource.path = "app" /\ method = "GET" -> "status"
    [] resource.path = "hide" /\ method = "POST" /\ resource.app # <<>> -> "hide"
    [] method = "OPTIONS" /\ resource.path # "other" -> "204"
    [] OTHER -> "501"

\* What becomes of the decoded path of a request line.
request_handler(method, path) ==
  LET resource == Resource(remove_double_dots_and_double_slashes(path))
  IN  [op |-> Operation(method, resource), app |-> resource.app]

\* Mongoose's handle_request: the query is cut off, the rest decoded.
handle_request(method, target) ==
  request_handler(method, url_decode(Span(target, Byte \ {Ch.question})))
===============================================================================
