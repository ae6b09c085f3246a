------------------------------- MODULE UrlLib -------------------------------
(***************************************************************************)
(* server/url_lib.c, and the text functions of server/mongoose.c that the  *)
(* requests go through: pure functions over texts.  A text is a sequence   *)
(* of bytes.  In memory a 0 ends it: no text holds one, and decoding an    *)
(* escape of 0 ends the text there.                                        *)
(***************************************************************************)
EXTENDS Integers, SequencesExt

\* The characters that mean something to these functions.
Ch == [lf |-> 10, cr |-> 13, space |-> 32, quot |-> 34, percent |-> 37,
       amp |-> 38, apos |-> 39, star |-> 42, plus |-> 43, dot |-> 46,
       slash |-> 47, zero |-> 48, colon |-> 58, lt |-> 60, eq |-> 61, gt |-> 62,
       question |-> 63, backslash |-> 92, a |-> 97]

Byte == 0 .. 255
Blanks == {Ch.space} \cup 9 .. 13        \* what isspace accepts
IsAlnum(c) == c \in (48 .. 57) \cup (65 .. 90) \cup (97 .. 122)

\* The parts of text between the bytes that are in cuts, as strtok and scanf's
\* %s find them: none is empty.
Fields(text, cuts) ==
  LET fields[n \in 0 .. Len(text)] ==        \* those of the first n bytes
        IF n = 0 THEN <<>>
        ELSE LET before == fields[n - 1]
             IN  IF text[n] \in cuts THEN before
                 ELSE IF n = 1 \/ text[n - 1] \in cuts THEN Append(before, <<text[n]>>)
                 ELSE [before EXCEPT ![Len(before)] = Append(@, text[n])]
  IN  fields[Len(text)]

\* text without its first n bytes.
From(text, n) == SubSeq(text, n + 1, Len(text))

\* The longest beginning of text whose bytes are in chars.
Span(text, chars) ==
  LET stop == SelectInSeq(text, LAMBDA c : c \notin chars)
  IN  IF stop = 0 THEN text ELSE SubSeq(text, 1, stop - 1)

-------------------------------------------------------------------------------
\* URL escapes.

\* The value of a hex digit, -1 for another byte.
HexValue(c) ==
  CASE c \in 48 .. 57 -> c - 48
    [] c \in 65 .. 70 -> c - 55
    [] c \in 97 .. 102 -> c - 87
    [] OTHER -> -1

IsEscape(text, i) ==
  /\ text[i] = Ch.percent /\ i + 2 <= Len(text)
  /\ HexValue(text[i + 1]) >= 0 /\ HexValue(text[i + 2]) >= 0

\* Mutant: both digits are taken from the same place.
EscapedTwice(text, i) == 16 * HexValue(text[i + 2]) + HexValue(text[i + 2])

\* The byte that the escape at text[i] stands for.
Escaped(text, i) == 16 * HexValue(text[i + 1]) + HexValue(text[i + 2])

\* At most max_size bytes; decoding ends at an escape that is none, and what
\* is decoded at a 0.
urldecode(text, max_size) ==
  LET decode[i \in 1 .. Len(text) + 1] ==
        IF i > Len(text) \/ (IsEscape(text, i) /\ Escaped(text, i) = 0) THEN <<>>
        ELSE IF text[i] = Ch.plus THEN <<Ch.space>> \o decode[i + 1]
        ELSE IF IsEscape(text, i) THEN <<Escaped(text, i)>> \o decode[i + 3]
        ELSE IF text[i] = Ch.percent THEN <<>>
        ELSE <<text[i]>> \o decode[i + 1]
  IN  SubSeq(decode[1], 1, IF Len(decode[1]) < max_size THEN Len(decode[1]) ELSE max_size)

\* Mongoose's: '+' stands for itself, and so does an escape that is none.
url_decode(text) ==
  LET decode[i \in 1 .. Len(text) + 1] ==
        IF i > Len(text) \/ (IsEscape(text, i) /\ Escaped(text, i) = 0) THEN <<>>
        ELSE IF IsEscape(text, i) THEN <<Escaped(text, i)>> \o decode[i + 3]
        ELSE <<text[i]>> \o decode[i + 1]
  IN  decode[1]

\* to_hex: lower case.
HexDigit(n) == IF n < 10 THEN Ch.zero + n ELSE Ch.a + n - 10

UrlEncodeByte(c) ==
  CASE IsAlnum(c) \/ c \in {45, 95, Ch.dot, 126} -> <<c>>
    [] c = Ch.space -> <<Ch.plus>>
    [] OTHER -> <<Ch.percent, HexDigit(c \div 16), HexDigit(c % 16)>>

url_encode(text) == FlattenSeq([i \in DOMAIN text |-> UrlEncodeByte(text[i])])

-------------------------------------------------------------------------------
\* XML escapes.

\* &amp;  &quot;  &apos;  &lt;  &gt;
XmlEscape(c) ==
  CASE c = Ch.amp -> <<Ch.amp, 97, 109, 112, 59>>
    [] c = Ch.quot -> <<Ch.amp, 113, 117, 111, 116, 59>>
    [] c = Ch.apos -> <<Ch.amp, 97, 112, 111, 115, 59>>
    [] c = Ch.lt -> <<Ch.amp, 108, 116, 59>>
    [] c = Ch.gt -> <<Ch.amp, 103, 116, 59>>
    [] OTHER -> <<c>>

\* Mutant: the room for the escape is not looked at.
XmlFitsByte(dst, c, max_size) == Len(dst) < max_size

\* Mutant: one character of room too many is asked for.
XmlFitsTight(dst, c, max_size) ==
  /\ Len(dst) < max_size
  /\ Len(XmlEscape(c)) = 1 \/ Len(dst) + Len(XmlEscape(c)) + 1 < max_size

\* An escape has to end before max_size, a character at it.
XmlFits(dst, c, max_size) ==
  /\ Len(dst) < max_size
  /\ Len(XmlEscape(c)) = 1 \/ Len(dst) + Len(XmlEscape(c)) < max_size

\* An escape that does not fit is left out, and the characters after it are not.
XmlAppend(dst, c, max_size) ==
  IF XmlFits(dst, c, max_size) THEN dst \o XmlEscape(c) ELSE dst

xmlencode(text, max_size) ==
  LET dst[n \in 0 .. Len(text)] ==
        IF n = 0 THEN <<>> ELSE XmlAppend(dst[n - 1], text[n], max_size)
  IN  dst[Len(text)]

\* What handle_app_status shows of a key or a value of the stored data.
url_decode_xml_encode(text) ==
  xmlencode(urldecode(text, Len(text)), 2 * Len(text))

-------------------------------------------------------------------------------
\* URIs and queries.

Unknown == <<117, 110, 107, 110, 111, 119, 110>>   \* "unknown"

\* Mutant: the search for the slash before the name begins at the last one.
PreviousSlashLate(uri, last) ==
  SelectLastInSubSeq(uri, 1, last, LAMBDA c : c = Ch.slash)

\* The slash before the one at last, 0 if there is none.
PreviousSlash(uri, last) ==
  SelectLastInSubSeq(uri, 1, last - 1, LAMBDA c : c = Ch.slash)

\* The part of the URI between its last two slashes.
parse_app_name(uri) ==
  LET last == SelectLastInSeq(uri, LAMBDA c : c = Ch.slash)
  IN  IF last <= 1 THEN Unknown
      ELSE SubSeq(uri, PreviousSlash(uri, last) + 1, last - 1)

\* Where name begins in query for the first time, 0 if it does not (strstr).
FirstAt(name, query) ==
  LET at == {i \in 1 .. Len(query) - Len(name) + 1 :
               SubSeq(query, i, i + Len(name) - 1) = name}
  IN  IF at = {} THEN 0 ELSE Min(at)

\* Mutant: the value is what follows the first '=' of the query.
AfterFirstEq(query, start) ==
  From(query, SelectInSeq(query, LAMBDA c : c = Ch.eq))

\* The rest of query after the '=' that follows start; nothing if none does.
AfterEq(query, start) ==
  LET eq == SelectInSubSeq(query, start, Len(query), LAMBDA c : c = Ch.eq)
  IN  IF eq = 0 THEN <<>> ELSE From(query, eq)

NoParam == <<0>>       \* NULL, which is no text

\* The value after the first place where name appears, be it the name of a
\* parameter or not.
parse_param(query, name) ==
  LET start == FirstAt(name, query)
  IN  IF start = 0 THEN NoParam ELSE Span(AfterEq(query, start), Byte \ {Ch.amp})

\* sscanf(field, "%[^=]=%s"): both conversions match or there is no pair.
ParamKey(field) == Span(field, Byte \ {Ch.eq})
ParamValue(field) ==
  LET rest == From(field, Len(ParamKey(field)) + 1)
  IN  Span(From(rest, Len(Span(rest, Blanks))), Byte \ Blanks)
IsParam(field) == ParamKey(field) # <<>> /\ ParamValue(field) # <<>>

\* The parameters, last first; none at all if one of them is malformed.
parse_params(query) ==
  LET text == IF query # <<>> /\ query[1] = Ch.question THEN Tail(query) ELSE query
      fields == Fields(text, {Ch.amp})
  IN  IF \E i \in DOMAIN fields : ~IsParam(fields[i]) THEN <<>>
      ELSE Reverse([i \in DOMAIN fields |->
                      [key |-> ParamKey(fields[i]), value |-> ParamValue(fields[i])]])

-------------------------------------------------------------------------------
\* The path of a URI.

IsSlash(c) == c \in {Ch.slash, Ch.backslash}

\* The first place from i on that is not a slash.
AfterSlashes(uri, i) ==
  Min({j \in i .. Len(uri) + 1 : j > Len(uri) \/ ~IsSlash(uri[j])})

\* Mutant: one pair of dots is removed.
AfterOneDoubleDot(uri, i) ==
  IF i + 1 <= Len(uri) /\ uri[i] = Ch.dot /\ uri[i + 1] = Ch.dot THEN i + 2 ELSE i

\* The first place from i on, in steps of two, that two dots do not begin at.
AfterDoubleDots(uri, i) ==
  LET dots == Len(Span(From(uri, i - 1), {Ch.dot}))
  IN  i + 2 * (dots \div 2)

remove_double_dots_and_double_slashes(uri) ==
  LET copy[i \in 1 .. Len(uri) + 1] ==
        IF i > Len(uri) THEN <<>>
        ELSE <<uri[i]>> \o copy[IF IsSlash(uri[i])
                                THEN AfterDoubleDots(uri, AfterSlashes(uri, i + 1))
                                ELSE i + 1]
  IN  copy[1]
===============================================================================
