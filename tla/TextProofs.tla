------------------------------ MODULE TextProofs ------------------------------
(***************************************************************************)
(* Proofs of what ServerText promises of the functions on texts, for texts *)
(* of any length.                                                          *)
(***************************************************************************)
EXTENDS ServerText, TextLemmas

\* The code of a byte is one wherever it is.
LEMMA CodeWithin ==
  ASSUME NEW e \in Seq(Byte), NEW u \in Seq(Byte), NEW d \in Nat, HasAt(e, d, u),
         NEW p \in Nat, NEW q \in Nat, q <= Len(u), NEW c, CodeAt(u, p, q, c)
  PROVE  CodeAt(e, d + p, d + q, c)
<1>1. /\ Len(u) \in Nat /\ Len(e) \in Nat /\ d + Len(u) <= Len(e)
      /\ \A k \in 1 .. Len(u) : e[d + k] = u[k]
  BY DEF HasAt
<1>2. CASE q = p + 1
  <2>1. q \in 1 .. Len(u) /\ d + q = d + p + 1
    BY <1>1, <1>2
  <2>2. e[d + q] = u[q]
    BY <1>1, <2>1
  <2>3. CASE u[q] = c /\ c \notin {Ch.percent, Ch.plus}
    BY <2>1, <2>2, <2>3 DEF CodeAt
  <2>4. CASE u[q] = Ch.plus /\ c = Ch.space
    BY <2>1, <2>2, <2>4 DEF CodeAt
  <2>5. q # p + 3
    BY <1>2
  <2> QED
    BY <2>3, <2>4, <2>5 DEF CodeAt
<1>3. CASE q = p + 3
  <2>1. IsEscape(u, p + 1) /\ Escaped(u, p + 1) = c
    BY <1>3 DEF CodeAt
  <2> DEFINE k == p + 1
             m == d + p + 1
  <2>2. /\ k \in 1 .. Len(u) /\ k + 1 \in 1 .. Len(u) /\ k + 2 \in 1 .. Len(u)
        /\ d + k = m /\ d + (k + 1) = m + 1 /\ d + (k + 2) = m + 2 /\ d + q = d + p + 3
        /\ m + 2 <= Len(e)
    BY <1>1, <1>3
  <2> HIDE DEF k, m
  <2>3. e[m] = u[k] /\ e[m + 1] = u[k + 1] /\ e[m + 2] = u[k + 2]
    BY <1>1, <2>2
  <2>4. IsEscape(e, m) /\ Escaped(e, m) = c
    BY <2>1, <2>2, <2>3 DEF IsEscape, Escaped, k
  <2> QED
    BY <2>2, <2>4 DEF CodeAt, m
<1> QED
  BY <1>2, <1>3 DEF CodeAt

LEMMA CodesConcat ==
  ASSUME NEW e \in Seq(Byte), NEW t \in Seq(Byte), NEW pos, IsCoded(e, t, pos),
         NEW f \in Seq(Byte), NEW u \in Seq(Byte), NEW qos, IsCoded(f, u, qos)
  PROVE  \E r : IsCoded(e \o f, t \o u, r)
<1> DEFINE n == Len(t)
           m == Len(u)
           a == Len(e)
           b == Len(f)
           w == e \o f
           v == t \o u
           r == [i \in 0 .. n + m |-> IF i <= n THEN pos[i] ELSE a + qos[i - n]]
<1>1. n \in Nat /\ m \in Nat /\ a \in Nat /\ b \in Nat
  OBVIOUS
<1>2. /\ pos \in [0 .. n -> 0 .. a] /\ pos[0] = 0 /\ pos[n] = a
      /\ \A i \in 1 .. n : CodeAt(e, pos[i - 1], pos[i], t[i])
  BY DEF IsCoded
<1>3. /\ qos \in [0 .. m -> 0 .. b] /\ qos[0] = 0 /\ qos[m] = b
      /\ \A i \in 1 .. m : CodeAt(f, qos[i - 1], qos[i], u[i])
  BY DEF IsCoded
<1>4. w \in Seq(Byte) /\ Len(w) = a + b /\ HasAt(w, 0, e) /\ HasAt(w, a, f)
  BY ConcatHas
<1>5. v \in Seq(Byte) /\ Len(v) = n + m /\ HasAt(v, 0, t) /\ HasAt(v, n, u)
  BY ConcatHas
<1> HIDE DEF n, m, a, b, w, v
<1>6. \A i \in 0 .. n : r[i] = pos[i]
  BY <1>1
<1>7. \A i \in 0 .. m : r[n + i] = a + qos[i]
  <2> SUFFICES ASSUME NEW i \in 0 .. m PROVE r[n + i] = a + qos[i]
    OBVIOUS
  <2>1. n + i \in 0 .. n + m /\ n + i - n = i /\ (n + i <= n => i = 0)
    BY <1>1
  <2>2. CASE i = 0
    <3>1. n + i = n /\ n \in 0 .. n /\ a + 0 = a
      BY <1>1, <2>2
    <3> QED
      BY <1>2, <1>3, <1>6, <2>2, <3>1
  <2>3. CASE i # 0
    BY <1>1, <2>1, <2>3
  <2> QED
    BY <2>2, <2>3
<1>8. r \in [0 .. n + m -> 0 .. a + b]
  <2> SUFFICES ASSUME NEW i \in 0 .. n + m PROVE (IF i <= n THEN pos[i] ELSE a + qos[i - n]) \in 0 .. a + b
    OBVIOUS
  <2>1. CASE i <= n
    <3>1. pos[i] \in 0 .. a
      BY <1>1, <1>2, <2>1
    <3> QED
      BY <1>1, <2>1, <3>1
  <2>2. CASE ~(i <= n)
    <3>1. i - n \in 0 .. m
      BY <1>1, <2>2
    <3>2. qos[i - n] \in 0 .. b
      BY <1>3, <3>1
    <3> QED
      BY <1>1, <2>2, <3>2
  <2> QED
    BY <2>1, <2>2
<1>9. r[0] = 0 /\ r[n + m] = a + b
  BY <1>1, <1>2, <1>3, <1>6, <1>7
<1> HIDE DEF r
<1>10. ASSUME NEW i \in 1 .. n + m PROVE CodeAt(w, r[i - 1], r[i], v[i])
  <2>1. CASE i <= n
    <3> DEFINE x == pos[i - 1]
               y == pos[i]
    <3>1. i \in 1 .. n /\ i - 1 \in 0 .. n /\ i \in 0 .. n
      BY <1>1, <2>1
    <3>2. x \in 0 .. a /\ y \in 0 .. a /\ CodeAt(e, x, y, t[i]) /\ r[i - 1] = x /\ r[i] = y
      BY <1>2, <1>6, <3>1
    <3>3. v[i] = t[i]
      <4>1. v[0 + i] = t[i] /\ 0 + i = i
        BY <1>5, <3>1 DEF HasAt, n
      <4> QED
        BY <4>1
    <3> HIDE DEF x, y
    <3>4. x \in Nat /\ y \in Nat /\ y <= Len(e) /\ 0 \in Nat
      BY <1>1, <3>2 DEF a
    <3>5. CodeAt(w, 0 + x, 0 + y, t[i])
      BY <1>4, <3>2, <3>4, CodeWithin
    <3>6. 0 + x = x /\ 0 + y = y
      BY <3>4
    <3> QED
      BY <3>2, <3>3, <3>5, <3>6
  <2>2. CASE ~(i <= n)
    <3> DEFINE j == i - n
               x == qos[j - 1]
               y == qos[j]
    <3>1. j \in 1 .. m /\ j - 1 \in 0 .. m /\ j \in 0 .. m /\ i = n + j /\ i - 1 = n + (j - 1)
      BY <1>1, <2>2
    <3> HIDE DEF j
    <3>2. x \in 0 .. b /\ y \in 0 .. b /\ CodeAt(f, x, y, u[j]) /\ r[i - 1] = a + x /\ r[i] = a + y
      BY <1>3, <1>7, <3>1
    <3>3. v[i] = u[j]
      BY <1>5, <3>1 DEF HasAt, m
    <3> HIDE DEF x, y
    <3>4. x \in Nat /\ y \in Nat /\ y <= Len(f) /\ a \in Nat
      BY <1>1, <3>2 DEF b
    <3>5. CodeAt(w, a + x, a + y, u[j])
      BY <1>4, <3>2, <3>4, CodeWithin
    <3> QED
      BY <3>2, <3>3, <3>5
  <2> QED
    BY <2>1, <2>2
<1>11. IsCoded(w, v, r)
  BY <1>4, <1>5, <1>8, <1>9, <1>10 DEF IsCoded
<1> QED
  BY <1>11 DEF w, v

LEMMA UriIsCode ==
  /\ \E pos : IsCoded(APPS_URI, APPS_URI, pos)
  /\ \E pos : IsCoded(DIAL_DATA_URI, DIAL_DATA_URI, pos)
<1>1. Ch.percent = 37 /\ Ch.plus = 43
  BY DEF Ch
<1>2. ASSUME NEW i \in 1 .. 6 PROVE APPS_URI[i] \notin {37, 43}
  <2>1. i = 1 \/ i = 2 \/ i = 3 \/ i = 4 \/ i = 5 \/ i = 6
    OBVIOUS
  <2> QED
    BY <2>1, UriBytes
<1>3. ASSUME NEW i \in 1 .. 10 PROVE DIAL_DATA_URI[i] \notin {37, 43}
  <2>1. \/ i = 1 \/ i = 2 \/ i = 3 \/ i = 4 \/ i = 5
        \/ i = 6 \/ i = 7 \/ i = 8 \/ i = 9 \/ i = 10
    OBVIOUS
  <2> QED
    BY <2>1, DataUriBytes
<1>4. /\ \A i \in 1 .. Len(APPS_URI) : APPS_URI[i] \notin {Ch.percent, Ch.plus}
      /\ \A i \in 1 .. Len(DIAL_DATA_URI) : DIAL_DATA_URI[i] \notin {Ch.percent, Ch.plus}
  BY <1>1, <1>2, <1>3, UriLengths
<1> QED
  BY <1>4, UriTypes, LiteralIsCode

LEMMA NoSpaceType ==
  ASSUME NEW t \in Seq(Byte), \A i \in 1 .. Len(t) : t[i] # 32
  PROVE  t \in Seq(Byte \ {Ch.space})
<1>1. Ch.space = 32
  BY DEF Ch
<1>2. \A i \in 1 .. Len(t) : t[i] \in Byte \ {Ch.space}
  BY <1>1
<1> QED
  BY <1>2

LEMMA UriHasNoSpace ==
  APPS_URI \in Seq(Byte \ {Ch.space}) /\ DIAL_DATA_URI \in Seq(Byte \ {Ch.space})
<1>1. ASSUME NEW i \in 1 .. 6 PROVE APPS_URI[i] # 32
  <2>1. i = 1 \/ i = 2 \/ i = 3 \/ i = 4 \/ i = 5 \/ i = 6
    OBVIOUS
  <2> QED
    BY <2>1, UriBytes
<1>2. ASSUME NEW i \in 1 .. 10 PROVE DIAL_DATA_URI[i] # 32
  <2>1. \/ i = 1 \/ i = 2 \/ i = 3 \/ i = 4 \/ i = 5
        \/ i = 6 \/ i = 7 \/ i = 8 \/ i = 9 \/ i = 10
    OBVIOUS
  <2> QED
    BY <2>1, DataUriBytes
<1>3. \A i \in 1 .. Len(APPS_URI) : APPS_URI[i] # 32
  BY <1>1, UriLengths
<1>4. \A i \in 1 .. Len(DIAL_DATA_URI) : DIAL_DATA_URI[i] # 32
  BY <1>2, UriLengths
<1>5. APPS_URI \in Seq(Byte \ {Ch.space})
  BY <1>3, UriTypes, NoSpaceType
<1>6. DIAL_DATA_URI \in Seq(Byte \ {Ch.space})
  BY <1>4, UriTypes, NoSpaceType
<1> QED
  BY <1>5, <1>6

\* The path that mongoose decodes is the one of the name.
LEMMA DecodedPath ==
  ASSUME NEW name, IsName(name)
  PROVE  url_decode(APPS_URI \o url_encode(name) \o DIAL_DATA_URI) = APPS_URI \o name \o DIAL_DATA_URI
<1> DEFINE code == url_encode(name)
           e == APPS_URI \o code \o DIAL_DATA_URI
           t == APPS_URI \o name \o DIAL_DATA_URI
<1>1. name \in Seq(Byte) /\ APPS_URI \in Seq(Byte) /\ DIAL_DATA_URI \in Seq(Byte)
  BY NameType, UriTypes
<1>2. code \in Seq(Byte)
  BY <1>1, NameType, UrlEncodedIsCode
<1>3. PICK pos : IsCoded(code, name, pos)
  BY <1>1, NameType, UrlEncodedIsCode
<1>4. PICK apps : IsCoded(APPS_URI, APPS_URI, apps)
  BY UriIsCode
<1>5. PICK data : IsCoded(DIAL_DATA_URI, DIAL_DATA_URI, data)
  BY UriIsCode
<1> HIDE DEF code
<1>6. PICK front : IsCoded(APPS_URI \o code, APPS_URI \o name, front)
  BY <1>1, <1>2, <1>3, <1>4, CodesConcat
<1>7. APPS_URI \o code \in Seq(Byte) /\ APPS_URI \o name \in Seq(Byte)
  BY <1>1, <1>2, ConcatProperties
<1>8. PICK whole : IsCoded(e, t, whole)
  BY <1>1, <1>5, <1>6, <1>7, CodesConcat
<1>9. e \in Seq(Byte)
  BY <1>1, <1>7, ConcatProperties
<1>10. t \in Seq(Byte \ {Ch.space})
  <2>1. \A i \in 1 .. Len(name) : name[i] \in Byte \ {Ch.space}
    BY NameType
  <2>2. name \in Seq(Byte \ {Ch.space})
    BY <1>1, <2>1
  <2>3. APPS_URI \in Seq(Byte \ {Ch.space}) /\ DIAL_DATA_URI \in Seq(Byte \ {Ch.space})
    BY UriHasNoSpace
  <2>4. APPS_URI \o name \in Seq(Byte \ {Ch.space})
    BY <2>2, <2>3, ConcatProperties
  <2> QED
    BY <2>3, <2>4, ConcatProperties
<1> HIDE DEF e, t
<1>11. url_decode(e) = t
  BY <1>8, <1>9, <1>10, UrlReadsCodes
<1> QED
  BY <1>11 DEF e, t, code

-------------------------------------------------------------------------------
\* The room for the escapes of a text.

\* L[i] is the length of the first i of n texts, of which part[i] is one.
Lengths(L, n, part) ==
  /\ L \in [0 .. n -> Nat] /\ L[0] = 0
  /\ \A i \in 1 .. n : L[i] = L[i - 1] + Len(part[i])

LEMMA GrownLengths ==
  ASSUME NEW S, NEW n \in Nat, NEW f \in [0 .. n -> Seq(S)], Len(f[0]) = 0,
         NEW g \in [1 .. n -> Seq(S)], Grows(f, g, n)
  PROVE  Lengths([i \in 0 .. n |-> Len(f[i])], n, g)
<1> DEFINE L == [i \in 0 .. n |-> Len(f[i])]
<1>1. \A i \in 0 .. n : L[i] = Len(f[i]) /\ Len(f[i]) \in Nat
  OBVIOUS
<1>2. L \in [0 .. n -> Nat]
  BY <1>1
<1>3. L[0] = 0
  BY <1>1
<1>4. ASSUME NEW i \in 1 .. n PROVE L[i] = L[i - 1] + Len(g[i])
  <2>1. Len(f[i]) = Len(f[i - 1]) + Len(g[i])
    <3>1. i - 1 \in 0 .. n
      OBVIOUS
    <3>2. f[i - 1] \in Seq(S) /\ g[i] \in Seq(S)
      BY <3>1
    <3>3. f[i] = f[i - 1] \o g[i]
      BY DEF Grows
    <3> QED
      BY <3>2, <3>3, ConcatProperties
  <2>2. i \in 0 .. n /\ i - 1 \in 0 .. n
    OBVIOUS
  <2> HIDE DEF L
  <2> QED
    BY <1>1, <2>1, <2>2
<1> HIDE DEF L
<1>5. Lengths(L, n, g)
  BY <1>2, <1>3, <1>4 DEF Lengths
<1> QED
  BY <1>5 DEF L

LEMMA EscapeRoom ==
  ASSUME NEW c \in Byte
  PROVE  /\ Len(XmlEscape(c)) <= 2 * Len(UrlEncodeByte(c))
         /\ c \notin {Ch.quot, Ch.apos} => Len(XmlEscape(c)) < 2 * Len(UrlEncodeByte(c))
         /\ Len(UrlEncodeByte(c)) \in 1 .. 3 /\ Len(XmlEscape(c)) \in Nat
<1>1. Len(UrlEncodeByte(c)) \in {1, 3}
  BY UrlEncodeByteType
<1>2. /\ Len(XmlEscape(c)) = CASE c = Ch.amp -> 5 [] c \in {Ch.quot, Ch.apos} -> 6
                               [] c \in {Ch.lt, Ch.gt} -> 4 [] OTHER -> 1
      /\ Len(XmlEscape(c)) \in 1 .. 6
  BY XmlEscapeType
<1>3. CASE c \in {Ch.amp, Ch.quot, Ch.apos, Ch.lt, Ch.gt}
  <2>1. ~(IsAlnum(c) \/ c \in {45, 95, Ch.dot, 126}) /\ c # Ch.space
    BY <1>3 DEF IsAlnum, Ch
  <2>2. UrlEncodeByte(c) = <<Ch.percent, HexDigit(c \div 16), HexDigit(c % 16)>>
    BY <2>1, Zenon DEF UrlEncodeByte
  <2>3. Len(UrlEncodeByte(c)) = 3
    BY <2>2
  <2>4. c \notin {Ch.quot, Ch.apos} => Len(XmlEscape(c)) < 6
    BY <1>2, <1>3 DEF Ch
  <2> QED
    BY <1>2, <2>3, <2>4
<1>4. CASE c \notin {Ch.amp, Ch.quot, Ch.apos, Ch.lt, Ch.gt}
  <2>1. Len(XmlEscape(c)) = 1
    BY <1>2, <1>4
  <2> DEFINE b == Len(UrlEncodeByte(c))
  <2>2. b = 1 \/ b = 3
    BY <1>1
  <2> HIDE DEF b
  <2>3. 1 <= 2 * b /\ 1 < 2 * b /\ b \in 1 .. 3
    BY <2>2
  <2> QED
    BY <2>1, <2>3 DEF b
<1> QED
  BY <1>3, <1>4

\* The room that the URL escapes u of n bytes make, twice their length, is never
\* used up by the XML escapes x, if one of the bytes is not the longest there.
Roomy(u, x, n, j) ==
  /\ \A i \in 1 .. n : /\ Len(x[i]) <= 2 * Len(u[i])
                       /\ Len(u[i]) \in 1 .. 3 /\ Len(x[i]) \in Nat
  /\ j \in 1 .. n /\ Len(x[j]) < 2 * Len(u[j])

LEMMA RoomLeft ==
  ASSUME NEW n \in Nat, NEW u, NEW x, NEW j, Roomy(u, x, n, j),
         NEW L, Lengths(L, n, u), NEW M, Lengths(M, n, x), NEW i \in 1 .. n
  PROVE  M[i] < 2 * L[n] /\ M[i - 1] < 2 * L[n]
<1>1. /\ L \in [0 .. n -> Nat] /\ L[0] = 0 /\ \A k \in 1 .. n : L[k] = L[k - 1] + Len(u[k])
      /\ M \in [0 .. n -> Nat] /\ M[0] = 0 /\ \A k \in 1 .. n : M[k] = M[k - 1] + Len(x[k])
  BY DEF Lengths
<1>2. /\ \A k \in 1 .. n : /\ Len(x[k]) <= 2 * Len(u[k])
                           /\ Len(u[k]) \in 1 .. 3 /\ Len(x[k]) \in Nat
      /\ j \in 1 .. n /\ Len(x[j]) < 2 * Len(u[j])
  BY DEF Roomy
<1> DEFINE T == {k \in Nat : k <= n => M[k] <= 2 * L[k] /\ (k >= j => M[k] < 2 * L[k])}
           R == {d \in Nat : d <= n => L[n - d] + d <= L[n]}
<1>3. 0 \in T
  BY <1>1, <1>2
<1>4. ASSUME NEW k \in Nat, k \in T PROVE k + 1 \in T
  <2> SUFFICES ASSUME k + 1 <= n
               PROVE  M[k + 1] <= 2 * L[k + 1] /\ (k + 1 >= j => M[k + 1] < 2 * L[k + 1])
    OBVIOUS
  <2> DEFINE a == Len(x[k + 1])
             b == Len(u[k + 1])
             l == L[k]
             m == M[k]
  <2>1. k \in 0 .. n /\ k + 1 \in 1 .. n /\ (k + 1) - 1 = k
    OBVIOUS
  <2>2. l \in Nat /\ m \in Nat /\ L[k + 1] = l + b /\ M[k + 1] = m + a
    BY <1>1, <2>1
  <2>3. a <= 2 * b /\ b \in 1 .. 3 /\ a \in Nat /\ (k + 1 = j => a < 2 * b)
    BY <1>2, <2>1
  <2>4. m <= 2 * l /\ (k >= j => m < 2 * l)
    BY <1>4, <2>1
  <2>5. k + 1 >= j => k >= j \/ k + 1 = j
    BY <1>2
  <2> HIDE DEF a, b, l, m
  <2>6. m + a <= 2 * (l + b) /\ (k + 1 >= j => m + a < 2 * (l + b))
    BY <2>2, <2>3, <2>4, <2>5
  <2> QED
    BY <2>2, <2>6
<1>5. 0 \in R
  <2>1. n - 0 = n /\ L[n] \in Nat
    BY <1>1
  <2> QED
    BY <2>1
<1>6. ASSUME NEW d \in Nat, d \in R PROVE d + 1 \in R
  <2> SUFFICES ASSUME d + 1 <= n PROVE L[n - (d + 1)] + (d + 1) <= L[n]
    OBVIOUS
  <2> DEFINE k == n - d
             b == Len(u[k])
             l == L[k - 1]
  <2>1. k \in 1 .. n /\ k - 1 \in 0 .. n /\ n - (d + 1) = k - 1 /\ n \in 0 .. n
    OBVIOUS
  <2> HIDE DEF k
  <2>2. l \in Nat /\ L[n] \in Nat /\ L[k] = l + b /\ b \in 1 .. 3
    BY <1>1, <1>2, <2>1
  <2>3. L[k] + d <= L[n]
    BY <1>6 DEF k
  <2> HIDE DEF b, l
  <2>4. l + (d + 1) <= L[n]
    BY <2>2, <2>3
  <2> QED
    BY <2>1, <2>4 DEF l
<1> HIDE DEF T, R
<1>7. Nat \subseteq T /\ Nat \subseteq R
  <2>1. Nat \subseteq T
    BY <1>3, <1>4, SetInduction
  <2>2. Nat \subseteq R
    BY <1>5, <1>6, SetInduction
  <2> QED
    BY <2>1, <2>2
<1>8. ASSUME NEW k \in 0 .. n PROVE M[k] < 2 * L[n]
  <2>1. M[k] <= 2 * L[k] /\ (k >= j => M[k] < 2 * L[k])
    <3>1. k \in T
      BY <1>7
    <3> QED
      BY <3>1 DEF T
  <2>2. L[k] + (n - k) <= L[n]
    <3>1. n - k \in Nat /\ n - k <= n /\ n - (n - k) = k
      OBVIOUS
    <3>2. n - k \in R
      BY <1>7, <3>1
    <3> QED
      BY <3>1, <3>2 DEF R
  <2>3. L[k] \in Nat /\ M[k] \in Nat /\ L[n] \in Nat
    BY <1>1
  <2>4. k = n => k >= j
    BY <1>2
  <2> QED
    BY <2>1, <2>2, <2>3, <2>4
<1>9. i \in 0 .. n /\ i - 1 \in 0 .. n
  OBVIOUS
<1> QED
  BY <1>8, <1>9

\* If nothing is left out, what has been written are the escapes, end to end.
LEMMA NothingLeftOut ==
  ASSUME NEW t \in Seq(Byte), NEW x, x = [i \in DOMAIN t |-> XmlEscape(t[i])],
         NEW g, Flattens(g, x, Byte), NEW max \in Nat,
         \A i \in 1 .. Len(t) : Len(g[i]) < max /\ Len(g[i - 1]) < max
  PROVE  xmlencode(t, max) = FlattenSeq(x)
<1> DEFINE n == Len(t)
<1>1. n \in Nat /\ DOMAIN t = 1 .. n /\ \A i \in 1 .. n : t[i] \in Byte
  OBVIOUS
<1>2. \A i \in 1 .. n : x[i] = XmlEscape(t[i]) /\ x[i] \in Seq(Byte)
  BY <1>1, XmlEscapeType
<1>3. Len(x) = n
  BY <1>1
<1>4. /\ g \in [0 .. n -> Seq(Byte)] /\ g[0] = <<>> /\ FlattenSeq(x) = g[n]
      /\ \A i \in 1 .. n : g[i] = g[i - 1] \o x[i]
  BY <1>3 DEF Flattens
<1>5. PICK d : Encodes(d, t, max)
  BY XmlRecursion
<1>6. /\ d[0] = <<>> /\ xmlencode(t, max) = d[n]
      /\ \A i \in 1 .. n : d[i] = XmlAppend(d[i - 1], t[i], max)
  BY <1>5 DEF Encodes
<1>7. \A i \in 1 .. n : Len(g[i]) < max /\ Len(g[i - 1]) < max
  OBVIOUS
<1> HIDE DEF n
<1>8. ASSUME NEW k \in 0 .. n - 1, d[k] = g[k] PROVE d[k + 1] = g[k + 1]
  <2> DEFINE a == g[k]
             e == XmlEscape(t[k + 1])
  <2>1. k + 1 \in 1 .. n /\ (k + 1) - 1 = k /\ k \in 0 .. n
    BY <1>1
  <2>2. a \in Seq(Byte) /\ e \in Seq(Byte)
    BY <1>2, <1>4, <2>1
  <2>3. g[k + 1] = a \o e
    BY <1>2, <1>4, <2>1
  <2>4. Len(g[k + 1]) < max /\ Len(a) < max
    BY <1>7, <2>1
  <2>5. d[k + 1] = XmlAppend(a, t[k + 1], max)
    BY <1>6, <1>8, <2>1
  <2>6. XmlAppend(a, t[k + 1], max) = IF XmlFits(a, t[k + 1], max) THEN a \o e ELSE a
    BY DEF XmlAppend
  <2>7. XmlFits(a, t[k + 1], max) <=> Len(a) < max /\ (Len(e) = 1 \/ Len(a) + Len(e) < max)
    BY DEF XmlFits
  <2> HIDE DEF a, e
  <2>8. Len(a \o e) = Len(a) + Len(e)
    BY <2>2, ConcatProperties
  <2>9. XmlFits(a, t[k + 1], max)
    BY <2>3, <2>4, <2>7, <2>8
  <2> QED
    BY <2>3, <2>5, <2>6, <2>9
<1>9. \A k \in 0 .. n : d[k] = g[k]
  <2>1. d[0] = g[0]
    BY <1>4, <1>6
  <2>2. \A k \in 0 .. n - 1 : d[k] = g[k] => d[k + 1] = g[k + 1]
    BY <1>8
  <2>3. n \in Nat
    BY <1>1
  <2> QED
    BY <2>1, <2>2, <2>3, Agree
<1> QED
  BY <1>1, <1>4, <1>6, <1>9

LEMMA ShowsWhole ==
  ASSUME NEW t \in Seq(Byte), \A i \in 1 .. Len(t) : t[i] # 0,
         NEW j \in 1 .. Len(t), t[j] \notin {Ch.quot, Ch.apos}
  PROVE  url_decode_xml_encode(url_encode(t))
           = FlattenSeq([i \in DOMAIN t |-> XmlEscape(t[i])])
<1> DEFINE n == Len(t)
           u == [i \in DOMAIN t |-> UrlEncodeByte(t[i])]
           x == [i \in DOMAIN t |-> XmlEscape(t[i])]
           e == url_encode(t)
<1>1. n \in Nat /\ DOMAIN t = 1 .. n /\ j \in 1 .. n /\ \A i \in 1 .. n : t[i] \in Byte
  OBVIOUS
<1>2. \A i \in 1 .. n : UrlEncodeByte(t[i]) \in Seq(Byte) /\ XmlEscape(t[i]) \in Seq(Byte)
  BY <1>1, UrlEncodeByteType, XmlEscapeType
<1>3. /\ u \in Seq(Seq(Byte)) /\ Len(u) = n /\ \A i \in 1 .. n : u[i] = UrlEncodeByte(t[i])
      /\ u \in [1 .. n -> Seq(Byte)]
  BY <1>1, <1>2
<1>4. /\ x \in Seq(Seq(Byte)) /\ Len(x) = n /\ \A i \in 1 .. n : x[i] = XmlEscape(t[i])
      /\ x \in [1 .. n -> Seq(Byte)]
  BY <1>1, <1>2
<1>5. e = FlattenSeq(u)
  BY DEF url_encode
<1> HIDE DEF n, u, e
<1>6. x = [i \in DOMAIN t |-> XmlEscape(t[i])]
  OBVIOUS
<1> HIDE DEF x
<1>7. PICK f : Flattens(f, u, Byte)
  BY <1>3, FlattenRecursion
<1>8. PICK g : Flattens(g, x, Byte)
  BY <1>4, FlattenRecursion
<1>9. f \in [0 .. n -> Seq(Byte)] /\ f[0] = <<>> /\ e = f[n]
  BY <1>3, <1>5, <1>7 DEF Flattens
<1>10. Grows(f, u, n)
  <2>1. \A i \in 1 .. n : f[i] = f[i - 1] \o u[i]
    BY <1>3, <1>7 DEF Flattens
  <2> QED
    BY <2>1 DEF Grows
<1>11. g \in [0 .. n -> Seq(Byte)] /\ g[0] = <<>>
  BY <1>4, <1>8 DEF Flattens
<1>12. Grows(g, x, n)
  <2>1. \A i \in 1 .. n : g[i] = g[i - 1] \o x[i]
    BY <1>4, <1>8 DEF Flattens
  <2> QED
    BY <2>1 DEF Grows
<1> DEFINE L == [i \in 0 .. n |-> Len(f[i])]
           M == [i \in 0 .. n |-> Len(g[i])]
<1>13. Lengths(L, n, u)
  <2>1. n \in Nat /\ f \in [0 .. n -> Seq(Byte)] /\ Len(f[0]) = 0
    BY <1>1, <1>9
  <2>2. u \in [1 .. n -> Seq(Byte)]
    BY <1>3
  <2> QED
    BY <1>10, <2>1, <2>2, GrownLengths
<1>14. Lengths(M, n, x)
  <2>1. n \in Nat /\ g \in [0 .. n -> Seq(Byte)] /\ Len(g[0]) = 0
    BY <1>1, <1>11
  <2>2. x \in [1 .. n -> Seq(Byte)]
    BY <1>4
  <2> QED
    BY <1>12, <2>1, <2>2, GrownLengths
<1>15. Roomy(u, x, n, j)
  <2>1. ASSUME NEW i \in 1 .. n
        PROVE  /\ Len(x[i]) <= 2 * Len(u[i]) /\ Len(u[i]) \in 1 .. 3 /\ Len(x[i]) \in Nat
               /\ t[i] \notin {Ch.quot, Ch.apos} => Len(x[i]) < 2 * Len(u[i])
    <3>1. t[i] \in Byte /\ u[i] = UrlEncodeByte(t[i]) /\ x[i] = XmlEscape(t[i])
      BY <1>1, <1>3, <1>4
    <3>2. /\ Len(XmlEscape(t[i])) <= 2 * Len(UrlEncodeByte(t[i]))
          /\ t[i] \notin {Ch.quot, Ch.apos} => Len(XmlEscape(t[i])) < 2 * Len(UrlEncodeByte(t[i]))
          /\ Len(UrlEncodeByte(t[i])) \in 1 .. 3 /\ Len(XmlEscape(t[i])) \in Nat
      BY <3>1, EscapeRoom
    <3> QED
      BY <3>1, <3>2, Zenon
  <2>2. Len(x[j]) < 2 * Len(u[j])
    BY <1>1, <2>1
  <2> QED
    BY <1>1, <2>1, <2>2 DEF Roomy
<1>16. L[n] = Len(e) /\ \A i \in 0 .. n : M[i] = Len(g[i])
  BY <1>1, <1>9
<1> HIDE DEF L, M
<1>17. ASSUME NEW i \in 1 .. n PROVE Len(g[i]) < 2 * Len(e) /\ Len(g[i - 1]) < 2 * Len(e)
  <2>1. M[i] < 2 * L[n] /\ M[i - 1] < 2 * L[n]
    BY <1>1, <1>13, <1>14, <1>15, RoomLeft
  <2>2. i \in 0 .. n /\ i - 1 \in 0 .. n
    BY <1>1
  <2> QED
    BY <1>16, <2>1, <2>2
<1>18. e \in Seq(Byte) /\ Len(e) \in Nat /\ 2 * Len(e) \in Nat
  <2>1. e \in Seq(Byte)
    BY <1>1, <1>9
  <2>2. Len(e) \in Nat
    BY <2>1
  <2> QED
    BY <2>1, <2>2
<1>19. xmlencode(t, 2 * Len(e)) = FlattenSeq(x)
  <2>1. \A i \in 1 .. Len(t) : Len(g[i]) < 2 * Len(e) /\ Len(g[i - 1]) < 2 * Len(e)
    BY <1>17 DEF n
  <2> QED
    BY <1>6, <1>8, <1>18, <2>1, NothingLeftOut
<1>20. Len(t) <= Len(e)
  <2> DEFINE S == {i \in Nat : i <= n => i <= L[i]}
  <2>1. /\ L \in [0 .. n -> Nat] /\ \A i \in 1 .. n : L[i] = L[i - 1] + Len(u[i])
        /\ \A i \in 1 .. n : Len(u[i]) \in 1 .. 3
    BY <1>13, <1>15 DEF Lengths, Roomy
  <2>2. 0 \in S
    <3>1. 0 \in 0 .. n
      BY <1>1
    <3>2. L[0] \in Nat
      BY <2>1, <3>1
    <3> QED
      BY <3>2
  <2>3. ASSUME NEW i \in Nat, i \in S PROVE i + 1 \in S
    <3> SUFFICES ASSUME i + 1 <= n PROVE i + 1 <= L[i + 1]
      OBVIOUS
    <3>1. i + 1 \in 1 .. n /\ i \in 0 .. n /\ (i + 1) - 1 = i
      BY <1>1
    <3>2. L[i] \in Nat /\ L[i + 1] = L[i] + Len(u[i + 1]) /\ Len(u[i + 1]) \in 1 .. 3
      BY <2>1, <3>1
    <3>3. i <= L[i]
      BY <2>3, <3>1
    <3> DEFINE l == L[i]
               b == Len(u[i + 1])
    <3>4. l \in Nat /\ b \in 1 .. 3 /\ i <= l /\ L[i + 1] = l + b
      BY <3>2, <3>3
    <3> HIDE DEF l, b
    <3>5. i + 1 <= l + b
      BY <3>4
    <3> QED
      BY <3>4, <3>5
  <2>4. n \in S
    <3> HIDE DEF S
    <3> QED
      BY <1>1, <2>2, <2>3, SetInduction
  <2> QED
    BY <1>1, <1>16, <2>4 DEF n
<1>21. PICK pos : IsCoded(e, t, pos)
  BY UrlEncodedIsCode DEF e
<1>22. urldecode(e, Len(e)) = t
  BY <1>18, <1>20, <1>21, DecodeOfCode
<1>23. url_decode_xml_encode(e) = xmlencode(t, 2 * Len(e))
  BY <1>22, Zenon DEF url_decode_xml_encode
<1> QED
  BY <1>19, <1>23, Zenon DEF e, x

-------------------------------------------------------------------------------
\* Where the parts of a text are.

EndOf(parts, start, j) == start[j] + Len(parts[j])

\* Among the first n bytes of text, the part j begins after start[j] bytes; the
\* parts are in order, and only bytes of cuts are outside of them.
Placed(text, cuts, n, parts, start) ==
  /\ parts \in Seq(Seq(Byte)) /\ start \in [1 .. Len(parts) -> Nat]
  /\ \A j \in 1 .. Len(parts) :
       /\ HasAt(text, start[j], parts[j]) /\ IsPart(parts[j], cuts)
       /\ EndOf(parts, start, j) <= n
       /\ EndOf(parts, start, j) < n => text[EndOf(parts, start, j) + 1] \in cuts
  /\ \A j, k \in 1 .. Len(parts) : j < k => EndOf(parts, start, j) <= start[k]
  /\ \A i \in 1 .. n : text[i] \in cuts
       \/ \E j \in 1 .. Len(parts) : start[j] < i /\ i <= EndOf(parts, start, j)

LEMMA EndsOfParts ==
  ASSUME NEW text \in Seq(Byte), NEW cuts, NEW n \in Nat, NEW parts, NEW start,
         Placed(text, cuts, n, parts, start), NEW j \in 1 .. Len(parts)
  PROVE  /\ start[j] \in Nat /\ EndOf(parts, start, j) \in Nat
         /\ start[j] < EndOf(parts, start, j) /\ EndOf(parts, start, j) <= n
         /\ parts[j] \in Seq(Byte) /\ Len(parts[j]) \in Nat \ {0}
         /\ text[EndOf(parts, start, j)] \notin cuts
<1>1. start[j] \in Nat /\ parts[j] \in Seq(Byte) /\ EndOf(parts, start, j) <= n
      /\ HasAt(text, start[j], parts[j]) /\ IsPart(parts[j], cuts)
  <2>1. parts \in Seq(Seq(Byte)) /\ start \in [1 .. Len(parts) -> Nat]
    BY DEF Placed
  <2>2. /\ EndOf(parts, start, j) <= n
        /\ HasAt(text, start[j], parts[j]) /\ IsPart(parts[j], cuts)
    BY DEF Placed
  <2>3. parts[j] \in Seq(Byte)
    BY <2>1, ElementOfSeq
  <2>4. start[j] \in Nat
    BY <2>1
  <2> QED
    BY <2>2, <2>3, <2>4
<1>2. Len(parts[j]) \in Nat \ {0}
  BY <1>1 DEF IsPart
<1>3. EndOf(parts, start, j) \in Nat /\ start[j] < EndOf(parts, start, j)
  BY <1>1, <1>2 DEF EndOf
<1>4. text[start[j] + Len(parts[j])] = parts[j][Len(parts[j])]
  BY <1>1, <1>2 DEF HasAt
<1>5. parts[j][Len(parts[j])] \notin cuts
  BY <1>1, <1>2 DEF IsPart
<1> QED
  BY <1>1, <1>2, <1>3, <1>4, <1>5 DEF EndOf

LEMMA PlacedCut ==
  ASSUME NEW text \in Seq(Byte), NEW cuts, NEW n \in Nat, n + 1 <= Len(text),
         NEW parts, NEW start, Placed(text, cuts, n, parts, start), text[n + 1] \in cuts
  PROVE  Placed(text, cuts, n + 1, parts, start)
<1>2. ASSUME NEW j \in 1 .. Len(parts)
      PROVE  /\ HasAt(text, start[j], parts[j]) /\ IsPart(parts[j], cuts)
             /\ EndOf(parts, start, j) <= n + 1
             /\ EndOf(parts, start, j) < n + 1 => text[EndOf(parts, start, j) + 1] \in cuts
  <2>1. EndOf(parts, start, j) \in Nat /\ EndOf(parts, start, j) <= n
    BY EndsOfParts
  <2>2. EndOf(parts, start, j) < n => text[EndOf(parts, start, j) + 1] \in cuts
    BY DEF Placed
  <2>3. EndOf(parts, start, j) = n \/ EndOf(parts, start, j) < n
    BY <2>1
  <2>4. text[EndOf(parts, start, j) + 1] \in cuts
    BY <2>2, <2>3
  <2>5. HasAt(text, start[j], parts[j]) /\ IsPart(parts[j], cuts)
    BY DEF Placed
  <2> QED
    BY <2>1, <2>4, <2>5
<1>3. ASSUME NEW i \in 1 .. n + 1
      PROVE  text[i] \in cuts
             \/ \E j \in 1 .. Len(parts) : start[j] < i /\ i <= EndOf(parts, start, j)
  <2>1. CASE i = n + 1
    BY <2>1
  <2>2. CASE i # n + 1
    <3>1. i \in 1 .. n
      BY <2>2
    <3> QED
      BY <3>1 DEF Placed
  <2> QED
    BY <2>1, <2>2
<1> QED
  BY <1>2, <1>3 DEF Placed

\* A new part begins at the end.
LEMMA PlacedBegun ==
  ASSUME NEW text \in Seq(Byte), NEW cuts, NEW n \in Nat, n + 1 <= Len(text),
         NEW parts, NEW start, Placed(text, cuts, n, parts, start), text[n + 1] \notin cuts,
         n = 0 \/ text[n] \in cuts
  PROVE  \E begun : Placed(text, cuts, n + 1, Append(parts, <<text[n + 1]>>), begun)
<1> DEFINE m == Len(parts)
           c == <<text[n + 1]>>
           more == Append(parts, c)
           begun == [j \in 1 .. m + 1 |-> IF j = m + 1 THEN n ELSE start[j]]
<1>1. parts \in Seq(Seq(Byte)) /\ start \in [1 .. m -> Nat] /\ m \in Nat
  BY DEF Placed
<1>2. c \in Seq(Byte) /\ Len(c) = 1 /\ c[1] = text[n + 1] /\ c # <<>>
  OBVIOUS
<1>3. /\ more \in Seq(Seq(Byte)) /\ Len(more) = m + 1 /\ more[m + 1] = c
      /\ \A j \in 1 .. m : more[j] = parts[j]
  BY <1>1, <1>2, AppendProperties
<1>4. /\ begun \in [1 .. m + 1 -> Nat] /\ begun[m + 1] = n
      /\ \A j \in 1 .. m : begun[j] = start[j]
  BY <1>1
<1> HIDE DEF c, more, begun
<1>5. ASSUME NEW j \in 1 .. m
      PROVE  /\ j \in 1 .. m + 1 /\ j # m + 1
             /\ EndOf(more, begun, j) = EndOf(parts, start, j)
             /\ EndOf(parts, start, j) \in Nat /\ EndOf(parts, start, j) < n
  <2>1. /\ EndOf(parts, start, j) \in Nat /\ EndOf(parts, start, j) <= n
        /\ start[j] < EndOf(parts, start, j) /\ start[j] \in Nat
        /\ text[EndOf(parts, start, j)] \notin cuts
    BY EndsOfParts
  <2>2. EndOf(parts, start, j) # n
    BY <2>1
  <2>3. EndOf(more, begun, j) = EndOf(parts, start, j)
    BY <1>3, <1>4 DEF EndOf
  <2> QED
    BY <1>1, <2>1, <2>2, <2>3
<1>6. EndOf(more, begun, m + 1) = n + 1
  BY <1>1, <1>2, <1>3, <1>4 DEF EndOf
<1>7. ASSUME NEW j \in 1 .. m + 1
      PROVE  /\ HasAt(text, begun[j], more[j]) /\ IsPart(more[j], cuts)
             /\ EndOf(more, begun, j) <= n + 1
             /\ EndOf(more, begun, j) < n + 1 => text[EndOf(more, begun, j) + 1] \in cuts
  <2>1. CASE j = m + 1
    <3>1. HasAt(text, n, c)
      BY <1>2 DEF HasAt
    <3>2. IsPart(c, cuts)
      <4>1. c # <<>>
        BY <1>2
      <4>2. \A i \in 1 .. Len(c) : i = 1
        BY <1>2
      <4> QED
        BY <1>2, <4>1, <4>2 DEF IsPart
    <3> QED
      BY <1>3, <1>4, <1>6, <2>1, <3>1, <3>2
  <2>2. CASE j # m + 1
    <3>1. j \in 1 .. m
      BY <1>1, <2>2
    <3>2. HasAt(text, start[j], parts[j]) /\ IsPart(parts[j], cuts)
          /\ (EndOf(parts, start, j) < n => text[EndOf(parts, start, j) + 1] \in cuts)
      BY <3>1 DEF Placed
    <3>3. /\ EndOf(more, begun, j) = EndOf(parts, start, j)
          /\ EndOf(parts, start, j) \in Nat /\ EndOf(parts, start, j) < n
      BY <1>5, <3>1
    <3> QED
      BY <1>3, <1>4, <3>1, <3>2, <3>3
  <2> QED
    BY <2>1, <2>2
<1>8. ASSUME NEW j \in 1 .. m + 1, NEW k \in 1 .. m + 1, j < k
      PROVE  EndOf(more, begun, j) <= begun[k]
  <2>1. j \in 1 .. m
    BY <1>1, <1>8
  <2>2. EndOf(more, begun, j) = EndOf(parts, start, j) /\ EndOf(parts, start, j) \in Nat
        /\ EndOf(parts, start, j) < n
    BY <1>5, <2>1
  <2>3. CASE k = m + 1
    BY <1>4, <2>2, <2>3
  <2>4. CASE k # m + 1
    <3>1. k \in 1 .. m
      BY <1>1, <2>4
    <3>2. EndOf(parts, start, j) <= start[k]
      BY <1>8, <2>1, <3>1 DEF Placed
    <3> QED
      BY <1>4, <2>2, <3>1, <3>2
  <2> QED
    BY <2>3, <2>4
<1>9. ASSUME NEW i \in 1 .. n + 1
      PROVE  text[i] \in cuts
             \/ \E j \in 1 .. m + 1 : begun[j] < i /\ i <= EndOf(more, begun, j)
  <2>1. CASE i = n + 1
    <3>1. m + 1 \in 1 .. m + 1 /\ begun[m + 1] < i /\ i <= EndOf(more, begun, m + 1)
      BY <1>1, <1>4, <1>6, <2>1
    <3> QED
      BY <3>1
  <2>2. CASE i # n + 1 /\ text[i] \notin cuts
    <3>1. PICK j \in 1 .. m : start[j] < i /\ i <= EndOf(parts, start, j)
      BY <2>2 DEF Placed
    <3>2. j \in 1 .. m + 1 /\ begun[j] < i /\ i <= EndOf(more, begun, j)
      BY <1>4, <1>5, <3>1
    <3> QED
      BY <3>2
  <2> QED
    BY <2>1, <2>2
<1>10. Placed(text, cuts, n + 1, more, begun)
  BY <1>3, <1>4, <1>7, <1>8, <1>9 DEF Placed
<1> QED
  BY <1>10 DEF more, c

\* The last part goes on.
LEMMA PlacedGrown ==
  ASSUME NEW text \in Seq(Byte), NEW cuts, NEW n \in Nat \ {0}, n + 1 <= Len(text),
         NEW parts, NEW start, Placed(text, cuts, n, parts, start), text[n + 1] \notin cuts,
         text[n] \notin cuts
  PROVE  Placed(text, cuts, n + 1,
                [parts EXCEPT ![Len(parts)] = Append(@, text[n + 1])], start)
<1> DEFINE m == Len(parts)
           c == text[n + 1]
           e == Append(parts[m], c)
           more == [parts EXCEPT ![m] = e]
<1>1. parts \in Seq(Seq(Byte)) /\ start \in [1 .. m -> Nat] /\ m \in Nat
  BY DEF Placed
<1>2. PICK l \in 1 .. m : start[l] < n /\ n <= EndOf(parts, start, l)
  <2>1. n \in 1 .. n
    OBVIOUS
  <2> QED
    BY <2>1 DEF Placed
<1>3. EndOf(parts, start, l) = n
  <2>1. EndOf(parts, start, l) \in Nat /\ EndOf(parts, start, l) <= n
    BY EndsOfParts
  <2> QED
    BY <1>2, <2>1
<1>4. l = m
  <2> SUFFICES ASSUME l # m PROVE FALSE
    OBVIOUS
  <2>1. m \in 1 .. m /\ l < m
    BY <1>1
  <2>2. EndOf(parts, start, l) <= start[m]
    BY <2>1 DEF Placed
  <2>3. /\ start[m] \in Nat /\ EndOf(parts, start, m) \in Nat
        /\ start[m] < EndOf(parts, start, m) /\ EndOf(parts, start, m) <= n
    BY <2>1, EndsOfParts
  <2> QED
    BY <1>3, <2>2, <2>3
<1>5. m \in 1 .. m /\ start[m] < n /\ EndOf(parts, start, m) = n
  BY <1>2, <1>3, <1>4
<1>6. /\ parts[m] \in Seq(Byte) /\ Len(parts[m]) \in Nat \ {0} /\ start[m] \in Nat
      /\ HasAt(text, start[m], parts[m]) /\ IsPart(parts[m], cuts)
  <2>1. parts[m] \in Seq(Byte) /\ Len(parts[m]) \in Nat \ {0} /\ start[m] \in Nat
    BY <1>5, EndsOfParts
  <2>2. HasAt(text, start[m], parts[m]) /\ IsPart(parts[m], cuts)
    BY <1>5 DEF Placed
  <2> QED
    BY <2>1, <2>2
<1> DEFINE w == parts[m]
<1>7. c \in Byte /\ c \notin cuts
  OBVIOUS
<1>8. /\ e \in Seq(Byte) /\ Len(e) = Len(w) + 1 /\ e[Len(w) + 1] = c
      /\ \A i \in 1 .. Len(w) : e[i] = w[i]
  BY <1>6, <1>7, AppendProperties
<1>15. start[m] + Len(w) = n
  BY <1>5 DEF EndOf
<1> HIDE DEF e, c
<1>9. /\ more \in Seq(Seq(Byte)) /\ Len(more) = m /\ more[m] = e
      /\ \A j \in 1 .. m : j # m => more[j] = parts[j]
  BY <1>1, <1>5, <1>8, ExceptSeq
<1>10. HasAt(text, start[m], e) /\ IsPart(e, cuts)
  <2> HIDE DEF w
  <2>1. Len(w) \in Nat \ {0} /\ Len(text) \in Nat
        /\ \A i \in 1 .. Len(w) : text[start[m] + i] = w[i] /\ w[i] \notin cuts
    BY <1>6 DEF HasAt, IsPart, w
  <2>2. ASSUME NEW i \in 1 .. Len(e) PROVE text[start[m] + i] = e[i] /\ e[i] \notin cuts
    <3>1. CASE i = Len(w) + 1
      BY <1>6, <1>7, <1>8, <1>15, <2>1, <3>1 DEF c
    <3>2. CASE i # Len(w) + 1
      <4>1. i \in 1 .. Len(w)
        BY <1>8, <2>1, <3>2
      <4> QED
        BY <1>8, <2>1, <4>1
    <3> QED
      BY <3>1, <3>2
  <2>3. start[m] + Len(e) <= Len(text) /\ e # <<>>
    BY <1>6, <1>8, <1>15, <2>1
  <2> QED
    BY <2>2, <2>3 DEF HasAt, IsPart
<1> HIDE DEF more, w, m
<1>11. EndOf(more, start, m) = n + 1
  <2>1. start[m] \in Nat /\ Len(w) \in Nat /\ Len(more[m]) = Len(w) + 1
    BY <1>6, <1>8, <1>9 DEF w
  <2> QED
    BY <1>15, <2>1 DEF EndOf
<1>12. ASSUME NEW j \in 1 .. m, j # m
       PROVE  /\ EndOf(more, start, j) = EndOf(parts, start, j)
              /\ EndOf(parts, start, j) \in Nat /\ EndOf(parts, start, j) < n
  <2>1. EndOf(parts, start, j) \in Nat
    BY EndsOfParts DEF m
  <2>2. EndOf(parts, start, j) <= start[m]
    <3>1. j < m
      BY <1>1, <1>12
    <3> QED
      BY <1>5, <3>1 DEF Placed, m
  <2> QED
    BY <1>5, <1>6, <1>9, <1>12, <2>1, <2>2 DEF EndOf
<1>13. ASSUME NEW j \in 1 .. m
       PROVE  /\ HasAt(text, start[j], more[j]) /\ IsPart(more[j], cuts)
              /\ EndOf(more, start, j) <= n + 1
              /\ EndOf(more, start, j) < n + 1 => text[EndOf(more, start, j) + 1] \in cuts
  <2>1. CASE j = m
    BY <1>9, <1>10, <1>11, <2>1
  <2>2. CASE j # m
    <3>1. /\ HasAt(text, start[j], parts[j]) /\ IsPart(parts[j], cuts)
          /\ EndOf(parts, start, j) < n => text[EndOf(parts, start, j) + 1] \in cuts
      BY DEF Placed, m
    <3> QED
      BY <1>9, <1>12, <2>2, <3>1
  <2> QED
    BY <2>1, <2>2
<1>14. ASSUME NEW j \in 1 .. m, NEW k \in 1 .. m, j < k
       PROVE  EndOf(more, start, j) <= start[k]
  <2>1. j # m
    BY <1>1, <1>14
  <2>2. EndOf(parts, start, j) <= start[k]
    BY <1>14 DEF Placed, m
  <2> QED
    BY <1>12, <2>1, <2>2
<1>16. ASSUME NEW i \in 1 .. n + 1
       PROVE  text[i] \in cuts
              \/ \E j \in 1 .. m : start[j] < i /\ i <= EndOf(more, start, j)
  <2>1. CASE i = n + 1
    <3>1. m \in 1 .. m /\ start[m] < i /\ i <= EndOf(more, start, m)
      BY <1>5, <1>6, <1>11, <2>1
    <3> QED
      BY <3>1
  <2>2. CASE i # n + 1 /\ text[i] \notin cuts
    <3>1. PICK j \in 1 .. m : start[j] < i /\ i <= EndOf(parts, start, j)
      BY <2>2 DEF Placed, m
    <3>2. i <= EndOf(more, start, j)
      <4>1. CASE j = m
        BY <1>5, <1>11, <3>1, <4>1
      <4>2. CASE j # m
        BY <1>12, <3>1, <4>2
      <4> QED
        BY <4>1, <4>2
    <3> QED
      BY <3>1, <3>2
  <2> QED
    BY <2>1, <2>2
<1>17. Placed(text, cuts, n + 1, more, start)
  BY <1>1, <1>9, <1>13, <1>14, <1>16 DEF Placed
<1> QED
  BY <1>17 DEF more, e, c, m

LEMMA FieldsPlaced ==
  ASSUME NEW text \in Seq(Byte), NEW cuts
  PROVE  \E start : Placed(text, cuts, Len(text), Fields(text, cuts), start)
<1>1. PICK f \in [0 .. Len(text) -> Seq(Seq(Byte))] :
        /\ f[0] = <<>>
        /\ \A i \in 1 .. Len(text) : f[i] = NextFields(f[i - 1], text, i, cuts)
        /\ Fields(text, cuts) = f[Len(text)]
  BY FieldsRecursion
<1> DEFINE Good(n) == \E start : Placed(text, cuts, n, f[n], start)
           S == {n \in Nat : n <= Len(text) => Good(n)}
<1>2. 0 \in S
  <2> DEFINE start == [j \in 1 .. 0 |-> 0]
  <2>1. start \in [1 .. Len(f[0]) -> Nat] /\ Len(f[0]) = 0 /\ f[0] \in Seq(Seq(Byte))
    BY <1>1
  <2> HIDE DEF start
  <2>2. Placed(text, cuts, 0, f[0], start)
    BY <2>1 DEF Placed
  <2> QED
    BY <2>2
<1>3. ASSUME NEW n \in Nat, n \in S PROVE n + 1 \in S
  <2> SUFFICES ASSUME n + 1 <= Len(text) PROVE Good(n + 1)
    OBVIOUS
  <2>1. PICK start : Placed(text, cuts, n, f[n], start)
    BY <1>3
  <2>2. f[n + 1] = NextFields(f[n], text, n + 1, cuts)
    <3>1. n + 1 \in 1 .. Len(text) /\ (n + 1) - 1 = n
      OBVIOUS
    <3> QED
      BY <1>1, <3>1
  <2> DEFINE b == f[n]
             g == f[n + 1]
  <2>3. Placed(text, cuts, n, b, start) /\ g = NextFields(b, text, n + 1, cuts)
    BY <2>1, <2>2
  <2> HIDE DEF b, g
  <2>4. \E begun : Placed(text, cuts, n + 1, g, begun)
    <3>1. CASE text[n + 1] \in cuts
      <4>1. g = b
        BY <2>3, <3>1 DEF NextFields
      <4> QED
        BY <2>3, <3>1, <4>1, PlacedCut
    <3>2. CASE text[n + 1] \notin cuts /\ (n = 0 \/ text[n] \in cuts)
      <4>1. g = Append(b, <<text[n + 1]>>)
        BY <2>3, <3>2 DEF NextFields
      <4> QED
        BY <2>3, <3>2, <4>1, PlacedBegun
    <3>3. CASE text[n + 1] \notin cuts /\ n # 0 /\ text[n] \notin cuts
      <4>1. g = [b EXCEPT ![Len(b)] = Append(@, text[n + 1])]
        BY <2>3, <3>3 DEF NextFields
      <4>2. n \in Nat \ {0}
        BY <3>3
      <4>3. Placed(text, cuts, n + 1, [b EXCEPT ![Len(b)] = Append(@, text[n + 1])], start)
        BY <2>3, <3>3, <4>2, PlacedGrown
      <4> QED
        BY <4>1, <4>3
    <3> QED
      BY <3>1, <3>2, <3>3
  <2> QED
    BY <2>4 DEF g
<1> HIDE DEF S
<1>4. Nat \subseteq S
  BY <1>2, <1>3, SetInduction
<1>5. Good(Len(text))
  BY <1>4 DEF S
<1> QED
  BY <1>1, <1>5

-------------------------------------------------------------------------------
\* The value of a parameter.

\* The first place of name in query, if there is one.
LEMMA FirstAtPlace ==
  ASSUME NEW query \in Seq(Byte), NEW name \in Seq(Byte)
  PROVE  /\ FirstAt(name, query) # 0 =>
              /\ FirstAt(name, query) \in Nat \ {0}
              /\ HasAt(query, FirstAt(name, query) - 1, name)
         /\ \A p \in Nat : HasAt(query, p, name) =>
              FirstAt(name, query) # 0 /\ FirstAt(name, query) - 1 <= p
<1> DEFINE m == Len(name)
           n == Len(query)
           at == {i \in 1 .. n - m + 1 : SubSeq(query, i, i + m - 1) = name}
<1>1. FirstAt(name, query) = IF at = {} THEN 0 ELSE Min(at)
  BY DEF FirstAt
<1>2. m \in Nat /\ n \in Nat /\ at \subseteq Nat \ {0}
  OBVIOUS
<1>3. ASSUME NEW i \in at PROVE i \in Nat \ {0} /\ HasAt(query, i - 1, name)
  <2>1. i \in 1 .. n - m + 1 /\ SubSeq(query, i, i + m - 1) = name
    BY <1>3
  <2> DEFINE u == SubSeq(query, i, i + m - 1)
  <2>2. \A k \in i .. i + m - 1 : query[k] \in Byte
    BY <1>2, <2>1
  <2>3. i \in Int /\ i + m - 1 \in Int
    BY <1>2, <2>1
  <2>4. \A k \in 1 .. i + m - 1 - i + 1 : u[k] = query[i + k - 1]
    BY <2>2, <2>3, SubSeqProperties
  <2> HIDE DEF at, u
  <2>5. ASSUME NEW k \in 1 .. m PROVE query[i - 1 + k] = name[k]
    <3>1. k \in 1 .. i + m - 1 - i + 1 /\ i + k - 1 = i - 1 + k
      BY <1>2, <2>1
    <3> QED
      BY <2>1, <2>4, <3>1 DEF u
  <2> QED
    BY <1>2, <2>1, <2>5 DEF HasAt
<1>4. ASSUME NEW p \in Nat, HasAt(query, p, name) PROVE p + 1 \in at
  <2>1. SubSeq(query, p + 1, p + m) = name
    BY <1>4, PartAt
  <2>2. p + 1 \in 1 .. n - m + 1 /\ p + m = p + 1 + m - 1
    BY <1>2, <1>4 DEF HasAt
  <2> QED
    BY <2>1, <2>2
<1> HIDE DEF at
<1>5. CASE at = {}
  BY <1>1, <1>4, <1>5
<1>6. CASE at # {}
  <2>1. at \subseteq Nat
    BY <1>2
  <2>2. Min(at) \in at /\ \A y \in at : Min(at) <= y
    BY <1>6, <2>1, MinProperties
  <2> DEFINE f == Min(at)
  <2>3. f \in at /\ FirstAt(name, query) = f
    BY <1>1, <1>6, <2>2
  <2>4. f \in Nat \ {0} /\ HasAt(query, f - 1, name)
    BY <1>3, <2>3
  <2>5. \A p \in Nat : HasAt(query, p, name) => f <= p + 1
    BY <1>4, <2>2
  <2> HIDE DEF f
  <2>6. \A p \in Nat : HasAt(query, p, name) => f - 1 <= p
    BY <2>4, <2>5
  <2> QED
    BY <2>3, <2>4, <2>6
<1> QED
  BY <1>5, <1>6

\* What is behind a prefix of length n of a part of the text is the text from
\* there to the end of the part.
LEMMA RestOfPart ==
  ASSUME NEW text \in Seq(Byte), NEW part \in Seq(Byte), NEW p \in Nat, HasAt(text, p, part),
         NEW n \in 0 .. Len(part)
  PROVE  /\ From(text, p + n) \in Seq(Byte) /\ Len(From(text, p + n)) = Len(text) - (p + n)
         /\ \A i \in 1 .. Len(text) - (p + n) : From(text, p + n)[i] = text[p + n + i]
         /\ SubSeq(From(text, p + n), 1, Len(part) - n) = From(part, n)
<1> DEFINE l == Len(text)
           m == Len(part)
           q == p + n
           u == From(text, q)
           v == From(part, n)
           w == SubSeq(u, 1, m - n)
<1>1. l \in Nat /\ m \in Nat /\ q \in Nat /\ p + m <= l /\ n <= m /\ q <= l
  BY DEF HasAt
<1>2. /\ u \in Seq(Byte) /\ Len(u) = l - q /\ \A i \in 1 .. l - q : u[i] = text[q + i]
  <2>1. \A i \in q + 1 .. l : text[i] \in Byte
    BY <1>1
  <2>2. q + 1 \in Int /\ l \in Int
    BY <1>1
  <2>3. /\ SubSeq(text, q + 1, l) \in Seq(Byte)
        /\ Len(SubSeq(text, q + 1, l)) = IF q + 1 <= l THEN l - (q + 1) + 1 ELSE 0
        /\ \A i \in 1 .. l - (q + 1) + 1 : SubSeq(text, q + 1, l)[i] = text[q + 1 + i - 1]
    BY <2>1, <2>2, SubSeqProperties
  <2>4. u = SubSeq(text, q + 1, l)
    BY DEF From
  <2> HIDE DEF u, l, q
  <2>5. \A i \in 1 .. l - q : i \in 1 .. l - (q + 1) + 1 /\ q + 1 + i - 1 = q + i
    BY <1>1
  <2>6. Len(u) = l - q
    BY <1>1, <2>3, <2>4
  <2> QED
    BY <2>3, <2>4, <2>5, <2>6
<1>3. /\ v \in Seq(Byte) /\ Len(v) = m - n /\ \A i \in 1 .. m - n : v[i] = part[n + i]
  <2>1. \A i \in n + 1 .. m : part[i] \in Byte
    BY <1>1
  <2>2. n + 1 \in Int /\ m \in Int
    BY <1>1
  <2>3. /\ SubSeq(part, n + 1, m) \in Seq(Byte)
        /\ Len(SubSeq(part, n + 1, m)) = IF n + 1 <= m THEN m - (n + 1) + 1 ELSE 0
        /\ \A i \in 1 .. m - (n + 1) + 1 : SubSeq(part, n + 1, m)[i] = part[n + 1 + i - 1]
    BY <2>1, <2>2, SubSeqProperties
  <2>4. v = SubSeq(part, n + 1, m)
    BY DEF From
  <2> HIDE DEF v, m
  <2>5. \A i \in 1 .. m - n : i \in 1 .. m - (n + 1) + 1 /\ n + 1 + i - 1 = n + i
    BY <1>1
  <2>6. Len(v) = m - n
    BY <1>1, <2>3, <2>4
  <2> QED
    BY <2>3, <2>4, <2>5, <2>6
<1> HIDE DEF u, v
<1>4. /\ w \in Seq(Byte) /\ Len(w) = m - n /\ \A i \in 1 .. m - n : w[i] = u[i]
  <2>1. m - n \in Nat /\ m - n <= Len(u)
    BY <1>1, <1>2
  <2> DEFINE k == m - n
  <2> HIDE DEF k
  <2>2. k \in Nat /\ k <= Len(u)
    BY <2>1 DEF k
  <2>3. /\ SubSeq(u, 1, k) \in Seq(Byte) /\ Len(SubSeq(u, 1, k)) = k
        /\ \A i \in 1 .. k : SubSeq(u, 1, k)[i] = u[i]
    BY <1>2, <2>2
  <2> QED
    BY <2>3 DEF k
<1> HIDE DEF w
<1>5. ASSUME NEW i \in 1 .. Len(w) PROVE w[i] = v[i]
  <2>1. i \in 1 .. m - n /\ i \in 1 .. l - q /\ n + i \in 1 .. m /\ q + i = p + (n + i)
    BY <1>1, <1>4
  <2> DEFINE j == n + i
  <2>2. text[p + j] = part[j]
    BY <2>1 DEF HasAt
  <2> QED
    BY <1>2, <1>3, <1>4, <2>1, <2>2
<1>6. w = v
  BY <1>3, <1>4, <1>5, SeqEqual
<1> QED
  BY <1>2, <1>6 DEF u, v, w

\* The first '=' from name on, if name is followed by one and has none.
LEMMA EqAfterName ==
  ASSUME NEW query \in Seq(Byte), NEW name \in Seq(Byte), NEW p \in Nat,
         HasAt(query, p, name), p + Len(name) + 1 <= Len(query),
         query[p + Len(name) + 1] = Ch.eq, \A i \in 1 .. Len(name) : name[i] # Ch.eq
  PROVE  AfterEq(query, p + 1) = From(query, p + Len(name) + 1)
<1> DEFINE n == Len(query)
           e == p + Len(name) + 1
           E == {i \in p + 1 .. n : query[i] = Ch.eq}
           eq == IF E # {} THEN Min(E) ELSE 0
<1>1. AfterEq(query, p + 1) = IF eq = 0 THEN <<>> ELSE From(query, eq)
  BY DEF AfterEq, SelectInSubSeq
<1>2. Len(name) \in Nat /\ n \in Nat /\ e \in p + 1 .. n /\ E \subseteq Nat /\ e \in E
      /\ e \in Nat \ {0}
  OBVIOUS
<1>3. ASSUME NEW i \in E PROVE e <= i
  <2> SUFFICES ASSUME i < e PROVE FALSE
    BY <1>2
  <2> DEFINE j == i - p
  <2>1. i \in p + 1 .. n /\ query[i] = Ch.eq
    BY <1>3
  <2>2. j \in 1 .. Len(name) /\ p + j = i
    BY <1>2, <2>1
  <2> HIDE DEF j
  <2>3. query[p + j] = name[j] /\ name[j] # Ch.eq
    BY <2>2 DEF HasAt
  <2> QED
    BY <2>1, <2>2, <2>3
<1> HIDE DEF E, e
<1>4. Min(E) \in E /\ \A y \in E : Min(E) <= y
  BY <1>2, MinProperties
<1>5. Min(E) \in Nat /\ Min(E) <= e /\ e <= Min(E)
  BY <1>2, <1>3, <1>4
<1>6. Min(E) = e
  BY <1>2, <1>5
<1>7. eq = e /\ eq # 0
  BY <1>2, <1>4, <1>6
<1> HIDE DEF eq
<1> QED
  BY <1>1, <1>7 DEF e

\* A name without bytes of cuts is in the text where it is in a part.
LEMMA NameInPart ==
  ASSUME NEW text \in Seq(Byte), NEW cuts, NEW parts, NEW start,
         Placed(text, cuts, Len(text), parts, start),
         NEW name \in Seq(Byte), IsPart(name, cuts), NEW p \in Nat, HasAt(text, p, name)
  PROVE  \E j \in 1 .. Len(parts) :
           /\ start[j] <= p /\ p < EndOf(parts, start, j)
           /\ HasAt(parts[j], p - start[j], name)
<1> DEFINE m == Len(name)
           n == Len(text)
<1>1. m \in Nat \ {0} /\ n \in Nat /\ p + m <= n
      /\ \A i \in 1 .. m : text[p + i] = name[i] /\ name[i] \notin cuts
  BY DEF IsPart, HasAt
<1>2. p + 1 \in 1 .. n /\ text[p + 1] \notin cuts
  BY <1>1
<1>3. PICK j \in 1 .. Len(parts) : start[j] < p + 1 /\ p + 1 <= EndOf(parts, start, j)
  BY <1>2 DEF Placed
<1> DEFINE e == EndOf(parts, start, j)
           s == start[j]
           w == parts[j]
<1>4. s \in Nat /\ e \in Nat /\ w \in Seq(Byte) /\ Len(w) \in Nat /\ e = s + Len(w) /\ e <= n
  BY <1>1, EndsOfParts DEF EndOf
<1>5. (e < n => text[e + 1] \in cuts) /\ HasAt(text, s, w)
  BY DEF Placed
<1> HIDE DEF m, n, e, s, w
<1>6. s <= p /\ p < e
  BY <1>3, <1>4 DEF s, e
<1>7. p + m <= e
  <2> SUFFICES ASSUME e < p + m PROVE FALSE
    BY <1>1, <1>4
  <2> DEFINE i == e + 1 - p
  <2>1. e < n /\ i \in 1 .. m /\ p + i = e + 1
    BY <1>1, <1>4, <1>6
  <2> HIDE DEF i
  <2>2. text[p + i] \notin cuts
    BY <1>1, <2>1
  <2> QED
    BY <1>5, <2>1, <2>2
<1>8. HasAt(w, p - s, name)
  <2>1. p - s + m <= Len(w)
    BY <1>1, <1>4, <1>6, <1>7
  <2>2. ASSUME NEW i \in 1 .. m PROVE w[p - s + i] = name[i]
    <3> DEFINE k == p - s + i
    <3>1. k \in 1 .. Len(w) /\ s + k = p + i
      BY <1>1, <1>4, <1>6, <2>1, SMTT(30)
    <3> HIDE DEF k
    <3>2. text[s + k] = w[k]
      BY <1>5, <3>1 DEF HasAt
    <3> QED
      BY <1>1, <3>1, <3>2 DEF k
  <2> QED
    BY <2>1, <2>2 DEF HasAt, m
<1> QED
  BY <1>6, <1>8 DEF e, s, w

LEMMA ParamIs ==
  ASSUME NEW query \in Seq(Byte), NEW name \in Seq(Byte), IsPart(name, {Ch.eq, Ch.amp}),
         NEW F, F = Fields(query, {Ch.amp}), NEW k \in 1 .. Len(F),
         IsPrefix(Append(name, Ch.eq), F[k]),
         \A j \in 1 .. Len(F) : FirstAt(name, F[j]) # 0 => k <= j
  PROVE  parse_param(query, name) = From(F[k], Len(name) + 1)
<1> DEFINE m == Len(name)
           n == Len(query)
           cuts == {Ch.amp}
           f == FirstAt(name, query)
<1>1. PICK start : Placed(query, cuts, n, F, start)
  BY FieldsPlaced
<1> DEFINE s == start[k]
           e == EndOf(F, start, k)
           w == F[k]
<1>2. /\ s \in Nat /\ e \in Nat /\ w \in Seq(Byte) /\ Len(w) \in Nat /\ e = s + Len(w)
      /\ e <= n /\ n \in Nat
  <2>1. n \in Nat
    OBVIOUS
  <2> QED
    BY <1>1, <2>1, EndsOfParts DEF EndOf
<1>3. (e < n => query[e + 1] \in cuts) /\ HasAt(query, s, w) /\ IsPart(w, cuts)
  BY <1>1 DEF Placed
<1>4. Ch.eq \in Byte /\ Ch.amp \in Byte /\ Ch.eq # Ch.amp
  BY DEF Ch, Byte
<1>5. /\ m \in Nat \ {0} /\ IsPart(name, cuts) /\ \A i \in 1 .. m : name[i] # Ch.eq
  BY DEF IsPart
<1>6. HasAt(w, 0, name) /\ m + 1 <= Len(w) /\ w[m + 1] = Ch.eq
  <2> DEFINE a == Append(name, Ch.eq)
  <2>1. /\ a \in Seq(Byte) /\ Len(a) = m + 1 /\ a[m + 1] = Ch.eq
        /\ \A i \in 1 .. m : a[i] = name[i]
    BY <1>4, AppendProperties
  <2> HIDE DEF a, w
  <2>2. IsPrefix(a, w)
    BY DEF a, w
  <2>3. HasAt(w, 0, a)
    BY <1>2, <2>1, <2>2, PrefixIsAt
  <2>4. m + 1 <= Len(w) /\ \A i \in 1 .. m + 1 : w[0 + i] = a[i]
    BY <1>5, <2>1, <2>3 DEF HasAt
  <2>5. \A i \in 1 .. m : i \in 1 .. m + 1
    BY <1>5
  <2>6. \A i \in 1 .. m : w[0 + i] = name[i]
    BY <2>1, <2>4, <2>5
  <2>7. m + 1 \in 1 .. m + 1 /\ 0 + (m + 1) = m + 1
    BY <1>5
  <2>8. w[m + 1] = Ch.eq
    BY <2>1, <2>4, <2>7
  <2> QED
    BY <1>2, <1>5, <2>4, <2>6, <2>8, SMTT(30) DEF HasAt
<1> HIDE DEF s, e, w, f, n, cuts
<1>7. HasAt(query, s, name) /\ s + m + 1 <= n /\ query[s + m + 1] = Ch.eq
  <2>1. s + Len(w) <= n /\ \A i \in 1 .. Len(w) : query[s + i] = w[i]
    BY <1>3 DEF HasAt, n
  <2>2. \A i \in 1 .. m : w[i] = name[i] /\ i \in 1 .. Len(w)
    <3>1. \A i \in 1 .. m : w[0 + i] = name[i] /\ 0 + i = i
      BY <1>6 DEF HasAt
    <3> QED
      BY <1>2, <1>5, <1>6, <3>1
  <2>3. m + 1 \in 1 .. Len(w) /\ s + m + 1 = s + (m + 1) /\ s + m <= n /\ s + m + 1 <= n
    BY <1>2, <1>5, <1>6, <2>1
  <2>4. \A i \in 1 .. m : query[s + i] = name[i]
    BY <2>1, <2>2
  <2> QED
    BY <1>6, <2>1, <2>3, <2>4 DEF HasAt, n
<1>8. f \in Nat \ {0} /\ HasAt(query, f - 1, name) /\ f - 1 <= s
  BY <1>2, <1>7, FirstAtPlace DEF f
<1>9. f - 1 = s
  <2> DEFINE p == f - 1
  <2> SUFFICES ASSUME p < s PROVE FALSE
    BY <1>2, <1>8
  <2>1. p \in Nat /\ HasAt(query, p, name)
    BY <1>8
  <2> HIDE DEF p
  <2>2. PICK j \in 1 .. Len(F) :
          /\ start[j] <= p /\ p < EndOf(F, start, j) /\ HasAt(F[j], p - start[j], name)
    BY <1>1, <1>5, <2>1, NameInPart DEF n
  <2>3. start[j] \in Nat /\ F[j] \in Seq(Byte)
    BY <1>1, <1>2, EndsOfParts
  <2>4. p - start[j] \in Nat
    BY <2>1, <2>2, <2>3
  <2>5. FirstAt(name, F[j]) # 0
    BY <2>2, <2>3, <2>4, FirstAtPlace
  <2>6. k <= j
    BY <2>5
  <2>7. CASE j = k
    BY <1>2, <2>1, <2>2, <2>7 DEF s
  <2>8. CASE k < j
    <3>1. e <= start[j]
      BY <1>1, <2>8 DEF Placed, e
    <3> QED
      BY <1>2, <2>1, <2>2, <2>3, <3>1
  <2>9. Len(F) \in Nat
    BY <1>1 DEF Placed
  <2> QED
    BY <2>6, <2>7, <2>8, <2>9
<1>10. AfterEq(query, f) = From(query, s + m + 1)
  <2>1. AfterEq(query, s + 1) = From(query, s + m + 1)
    BY <1>2, <1>5, <1>7, EqAfterName DEF n
  <2> QED
    BY <1>2, <1>8, <1>9, <2>1
<1> DEFINE u == From(query, s + (m + 1))
           l == Len(w) - (m + 1)
<1>11. /\ u \in Seq(Byte) /\ Len(u) = n - (s + (m + 1))
       /\ \A i \in 1 .. n - (s + (m + 1)) : u[i] = query[s + (m + 1) + i]
       /\ SubSeq(u, 1, l) = From(w, m + 1)
  <2>1. m + 1 \in 0 .. Len(w)
    BY <1>2, <1>5, <1>6
  <2> QED
    BY <1>2, <1>3, <2>1, RestOfPart DEF n
<1>12. s + m + 1 = s + (m + 1)
  BY <1>2, <1>5
<1> HIDE DEF u, l
<1>13. l \in 0 .. Len(u) /\ (l < Len(u) => e < n) /\ s + (m + 1) + l = e
  BY <1>2, <1>5, <1>6, <1>11 DEF l
<1>14. \A i \in 1 .. l : u[i] \in Byte \ cuts
  <2> SUFFICES ASSUME NEW i \in 1 .. l PROVE u[i] \in Byte \ cuts
    OBVIOUS
  <2> DEFINE j == m + 1 + i
  <2>1. i \in 1 .. Len(u) /\ j \in 1 .. Len(w) /\ s + (m + 1) + i = s + j
    BY <1>2, <1>5, <1>6, <1>13 DEF l
  <2> HIDE DEF j
  <2>2. u[i] = query[s + j]
    BY <1>11, <2>1
  <2>3. query[s + j] = w[j]
    BY <1>3, <2>1 DEF HasAt
  <2>4. w[j] \in Byte /\ w[j] \notin cuts
    BY <1>2, <1>3, <2>1 DEF IsPart
  <2> QED
    BY <2>2, <2>3, <2>4
<1>15. l < Len(u) => u[l + 1] \notin Byte \ cuts
  <2> SUFFICES ASSUME l < Len(u) PROVE u[l + 1] \in cuts
    OBVIOUS
  <2> DEFINE a == m + 1
  <2>1. l + 1 \in 1 .. Len(u) /\ s + a + (l + 1) = e + 1
    <3>1. l \in Nat /\ l < Len(u) /\ Len(u) \in Nat /\ s + a + l = e /\ a \in Nat
      BY <1>5, <1>11, <1>13
    <3> HIDE DEF a, l
    <3> QED
      BY <1>2, <3>1
  <2>2. u[l + 1] = query[e + 1]
    BY <1>11, <2>1
  <2> QED
    BY <1>3, <1>13, <2>2
<1>16. Span(u, Byte \ cuts) = SubSeq(u, 1, l)
  BY <1>11, <1>13, <1>14, <1>15, SpanIs
<1>17. parse_param(query, name) = Span(AfterEq(query, f), Byte \ cuts)
  <2>1. f # 0
    BY <1>8
  <2> QED
    BY <2>1 DEF parse_param, f, cuts
<1>18. AfterEq(query, f) = u
  BY <1>10, <1>12 DEF u
<1> QED
  BY <1>11, <1>16, <1>17, <1>18 DEF w

-------------------------------------------------------------------------------
\* Parts with a separator between them.

\* f[i] are the first i of parts with sep between them.
Joins(f, parts, sep, S) ==
  /\ f \in [0 .. Len(parts) -> Seq(S)] /\ f[0] = <<>>
  /\ Len(parts) > 0 => f[1] = parts[1]
  /\ \A i \in 2 .. Len(parts) : f[i] = f[i - 1] \o (<<sep>> \o parts[i])
  /\ Joined(parts, sep) = f[Len(parts)]

LEMMA Associative ==
  ASSUME NEW S
  PROVE  \A x, y, z \in Seq(S) : (x \o y) \o z = x \o (y \o z)
BY ConcatAssociative, SMT

LEMMA JoinedRecursion ==
  ASSUME NEW S, NEW sep \in S, NEW parts \in Seq(Seq(S))
  PROVE  \E f : Joins(f, parts, sep, S)
<1> DEFINE n == Len(parts)
           seqs == [i \in DOMAIN parts |-> IF i = 1 THEN parts[i] ELSE <<sep>> \o parts[i]]
<1>1. n \in Nat /\ DOMAIN parts = 1 .. n /\ \A i \in 1 .. n : parts[i] \in Seq(S)
  BY ElementOfSeq
<1>2. seqs \in Seq(Seq(S)) /\ Len(seqs) = n /\ \A i \in 1 .. n :
        seqs[i] = IF i = 1 THEN parts[i] ELSE <<sep>> \o parts[i]
  <2>1. \A i \in 1 .. n : <<sep>> \o parts[i] \in Seq(S)
    <3> TAKE i \in 1 .. n
    <3>1. <<sep>> \in Seq(S) /\ parts[i] \in Seq(S)
      BY <1>1
    <3> QED
      BY <3>1, ConcatProperties
  <2> DEFINE piece(i) == IF i = 1 THEN parts[i] ELSE <<sep>> \o parts[i]
  <2>2. \A i \in 1 .. n : piece(i) \in Seq(S)
    BY <1>1, <2>1
  <2> HIDE DEF piece, n
  <2>3. seqs = [i \in 1 .. n |-> piece(i)]
    BY <1>1 DEF piece
  <2>4. [i \in 1 .. n |-> piece(i)] \in Seq(Seq(S)) /\ Len([i \in 1 .. n |-> piece(i)]) = n
    BY <1>1, <2>2
  <2>5. \A i \in 1 .. n : [j \in 1 .. n |-> piece(j)][i] = piece(i)
    OBVIOUS
  <2> HIDE DEF seqs
  <2> QED
    BY <2>3, <2>4, <2>5 DEF piece
<1>3. Joined(parts, sep) = FlattenSeq(seqs)
  BY DEF Joined
<1> HIDE DEF seqs
<1>4. PICK f : Flattens(f, seqs, S)
  BY <1>2, FlattenRecursion
<1>5. /\ f \in [0 .. n -> Seq(S)] /\ f[0] = <<>>
      /\ \A i \in 1 .. n : f[i] = f[i - 1] \o seqs[i]
      /\ Joined(parts, sep) = f[n]
  BY <1>2, <1>3, <1>4 DEF Flattens
<1> HIDE DEF n
<1>6. n > 0 => f[1] = parts[1]
  <2> SUFFICES ASSUME n > 0 PROVE f[1] = parts[1]
    OBVIOUS
  <2>1. 1 \in 1 .. n /\ 1 - 1 = 0
    BY <1>1
  <2>2. f[1] = <<>> \o parts[1] /\ parts[1] \in Seq(S)
    BY <1>1, <1>2, <1>5, <2>1
  <2> QED
    BY <2>2, ConcatEmptySeq
<1>7. \A i \in 2 .. n : f[i] = f[i - 1] \o (<<sep>> \o parts[i])
  <2> TAKE i \in 2 .. n
  <2>1. i \in 1 .. n /\ i # 1
    BY <1>1
  <2> QED
    BY <1>2, <1>5, <2>1
<1>8. Joins(f, parts, sep, S)
  BY <1>5, <1>6, <1>7 DEF Joins, n
<1> QED
  BY <1>8

LEMMA JoinedType ==
  ASSUME NEW S, NEW sep \in S, NEW parts \in Seq(Seq(S))
  PROVE  /\ Joined(parts, sep) \in Seq(S)
         /\ Len(parts) = 1 => Joined(parts, sep) = parts[1]
         /\ parts = <<>> => Joined(parts, sep) = <<>>
<1>1. PICK f : Joins(f, parts, sep, S)
  BY JoinedRecursion
<1> DEFINE n == Len(parts)
<1>2. n \in Nat /\ (parts = <<>> => n = 0)
  OBVIOUS
<1>3. /\ f \in [0 .. n -> Seq(S)] /\ f[0] = <<>> /\ (n > 0 => f[1] = parts[1])
      /\ Joined(parts, sep) = f[n]
  BY <1>1 DEF Joins
<1> HIDE DEF n
<1>4. n \in 0 .. n /\ f[n] \in Seq(S)
  BY <1>2, <1>3
<1>5. n = 1 => Joined(parts, sep) = parts[1]
  BY <1>3
<1> QED
  BY <1>2, <1>3, <1>4, <1>5 DEF n

\* The first part, and the others after a separator.
LEMMA JoinedFirst ==
  ASSUME NEW S, NEW sep \in S, NEW parts \in Seq(Seq(S)), Len(parts) > 1
  PROVE  /\ Tail(parts) \in Seq(Seq(S)) /\ Tail(parts) # <<>>
         /\ Joined(parts, sep) = parts[1] \o (<<sep>> \o Joined(Tail(parts), sep))
<1> DEFINE n == Len(parts)
           rest == Tail(parts)
           head == parts[1]
           one == <<sep>>
<1>0. \A x, y, z \in Seq(S) : (x \o y) \o z = x \o (y \o z)
  BY Associative
<1>1. n \in Nat /\ n > 1 /\ head \in Seq(S) /\ one \in Seq(S)
  BY ElementOfSeq
<1>2. /\ rest \in Seq(Seq(S)) /\ Len(rest) = n - 1
      /\ \A i \in 1 .. n - 1 : rest[i] = parts[i + 1]
  BY HeadTailProperties
<1>3. PICK f : Joins(f, parts, sep, S)
  BY JoinedRecursion
<1> HIDE DEF rest
<1>4. PICK g : Joins(g, rest, sep, S)
  BY <1>2, JoinedRecursion
<1> DEFINE m == Len(rest)
<1>5. /\ f \in [0 .. n -> Seq(S)] /\ f[1] = head /\ Joined(parts, sep) = f[n]
      /\ \A i \in 2 .. n : f[i] = f[i - 1] \o (one \o parts[i])
  <2>1. n > 0
    BY <1>1
  <2> QED
    BY <1>3, <2>1, Zenon DEF Joins
<1>6. /\ g \in [0 .. n - 1 -> Seq(S)] /\ g[1] = rest[1] /\ Joined(rest, sep) = g[n - 1]
      /\ \A i \in 2 .. n - 1 : g[i] = g[i - 1] \o (one \o rest[i])
  <2>1. m = n - 1 /\ m > 0
    BY <1>1, <1>2
  <2>2. /\ g \in [0 .. m -> Seq(S)] /\ g[1] = rest[1] /\ Joined(rest, sep) = g[m]
        /\ \A i \in 2 .. m : g[i] = g[i - 1] \o (one \o rest[i])
    BY <1>4, <2>1, Zenon DEF Joins
  <2> QED
    BY <2>1, <2>2
<1>7. \A i \in 1 .. n : parts[i] \in Seq(S)
  BY ElementOfSeq
<1> HIDE DEF n, m, head, one
<1> DEFINE Good(k) == f[k + 1] = head \o (one \o g[k])
           T == {k \in Nat : k + 2 <= n => Good(k + 1)}
<1>8. 0 \in T
  <2>1. 2 \in 2 .. n /\ 2 - 1 = 1 /\ 1 \in 1 .. n - 1 /\ 1 + 1 = 2
    BY <1>1
  <2>2. f[2] = head \o (one \o parts[2]) /\ g[1] = parts[2]
    BY <1>2, <1>5, <1>6, <2>1
  <2>3. Good(1)
    BY <2>2
  <2> HIDE DEF Good
  <2> QED
    BY <2>3
<1>9. ASSUME NEW k \in Nat, k \in T PROVE k + 1 \in T
  <2> SUFFICES ASSUME k + 1 + 2 <= n PROVE Good(k + 1 + 1)
    OBVIOUS
  <2> DEFINE i == k + 2
             p == parts[i + 1]
             h == g[i - 1]
  <2>1. /\ i + 1 \in 2 .. n /\ (i + 1) - 1 = i /\ i \in 2 .. n - 1 /\ i \in 1 .. n - 1
        /\ i - 1 = k + 1 /\ i - 1 \in 0 .. n - 1 /\ i + 1 \in 1 .. n /\ i \in Nat
        /\ k + 1 + 1 = i /\ k + 2 <= n
    BY <1>1
  <2>2. p \in Seq(S) /\ h \in Seq(S)
    BY <1>6, <1>7, <2>1
  <2>3. f[i] = head \o (one \o h)
    <3>1. Good(k + 1)
      BY <1>9, <2>1
    <3> QED
      BY <2>1, <3>1
  <2>4. f[i + 1] = f[i] \o (one \o p)
    BY <1>5, <2>1
  <2>5. g[i] = h \o (one \o p)
    BY <1>2, <1>6, <2>1
  <2> HIDE DEF p, h, i, T
  <2> DEFINE q == one \o p
             a == one \o h
  <2>6. q \in Seq(S) /\ a \in Seq(S)
    BY <1>1, <2>2, ConcatProperties
  <2>10. one \in Seq(S) /\ head \in Seq(S)
    BY <1>1
  <2>7. a \o q = one \o (h \o q)
    <3> HIDE DEF q
    <3>0. one \in Seq(S) /\ h \in Seq(S) /\ q \in Seq(S)
      BY <2>2, <2>6, <2>10
    <3>1. (one \o h) \o q = one \o (h \o q)
      BY <1>0, <3>0, ZenonT(30)
    <3> QED
      BY <3>1, Zenon
  <2>8. (head \o a) \o q = head \o (a \o q)
    <3> HIDE DEF q, a
    <3> QED
      BY <1>0, <2>6, <2>10, Zenon
  <2>9. f[i + 1] = head \o (one \o g[i])
    BY <2>3, <2>4, <2>5, <2>7, <2>8
  <2> QED
    BY <2>1, <2>9
<1> HIDE DEF Good
<1>10. n - 2 \in T
  <2> HIDE DEF T
  <2>1. n - 2 \in Nat
    BY <1>1
  <2>2. Nat \subseteq T
    BY <1>8, <1>9, SetInduction
  <2> QED
    BY <2>1, <2>2
<1>11. f[n] = head \o (one \o g[n - 1])
  <2>1. n - 2 + 2 <= n /\ n - 2 + 1 = n - 1 /\ n - 1 + 1 = n
    BY <1>1
  <2>2. Good(n - 1)
    BY <1>10, <2>1
  <2> QED
    BY <2>1, <2>2 DEF Good
<1>12. rest # <<>>
  BY <1>1, <1>2
<1> QED
  BY <1>2, <1>5, <1>6, <1>11, <1>12 DEF rest, head, one

\* Cut at the separators, the joined parts are the parts again.
LEMMA FieldsOfJoined ==
  ASSUME NEW sep \in Byte, NEW parts \in Seq(Seq(Byte)),
         \A i \in 1 .. Len(parts) : IsPart(parts[i], {sep})
  PROVE  Fields(Joined(parts, sep), {sep}) = parts
<1> DEFINE n == Len(parts)
           first(k) == SubSeq(parts, 1, k)
<1>1. n \in Nat /\ \A i \in 1 .. n : parts[i] \in Seq(Byte) /\ IsPart(parts[i], {sep})
  <2>1. \A i \in 1 .. n : parts[i] \in Seq(Byte)
    BY ElementOfSeq
  <2>2. n \in Nat
    OBVIOUS
  <2> QED
    BY <2>1, <2>2
<1>2. PICK f : Joins(f, parts, sep, Byte)
  BY JoinedRecursion
<1>3. /\ f \in [0 .. n -> Seq(Byte)] /\ f[0] = <<>> /\ (n > 0 => f[1] = parts[1])
      /\ \A i \in 2 .. n : f[i] = f[i - 1] \o (<<sep>> \o parts[i])
      /\ Joined(parts, sep) = f[n]
  BY <1>2 DEF Joins
<1>4. first(0) = <<>> /\ first(n) = parts
  BY SubSeqFull, SubSeqEmpty
<1>5. ASSUME NEW k \in Nat, k + 1 <= n PROVE first(k + 1) = Append(first(k), parts[k + 1])
  OBVIOUS
<1> HIDE DEF n, first
<1> DEFINE Good(k) == Fields(f[k], {sep}) = first(k)
           T == {k \in Nat : k <= n => Good(k)}
<1>6. 0 \in T
  BY <1>3, <1>4, FieldsOfNothing
<1>7. ASSUME NEW k \in Nat, k \in T PROVE k + 1 \in T
  <2> SUFFICES ASSUME k + 1 <= n PROVE Good(k + 1)
    OBVIOUS
  <2> DEFINE t == f[k]
             w == parts[k + 1]
  <2>1. k \in 0 .. n /\ k + 1 \in 1 .. n /\ (k + 1) - 1 = k
    BY <1>1
  <2>2. t \in Seq(Byte) /\ w \in Seq(Byte) /\ IsPart(w, {sep})
    BY <1>1, <1>3, <2>1
  <2>3. Fields(t, {sep}) = first(k)
    BY <1>7, <2>1
  <2> HIDE DEF t, w, T
  <2>4. CASE k = 0
    <3>1. f[k + 1] = w /\ t = <<>>
      BY <1>1, <1>3, <2>1, <2>4 DEF t, w
    <3>2. IsClosed(t, {sep}) /\ t \o w = w
      BY <2>2, <3>1, ConcatEmptySeq DEF IsClosed
    <3>3. Fields(t \o w, {sep}) = Append(first(k), w)
      <4>1. Fields(t \o w, {sep}) = Append(Fields(t, {sep}), w)
        BY <2>2, <3>2, FieldsOfWord
      <4> QED
        BY <2>3, <4>1
    <3> QED
      BY <1>5, <3>1, <3>2, <3>3 DEF w
  <2>5. CASE k # 0
    <3> DEFINE u == Append(t, sep)
    <3>1. f[k + 1] = t \o (<<sep>> \o w)
      <4>1. k + 1 \in 2 .. n
        BY <1>1, <2>5
      <4> QED
        BY <1>3, <2>1, <4>1 DEF t, w
    <3>2. u \in Seq(Byte) /\ IsClosed(u, {sep}) /\ t \o <<sep>> = u /\ <<sep>> \in Seq(Byte)
      BY <2>2, AppendIsConcat DEF IsClosed
    <3>3. Fields(u, {sep}) = first(k)
      BY <2>2, <2>3, FieldsOfCut
    <3> HIDE DEF u
    <3>4. f[k + 1] = u \o w
      <4>1. t \o (<<sep>> \o w) = (t \o <<sep>>) \o w
        <5>1. \A a, b, c \in Seq(Byte) : a \o (b \o c) = (a \o b) \o c
          BY ConcatAssociative
        <5> QED
          BY <2>2, <3>2, <5>1, Zenon
      <4> QED
        BY <3>1, <3>2, <4>1
    <3>5. Fields(u \o w, {sep}) = Append(first(k), w)
      <4>1. Fields(u \o w, {sep}) = Append(Fields(u, {sep}), w)
        BY <2>2, <3>2, FieldsOfWord
      <4> QED
        BY <3>3, <4>1
    <3> QED
      BY <1>5, <3>4, <3>5 DEF w
  <2> QED
    BY <2>4, <2>5
<1> HIDE DEF T
<1>8. Nat \subseteq T
  BY <1>6, <1>7, SetInduction
<1>9. Good(n)
  <2>1. n \in T /\ n <= n
    BY <1>1, <1>8
  <2> HIDE DEF Good
  <2> QED
    BY <2>1 DEF T
<1> QED
  BY <1>3, <1>4, <1>9

-------------------------------------------------------------------------------
\* The list of origins that an application accepts.

Symbol == Byte \cup {Https}

\* The candidates after one more symbol.
NextCandidates(before, c) ==
  IF c = Ch.space THEN Append(before, <<>>)
  ELSE [before EXCEPT ![Len(before)] = Append(@, c)]

LEMMA NextCandidatesType ==
  ASSUME NEW S, NEW c \in S, NEW before \in Seq(Seq(S)), before # <<>>
  PROVE  NextCandidates(before, c) \in Seq(Seq(S)) /\ NextCandidates(before, c) # <<>>
<1> DEFINE m == Len(before)
           e == Append(before[m], c)
           none == <<>>
<1>1. m \in 1 .. m /\ none \in Seq(S) /\ before[m] \in Seq(S)
  <2>1. m \in Nat /\ m > 0
    OBVIOUS
  <2>2. before[m] \in Seq(S)
    BY <2>1, ElementOfSeq
  <2> QED
    BY <2>1, <2>2
<1>2. e \in Seq(S)
  BY <1>1, AppendProperties
<1> HIDE DEF e, none
<1>3. [before EXCEPT ![m] = e] \in Seq(Seq(S)) /\ Len([before EXCEPT ![m] = e]) = m
  BY <1>1, <1>2, ExceptSeq
<1>4. [before EXCEPT ![m] = e] # <<>>
  <2> DEFINE s == [before EXCEPT ![m] = e]
  <2>1. Len(s) = m /\ m # 0
    BY <1>3
  <2> HIDE DEF s
  <2>2. s = <<>> => Len(s) = 0
    OBVIOUS
  <2> QED
    BY <2>1, <2>2 DEF s
<1>5. Append(before, none) \in Seq(Seq(S)) /\ Append(before, none) # <<>>
  <2> DEFINE s == Append(before, none)
  <2>1. s \in Seq(Seq(S)) /\ Len(s) = m + 1 /\ m + 1 # 0
    BY <1>1, AppendProperties
  <2> HIDE DEF s
  <2>2. s = <<>> => Len(s) = 0
    OBVIOUS
  <2> QED
    BY <2>1, <2>2 DEF s
<1> QED
  BY <1>3, <1>4, <1>5 DEF NextCandidates, e, none

LEMMA CandidatesRecursion ==
  ASSUME NEW text \in Seq(Symbol)
  PROVE  \E f \in [0 .. Len(text) -> Seq(Seq(Symbol)) \ {<<>>}] :
           /\ f[0] = << <<>> >>
           /\ \A i \in 1 .. Len(text) : f[i] = NextCandidates(f[i - 1], text[i])
           /\ Candidates(text) = f[Len(text)]
<1> DEFINE n == Len(text)
           A == Seq(Seq(Symbol)) \ {<<>>}
           none == << <<>> >>
           G == [i \in 1 .. n |-> [b \in A |-> NextCandidates(b, text[i])]]
           fs == CHOOSE f : f = [i \in 0 .. n |-> IF i = 0 THEN none
                                                  ELSE NextCandidates(f[i - 1], text[i])]
<1>1. n \in Nat /\ none \in A
  OBVIOUS
<1>2. G \in [1 .. n -> [A -> A]]
  <2>1. ASSUME NEW i \in 1 .. n, NEW b \in A PROVE NextCandidates(b, text[i]) \in A
    <3>1. text[i] \in Symbol /\ b \in Seq(Seq(Symbol)) /\ b # <<>>
      BY ElementOfSeq
    <3> QED
      BY <3>1, NextCandidatesType
  <2> HIDE DEF A
  <2> QED
    BY <2>1
<1> HIDE DEF none, A
<1>3. PICK f \in [0 .. n -> A] : f[0] = none /\ \A i \in 1 .. n : f[i] = G[i][f[i - 1]]
  <2> HIDE DEF n, G
  <2>1. \E f : Recurs(f, n, A, none, G)
    BY <1>1, <1>2, RecursionExists
  <2> QED
    BY <2>1 DEF Recurs
<1>4. \A i \in 1 .. n : f[i] = NextCandidates(f[i - 1], text[i])
  <2> TAKE i \in 1 .. n
  <2>1. f[i - 1] \in A
    BY <1>1, <1>3
  <2> QED
    BY <1>3, <2>1
<1>5. f = [i \in 0 .. n |-> IF i = 0 THEN none ELSE NextCandidates(f[i - 1], text[i])]
  BY <1>1, <1>3, <1>4
<1>6. fs = [i \in 0 .. n |-> IF i = 0 THEN none ELSE NextCandidates(fs[i - 1], text[i])]
  BY <1>5
<1>7. Candidates(text) = fs[n]
  BY DEF Candidates, NextCandidates, none
<1> HIDE DEF fs, n
<1>8. fs[0] = none /\ \A i \in 1 .. n : fs[i] = NextCandidates(fs[i - 1], text[i])
  BY <1>1, <1>6
<1>9. \A m \in 0 .. n : fs[m] = f[m]
  <2>1. fs[0] = f[0]
    BY <1>3, <1>8
  <2>2. \A k \in 0 .. n - 1 : fs[k] = f[k] => fs[k + 1] = f[k + 1]
    <3> TAKE k \in 0 .. n - 1
    <3>1. k + 1 \in 1 .. n /\ (k + 1) - 1 = k
      BY <1>1
    <3> QED
      BY <1>4, <1>8, <3>1
  <2> QED
    BY <1>1, <2>1, <2>2, Agree
<1>10. Candidates(text) = f[n]
  BY <1>1, <1>7, <1>9
<1> QED
  BY <1>3, <1>4, <1>10 DEF A, n, none

LEMMA CandidatesOfNothing == Candidates(<<>>) = << <<>> >>
<1>1. <<>> \in Seq(Symbol) /\ Len(<<>>) = 0
  OBVIOUS
<1> QED
  BY <1>1, CandidatesRecursion

LEMMA CandidatesOfAppend ==
  ASSUME NEW text \in Seq(Symbol), NEW c \in Symbol
  PROVE  Candidates(Append(text, c)) = NextCandidates(Candidates(text), c)
<1> DEFINE n == Len(text)
           more == Append(text, c)
<1>1. /\ more \in Seq(Symbol) /\ Len(more) = n + 1 /\ n \in Nat /\ more[n + 1] = c
      /\ \A i \in 1 .. n : more[i] = text[i]
  BY AppendProperties
<1> HIDE DEF more, n
<1> DEFINE none == << <<>> >>
<1>2. PICK f : /\ f[0] = none
               /\ \A i \in 1 .. n : f[i] = NextCandidates(f[i - 1], text[i])
               /\ Candidates(text) = f[n]
  BY CandidatesRecursion DEF n
<1>3. PICK g : /\ g[0] = none
               /\ \A i \in 1 .. n + 1 : g[i] = NextCandidates(g[i - 1], more[i])
               /\ Candidates(more) = g[n + 1]
  BY <1>1, CandidatesRecursion
<1> HIDE DEF none
<1>4. \A k \in 0 .. n - 1 : f[k] = g[k] => f[k + 1] = g[k + 1]
  <2> SUFFICES ASSUME NEW k \in 0 .. n - 1, f[k] = g[k] PROVE f[k + 1] = g[k + 1]
    OBVIOUS
  <2>1. k + 1 \in 1 .. n /\ k + 1 \in 1 .. n + 1 /\ (k + 1) - 1 = k
    BY <1>1
  <2>2. /\ f[k + 1] = NextCandidates(f[k], text[k + 1])
        /\ g[k + 1] = NextCandidates(g[k], more[k + 1])
    BY <1>2, <1>3, <2>1
  <2> QED
    BY <1>1, <2>1, <2>2
<1>5. f[n] = g[n]
  <2>1. f[0] = g[0] /\ n \in Nat
    BY <1>1, <1>2, <1>3
  <2>2. \A k \in 0 .. n : f[k] = g[k]
    BY <1>4, <2>1, Agree
  <2> QED
    BY <1>1, <2>2
<1>6. g[n + 1] = NextCandidates(g[n], more[n + 1])
  <2>1. n + 1 \in 1 .. n + 1 /\ (n + 1) - 1 = n
    BY <1>1
  <2> QED
    BY <1>3, <2>1
<1> QED
  BY <1>1, <1>2, <1>3, <1>5, <1>6 DEF more

\* The first elements of a sequence, one more at a time.
LEMMA FirstGrows ==
  ASSUME NEW S, NEW seq \in Seq(S), NEW k \in Nat, k + 1 <= Len(seq)
  PROVE  /\ SubSeq(seq, 1, k) \in Seq(S) /\ seq[k + 1] \in S
         /\ SubSeq(seq, 1, k + 1) = Append(SubSeq(seq, 1, k), seq[k + 1])
<1>1. seq[k + 1] \in S
  BY ElementOfSeq
<1>2. SubSeq(seq, 1, k) \in Seq(S)
  OBVIOUS
<1>3. SubSeq(seq, 1, k + 1) = Append(SubSeq(seq, 1, k), seq[k + 1])
  OBVIOUS
<1> QED
  BY <1>1, <1>2, <1>3

\* The candidates of list are those of before, and then last.
CandidatesAre(list, before, last) == Candidates(list) = Append(before, last)

\* A text without a space goes on with the last candidate.
LEMMA CandidatesOfWord ==
  ASSUME NEW text \in Seq(Symbol), NEW before \in Seq(Seq(Symbol)), NEW a \in Seq(Symbol),
         CandidatesAre(text, before, a),
         NEW word \in Seq(Symbol), \A i \in 1 .. Len(word) : word[i] # Ch.space
  PROVE  CandidatesAre(text \o word, before, a \o word)
<1> DEFINE n == Len(word)
           first(k) == SubSeq(word, 1, k)
           Good(k) == CandidatesAre(text \o first(k), before, a \o first(k))
           T == {k \in Nat : k <= n => Good(k)}
<1>1. n \in Nat /\ first(n) = word /\ first(0) = <<>>
  BY SubSeqFull, SubSeqEmpty
<1>2. ASSUME NEW k \in Nat, k + 1 <= n
      PROVE  /\ first(k) \in Seq(Symbol) /\ word[k + 1] \in Symbol /\ word[k + 1] # Ch.space
             /\ first(k + 1) = Append(first(k), word[k + 1])
  <2>1. k + 1 <= n /\ k + 1 \in 1 .. n
    BY <1>1, <1>2
  <2>2. /\ first(k) \in Seq(Symbol) /\ word[k + 1] \in Symbol
        /\ first(k + 1) = Append(first(k), word[k + 1])
    BY <2>1, FirstGrows
  <2> QED
    BY <2>1, <2>2
<1>3. 0 \in T
  <2>1. text \o <<>> = text /\ a \o <<>> = a
    BY ConcatEmptySeq
  <2> QED
    BY <1>1, <2>1
<1> HIDE DEF n, first
<1>4. ASSUME NEW k \in Nat, k \in T PROVE k + 1 \in T
  <2> SUFFICES ASSUME k + 1 <= n PROVE Good(k + 1)
    OBVIOUS
  <2> DEFINE w == first(k)
             c == word[k + 1]
             t == text \o w
             b == a \o w
  <2>1. w \in Seq(Symbol) /\ c \in Symbol /\ c # Ch.space /\ first(k + 1) = Append(w, c)
    BY <1>2
  <2>2. k <= n
    BY <1>1
  <2>3. CandidatesAre(t, before, b)
    BY <1>4, <2>2
  <2> HIDE DEF w, c, T
  <2>4. t \in Seq(Symbol) /\ b \in Seq(Symbol)
    BY <2>1, ConcatProperties
  <2>5. text \o Append(w, c) = Append(t, c) /\ a \o Append(w, c) = Append(b, c)
    <3>1. text \o Append(w, c) = Append(t, c)
      BY <2>1, ConcatAppend
    <3>2. a \o Append(w, c) = Append(b, c)
      BY <2>1, ConcatAppend
    <3> QED
      BY <3>1, <3>2
  <2> HIDE DEF t, b
  <2>6. Candidates(Append(t, c)) = NextCandidates(Append(before, b), c)
    BY <2>1, <2>3, <2>4, CandidatesOfAppend DEF CandidatesAre
  <2>7. NextCandidates(Append(before, b), c) = Append(before, Append(b, c))
    BY <2>1, <2>4, LastPartGrows DEF NextCandidates
  <2> QED
    BY <2>1, <2>5, <2>6, <2>7 DEF CandidatesAre
<1> HIDE DEF T
<1>5. Nat \subseteq T
  BY <1>3, <1>4, SetInduction
<1>6. n \in T /\ n <= n
  BY <1>1, <1>5
<1> HIDE DEF Good
<1>7. Good(n)
  BY <1>6 DEF T
<1> QED
  BY <1>1, <1>7 DEF Good

\* A list of texts with spaces between them is a list of these candidates.
LEMMA CandidatesOfJoined ==
  ASSUME NEW texts \in Seq(Seq(Symbol)), texts # <<>>,
         \A i \in 1 .. Len(texts) : \A j \in 1 .. Len(texts[i]) : texts[i][j] # Ch.space
  PROVE  Candidates(Joined(texts, Ch.space)) = texts
<1> DEFINE n == Len(texts)
           sep == Ch.space
           first(k) == SubSeq(texts, 1, k)
<1>0. sep \in Symbol
  BY DEF Symbol, Byte, Ch
<1>1. /\ n \in Nat \ {0} /\ \A i \in 1 .. n : texts[i] \in Seq(Symbol)
      /\ \A i \in 1 .. n : \A j \in 1 .. Len(texts[i]) : texts[i][j] # Ch.space
  <2>1. n \in Nat \ {0}
    OBVIOUS
  <2>2. \A i \in 1 .. n : texts[i] \in Seq(Symbol)
    BY ElementOfSeq
  <2> QED
    BY <2>1, <2>2
<1> HIDE DEF sep
<1>2. PICK f : Joins(f, texts, sep, Symbol)
  BY <1>0, JoinedRecursion
<1>3. /\ f \in [0 .. n -> Seq(Symbol)] /\ f[1] = texts[1]
      /\ \A i \in 2 .. n : f[i] = f[i - 1] \o (<<sep>> \o texts[i])
      /\ Joined(texts, sep) = f[n]
  <2>1. n > 0
    BY <1>1
  <2> QED
    BY <1>2, <2>1, Zenon DEF Joins
<1>4. first(n) = texts /\ first(0) = <<>>
  BY SubSeqFull, SubSeqEmpty
<1>5. ASSUME NEW k \in Nat, k + 1 <= n
      PROVE  first(k + 1) = Append(first(k), texts[k + 1]) /\ first(k) \in Seq(Seq(Symbol))
  BY <1>5, FirstGrows
<1>6. \A x, y, z \in Seq(Symbol) : (x \o y) \o z = x \o (y \o z)
  BY Associative, SMTT(30)
<1> HIDE DEF n, first
<1> DEFINE Good(k) == Candidates(f[k]) = first(k)
           T == {k \in Nat : k + 1 <= n => Good(k + 1)}
           none == <<>>
<1>7. none \in Seq(Symbol) /\ \A w \in Seq(Symbol) : none \o w = w
  BY ConcatEmptySeq
<1>8. 0 \in T
  <2> DEFINE w == texts[1]
  <2>1. 1 \in 1 .. n
    BY <1>1
  <2>2. w \in Seq(Symbol) /\ \A j \in 1 .. Len(w) : w[j] # Ch.space
    BY <1>1, <2>1
  <2>3. first(1) = Append(none, w) /\ none \in Seq(Seq(Symbol)) /\ f[1] = w
    <3>1. 0 \in Nat /\ 0 + 1 <= n /\ 0 + 1 = 1
      BY <1>1
    <3>2. first(0 + 1) = Append(first(0), texts[0 + 1]) /\ first(0) \in Seq(Seq(Symbol))
      BY <1>5, <3>1
    <3> QED
      BY <1>3, <1>4, <3>1, <3>2
  <2>4. CandidatesAre(none, none, none)
    BY CandidatesOfNothing DEF CandidatesAre
  <2> HIDE DEF w, none
  <2>5. CandidatesAre(none \o w, none, none \o w)
    BY <1>7, <2>2, <2>3, <2>4, CandidatesOfWord
  <2>6. Candidates(w) = Append(none, w)
    BY <1>7, <2>2, <2>5 DEF CandidatesAre
  <2>7. Good(1)
    BY <2>3, <2>6
  <2> QED
    BY <2>7
<1> HIDE DEF none
<1>9. ASSUME NEW k \in Nat, k \in T PROVE k + 1 \in T
  <2> SUFFICES ASSUME k + 1 + 1 <= n PROVE Good(k + 1 + 1)
    OBVIOUS
  <2> DEFINE i == k + 1
             t == f[i]
             w == texts[i + 1]
             b == first(i)
             u == Append(t, sep)
  <2>1. i \in 0 .. n /\ i + 1 \in 2 .. n /\ i + 1 \in 1 .. n /\ (i + 1) - 1 = i /\ i \in Nat
        /\ i <= n /\ i + 1 <= n
    BY <1>1
  <2>2. /\ t \in Seq(Symbol) /\ w \in Seq(Symbol)
        /\ \A j \in 1 .. Len(w) : w[j] # Ch.space
    BY <1>1, <1>3, <2>1
  <2>3. Candidates(t) = b /\ b \in Seq(Seq(Symbol)) /\ first(i + 1) = Append(b, w)
    <3>1. Good(i)
      BY <1>9, <2>1
    <3>2. first(i) \in Seq(Seq(Symbol)) /\ first(i + 1) = Append(first(i), texts[i + 1])
      BY <1>5, <2>1
    <3> QED
      BY <3>1, <3>2
  <2>4. f[i + 1] = t \o (<<sep>> \o w)
    BY <1>3, <2>1
  <2> HIDE DEF i, t, w, b, T
  <2>5. u \in Seq(Symbol) /\ t \o <<sep>> = u /\ <<sep>> \in Seq(Symbol)
    BY <1>0, <2>2, AppendIsConcat
  <2>6. CandidatesAre(u, b, none)
    <3>1. Candidates(Append(t, sep)) = NextCandidates(b, sep)
      BY <1>0, <2>2, <2>3, CandidatesOfAppend
    <3> QED
      BY <3>1 DEF NextCandidates, CandidatesAre, sep, none
  <2> HIDE DEF u
  <2>7. CandidatesAre(u \o w, b, none \o w)
    BY <1>7, <2>2, <2>3, <2>5, <2>6, CandidatesOfWord
  <2>8. f[i + 1] = u \o w
    <3>1. (t \o <<sep>>) \o w = t \o (<<sep>> \o w)
      BY <1>6, <2>2, <2>5, Zenon
    <3> QED
      BY <2>4, <2>5, <3>1
  <2>9. Candidates(f[i + 1]) = first(i + 1)
    BY <1>7, <2>2, <2>3, <2>7, <2>8 DEF CandidatesAre
  <2> QED
    BY <2>9 DEF i
<1> HIDE DEF T
<1>10. Nat \subseteq T
  BY <1>8, <1>9, SetInduction
<1>11. n - 1 \in T /\ n - 1 + 1 = n /\ n - 1 + 1 <= n
  BY <1>1, <1>10
<1> HIDE DEF Good
<1>12. Good(n)
  BY <1>11 DEF T
<1> QED
  BY <1>3, <1>4, <1>12 DEF Good, sep

-------------------------------------------------------------------------------
\* Hosts and ports.

\* A text is cut again where it was joined.
LEMMA ConcatCut ==
  ASSUME NEW S, NEW s \in Seq(S), NEW t \in Seq(S)
  PROVE  SubSeq(s \o t, 1, Len(s)) = s /\ From(s \o t, Len(s)) = t
<1> DEFINE x == s \o t
           n == Len(s)
           m == Len(t)
           a == SubSeq(x, 1, n)
           b == From(x, n)
<1>1. /\ x \in Seq(S) /\ Len(x) = n + m /\ n \in Nat /\ m \in Nat
      /\ \A i \in 1 .. n + m : x[i] = IF i <= n THEN s[i] ELSE t[i - n]
  BY ConcatProperties
<1>2. \A i \in 1 .. n + m : x[i] \in S
  BY <1>1, ElementOfSeq
<1> HIDE DEF x, n, m
<1>3. a \in Seq(S) /\ Len(a) = n /\ \A i \in 1 .. n : a[i] = x[i]
  <2>1. \A i \in 1 .. n : x[i] \in S
    BY <1>1, <1>2
  <2>2. /\ a \in Seq(S) /\ Len(a) = IF 1 <= n THEN n - 1 + 1 ELSE 0
        /\ \A i \in 1 .. n - 1 + 1 : a[i] = x[1 + i - 1]
    BY <1>1, <2>1, SubSeqProperties
  <2> HIDE DEF a
  <2> QED
    BY <1>1, <2>2
<1>4. b \in Seq(S) /\ Len(b) = m /\ \A i \in 1 .. m : b[i] = x[n + i]
  <2>1. \A i \in n + 1 .. n + m : x[i] \in S
    BY <1>1, <1>2
  <2>2. n + 1 \in Int /\ n + m \in Int
    BY <1>1
  <2> DEFINE l == n + 1
             r == n + m
             c == SubSeq(x, l, r)
  <2>3. /\ c \in Seq(S) /\ Len(c) = IF l <= r THEN r - l + 1 ELSE 0
        /\ \A i \in 1 .. r - l + 1 : c[i] = x[l + i - 1]
    BY <2>1, <2>2, SubSeqProperties
  <2>4. b = c
    BY <1>1 DEF From
  <2>5. /\ r - l + 1 = m /\ (IF l <= r THEN r - l + 1 ELSE 0) = m
        /\ \A i \in 1 .. m : l + i - 1 = n + i
    BY <1>1
  <2> HIDE DEF b, c, l, r
  <2>6. c \in Seq(S) /\ Len(c) = m
    BY <2>3, <2>5
  <2>7. \A i \in 1 .. m : c[i] = x[n + i]
    BY <2>3, <2>5
  <2> QED
    BY <2>4, <2>6, <2>7
<1> HIDE DEF a, b
<1>5. a = s
  <2>1. Len(a) = Len(s) /\ \A i \in 1 .. Len(a) : a[i] = s[i]
    BY <1>1, <1>3 DEF n
  <2> QED
    BY <1>3, <2>1, SeqEqual
<1>6. b = t
  <2>1. Len(b) = Len(t) /\ \A i \in 1 .. Len(b) : b[i] = t[i]
    BY <1>1, <1>4 DEF m
  <2> QED
    BY <1>4, <2>1, SeqEqual
<1> QED
  BY <1>5, <1>6 DEF a, b, x, n

LEMMA LastColonIs ==
  ASSUME NEW t \in Seq(Byte), NEW k \in 1 .. Len(t), t[k] = Ch.colon,
         \A i \in k + 1 .. Len(t) : t[i] # Ch.colon
  PROVE  LastColon(t) = k
<1> DEFINE I == {i \in 1 .. Len(t) : t[i] = Ch.colon}
<1>1. LastColon(t) = IF I # {} THEN Max(I) ELSE 0
  BY DEF LastColon, SelectLastInSeq
<1>2. Len(t) \in Nat /\ I \subseteq 0 .. Len(t) /\ k \in I /\ \A i \in I : i <= k
  OBVIOUS
<1> HIDE DEF I
<1>3. Max(I) \in I /\ k <= Max(I)
  BY <1>2, MaxProperties
<1>4. Max(I) = k
  <2>1. Max(I) <= k /\ Max(I) \in 0 .. Len(t)
    BY <1>2, <1>3
  <2> QED
    BY <1>3, <2>1
<1> QED
  BY <1>1, <1>2, <1>4

LEMMA NoColon ==
  ASSUME NEW t \in Seq(Byte), \A i \in 1 .. Len(t) : t[i] # Ch.colon
  PROVE  LastColon(t) = 0
BY DEF LastColon, SelectLastInSeq

LEMMA FirstDotIs ==
  ASSUME NEW t \in Seq(Byte), NEW k \in 1 .. Len(t), t[k] = Ch.dot,
         \A i \in 1 .. k - 1 : t[i] # Ch.dot
  PROVE  FirstDot(t) = k
<1> DEFINE I == {i \in 1 .. Len(t) : t[i] = Ch.dot}
<1>1. FirstDot(t) = IF I # {} THEN Min(I) ELSE 0
  BY DEF FirstDot, SelectInSeq
<1>2. Len(t) \in Nat /\ I \subseteq Nat /\ k \in I /\ \A i \in I : k <= i
  OBVIOUS
<1> HIDE DEF I
<1>3. Min(I) \in I /\ Min(I) <= k
  BY <1>2, MinProperties
<1>4. Min(I) = k
  <2>1. k <= Min(I) /\ Min(I) \in Nat
    BY <1>2, <1>3
  <2> QED
    BY <1>3, <2>1
<1> QED
  BY <1>1, <1>2, <1>4

LEMMA NoDot ==
  ASSUME NEW t \in Seq(Byte), \A i \in 1 .. Len(t) : t[i] # Ch.dot
  PROVE  FirstDot(t) = 0
BY DEF FirstDot, SelectInSeq

\* The bytes that a host has in front of its port.
HostByte == Byte \ {Ch.space, Ch.colon}

LEMMA PortType ==
  ASSUME NEW p \in Seq(Digit)
  PROVE  /\ p \in Seq(HostByte) /\ PortText(p) \in Seq(Byte)
         /\ p # <<>> => PortText(p) = <<Ch.colon>> \o p
         /\ p = <<>> => PortText(p) = <<>>
<1>1. Digit \subseteq HostByte /\ HostByte \subseteq Byte /\ Ch.colon \in Byte
  BY DEF Digit, HostByte, Byte, Ch
<1>2. p \in Seq(HostByte) /\ p \in Seq(Byte)
  BY <1>1
<1>3. <<Ch.colon>> \in Seq(Byte)
  BY <1>1
<1>4. <<Ch.colon>> \o p \in Seq(Byte)
  BY <1>2, <1>3, ConcatProperties
<1> QED
  BY <1>2, <1>4 DEF PortText

\* The last colon of a host and a port is that of the port.
LEMMA PortOf ==
  ASSUME NEW h \in Seq(HostByte), NEW p \in Seq(Digit)
  PROVE  LET t == h \o PortText(p)
         IN  /\ t \in Seq(Byte)
             /\ p = <<>> => t = h /\ LastColon(t) = 0
             /\ p # <<>> => /\ LastColon(t) = Len(h) + 1 /\ WithoutPort(t) = h
                            /\ From(t, Len(h)) = <<Ch.colon>> \o p
<1> DEFINE t == h \o PortText(p)
           q == PortText(p)
           n == Len(h)
           m == Len(q)
<1>1. h \in Seq(Byte) /\ q \in Seq(Byte) /\ p \in Seq(HostByte) /\ n \in Nat /\ m \in Nat
  <2>1. h \in Seq(Byte)
    BY DEF HostByte
  <2> QED
    BY <2>1, PortType
<1>2. \A i \in 1 .. n : h[i] # Ch.colon
  <2> TAKE i \in 1 .. n
  <2>1. h[i] \in HostByte
    BY ElementOfSeq
  <2> QED
    BY <2>1 DEF HostByte
<1> HIDE DEF q, n
<1>3. /\ t \in Seq(Byte) /\ Len(t) = n + m
      /\ \A i \in 1 .. n + m : t[i] = IF i <= n THEN h[i] ELSE q[i - n]
  BY <1>1, ConcatProperties DEF q, n
<1>4. SubSeq(t, 1, n) = h /\ From(t, n) = q
  BY <1>1, ConcatCut DEF q, n
<1>5. ASSUME p = <<>> PROVE t = h /\ LastColon(t) = 0
  <2>1. t = h
    BY <1>1, <1>5, PortType, ConcatEmptySeq DEF q
  <2>2. \A i \in 1 .. Len(h) : h[i] # Ch.colon
    BY <1>2 DEF n
  <2> QED
    BY <1>1, <2>1, <2>2, NoColon
<1>6. ASSUME p # <<>>
      PROVE  LastColon(t) = n + 1 /\ WithoutPort(t) = h /\ From(t, n) = <<Ch.colon>> \o p
  <2>1. q = <<Ch.colon>> \o p
    BY <1>6, PortType DEF q
  <2>2. m = 1 + Len(p) /\ q[1] = Ch.colon /\ \A i \in 2 .. m : q[i] = p[i - 1]
    <3>1. <<Ch.colon>> \in Seq(Byte) /\ p \in Seq(Byte) /\ Len(<<Ch.colon>>) = 1
          /\ <<Ch.colon>>[1] = Ch.colon
      BY <1>1 DEF HostByte, Ch, Byte
    <3> DEFINE c == <<Ch.colon>>
    <3> HIDE DEF c
    <3>2. /\ Len(c \o p) = 1 + Len(p)
          /\ \A i \in 1 .. 1 + Len(p) : (c \o p)[i] = IF i <= 1 THEN c[i] ELSE p[i - 1]
      BY <3>1, ConcatProperties DEF c
    <3>3. Len(p) \in Nat /\ c[1] = Ch.colon
      BY <3>1 DEF c
    <3> QED
      BY <2>1, <3>2, <3>3 DEF c
  <2>3. \A i \in 1 .. Len(p) : p[i] # Ch.colon
    <3> TAKE i \in 1 .. Len(p)
    <3>1. p[i] \in HostByte
      BY <1>1, ElementOfSeq
    <3> QED
      BY <3>1 DEF HostByte
  <2> HIDE DEF t, m
  <2>4. n + 1 \in 1 .. Len(t) /\ t[n + 1] = Ch.colon
    <3>1. n + 1 \in 1 .. n + m /\ ~(n + 1 <= n) /\ (n + 1) - n = 1
      BY <1>1, <2>2
    <3>2. t[n + 1] = q[(n + 1) - n]
      BY <1>3, <3>1
    <3> QED
      BY <1>3, <2>2, <3>1, <3>2
  <2>5. \A i \in n + 1 + 1 .. Len(t) : t[i] # Ch.colon
    <3> TAKE i \in n + 1 + 1 .. Len(t)
    <3>1. i \in 1 .. n + m /\ ~(i <= n) /\ i - n \in 2 .. m /\ i - n - 1 \in 1 .. Len(p)
      BY <1>1, <1>3, <2>2
    <3>2. t[i] = q[i - n] /\ q[i - n] = p[i - n - 1]
      BY <1>3, <2>2, <3>1
    <3> QED
      BY <2>3, <3>1, <3>2
  <2>6. LastColon(t) = n + 1
    BY <1>3, <2>4, <2>5, LastColonIs
  <2>7. WithoutPort(t) = SubSeq(t, 1, n)
    <3>1. LastColon(t) - 1 = n
      BY <1>1, <2>6
    <3> QED
      BY <3>1 DEF WithoutPort
  <2> QED
    BY <1>4, <2>1, <2>6, <2>7
<1> QED
  BY <1>3, <1>5, <1>6 DEF n

\* A port is of digits, and so the texts of two hosts with ports are equal only
\* if both are.
LEMMA SameHostAndPort ==
  ASSUME NEW h1 \in Seq(HostByte), NEW p1 \in Seq(Digit),
         NEW h2 \in Seq(HostByte), NEW p2 \in Seq(Digit),
         h1 \o PortText(p1) = h2 \o PortText(p2)
  PROVE  h1 = h2 /\ p1 = p2
<1> DEFINE t1 == h1 \o PortText(p1)
           t2 == h2 \o PortText(p2)
           colon == <<Ch.colon>>
<1>1. /\ p1 = <<>> => t1 = h1 /\ LastColon(t1) = 0
      /\ p1 # <<>> => /\ LastColon(t1) = Len(h1) + 1 /\ WithoutPort(t1) = h1
                      /\ From(t1, Len(h1)) = colon \o p1
  BY PortOf
<1>2. /\ p2 = <<>> => t2 = h2 /\ LastColon(t2) = 0
      /\ p2 # <<>> => /\ LastColon(t2) = Len(h2) + 1 /\ WithoutPort(t2) = h2
                      /\ From(t2, Len(h2)) = colon \o p2
  BY PortOf
<1>3. Len(h1) + 1 # 0 /\ Len(h2) + 1 # 0
  OBVIOUS
<1>4. t1 = t2
  OBVIOUS
<1>5. From(colon \o p1, Len(colon)) = p1 /\ From(colon \o p2, Len(colon)) = p2
  <2>1. colon \in Seq(Byte)
    BY DEF Ch, Byte
  <2>2. p1 \in Seq(Byte) /\ p2 \in Seq(Byte)
    BY DEF Digit, Byte
  <2> QED
    BY <2>1, <2>2, ConcatCut
<1> HIDE DEF t1, t2, colon
<1>6. CASE p1 = <<>>
  BY <1>1, <1>2, <1>3, <1>4, <1>6
<1>7. CASE p1 # <<>>
  <2>1. p2 # <<>>
    BY <1>1, <1>2, <1>3, <1>4, <1>7
  <2>2. h1 = h2
    BY <1>1, <1>2, <1>4, <1>7, <2>1
  <2> QED
    BY <1>1, <1>2, <1>4, <1>5, <1>7, <2>1, <2>2
<1> QED
  BY <1>6, <1>7

\* The bytes that labels and the dots between them have.
HostTextByte == Byte \ {Ch.space, Ch.star, Ch.colon}

\* What the labels of a host are joined to.
LEMMA HostType ==
  ASSUME NEW host \in HostName
  PROVE  /\ Joined(host, Ch.dot) \in Seq(HostTextByte) /\ Joined(host, Ch.dot) # <<>>
         /\ host \in Seq(Seq(HostTextByte)) /\ host \in Seq(Seq(Byte)) /\ host # <<>>
         /\ \A i \in 1 .. Len(host) : IsPart(host[i], {Ch.dot})
         /\ Fields(Joined(host, Ch.dot), {Ch.dot}) = host
<1>1. Label \subseteq Seq(HostTextByte) /\ Label \subseteq Seq(Byte)
  <2> DEFINE L == TextByte \ {Ch.space, Ch.star, Ch.dot, Ch.colon}
  <2>1. L \subseteq HostTextByte /\ L \subseteq Byte
    BY DEF HostTextByte, TextByte
  <2> HIDE DEF L
  <2>2. Seq(L) \subseteq Seq(HostTextByte) /\ Seq(L) \subseteq Seq(Byte)
    BY <2>1
  <2> QED
    BY <2>2 DEF Label, L
<1>2. host \in Seq(Label) /\ host # <<>>
  BY DEF HostName
<1>3. host \in Seq(Seq(HostTextByte)) /\ host \in Seq(Seq(Byte))
  BY <1>1, <1>2
<1>4. \A i \in 1 .. Len(host) : IsPart(host[i], {Ch.dot})
  <2> TAKE i \in 1 .. Len(host)
  <2> DEFINE l == host[i]
             L == TextByte \ {Ch.space, Ch.star, Ch.dot, Ch.colon}
  <2>1. l \in Seq(L) /\ l # <<>>
    <3>1. l \in Label
      BY <1>2, ElementOfSeq
    <3> QED
      BY <3>1 DEF Label
  <2> HIDE DEF l, L
  <2>2. \A j \in 1 .. Len(l) : l[j] \in L
    BY <2>1, ElementOfSeq
  <2> QED
    BY <2>1, <2>2 DEF IsPart, l, L
<1>5. Ch.dot \in HostTextByte /\ Ch.dot \in Byte
  BY DEF HostTextByte, Ch, Byte
<1>6. Joined(host, Ch.dot) \in Seq(HostTextByte)
  BY <1>3, <1>5, JoinedType
<1>7. Fields(Joined(host, Ch.dot), {Ch.dot}) = host
  BY <1>3, <1>4, <1>5, FieldsOfJoined
<1>8. Joined(host, Ch.dot) # <<>>
  BY <1>2, <1>7, FieldsOfNothing
<1> QED
  BY <1>2, <1>3, <1>4, <1>6, <1>7, <1>8

LEMMA SameHost ==
  ASSUME NEW h1 \in HostName, NEW h2 \in HostName, Joined(h1, Ch.dot) = Joined(h2, Ch.dot)
  PROVE  h1 = h2
<1>1. Fields(Joined(h1, Ch.dot), {Ch.dot}) = h1 /\ Fields(Joined(h2, Ch.dot), {Ch.dot}) = h2
  BY HostType
<1> QED
  BY <1>1

\* What is compared: hosts and the ports that matter.
OriginPort(po, pc) == IF pc = <<>> THEN <<>> ELSE po
CandidatePort(po, pc) == IF pc = <<52, 52, 51>> /\ po = <<>> THEN <<>> ELSE pc

HostPort(h, p) == h \o PortText(p)

LEMMA ComparedTexts ==
  ASSUME NEW ho \in Seq(HostByte), NEW po \in Seq(Digit),
         NEW hc \in Seq(HostByte), NEW pc \in Seq(Digit)
  PROVE  /\ ComparedOrigin(HostPort(ho, po), HostPort(hc, pc)) = HostPort(ho, OriginPort(po, pc))
         /\ ComparedHost(HostPort(ho, po), HostPort(hc, pc)) = HostPort(hc, CandidatePort(po, pc))
         /\ OriginPort(po, pc) \in Seq(Digit) /\ CandidatePort(po, pc) \in Seq(Digit)
<1> DEFINE o == ho \o PortText(po)
           c == hc \o PortText(pc)
           colon == <<Ch.colon>>
           https == <<52, 52, 51>>
           none == <<>>
<1>1. /\ po = none => o = ho /\ LastColon(o) = 0
      /\ po # none => LastColon(o) = Len(ho) + 1 /\ WithoutPort(o) = ho
  BY PortOf
<1>2. /\ pc = none => c = hc /\ LastColon(c) = 0
      /\ pc # none => /\ LastColon(c) = Len(hc) + 1 /\ WithoutPort(c) = hc
                      /\ From(c, Len(hc)) = colon \o pc
  BY PortOf
<1>3. none \in Seq(Digit) /\ https # none
  OBVIOUS
<1>4. Len(ho) + 1 # 0 /\ Len(hc) + 1 # 0 /\ (Len(hc) + 1) - 1 = Len(hc)
  OBVIOUS
<1>5. colon \o pc = Port443 <=> pc = https
  <2>1. Port443 = colon \o https
    BY DEF Port443
  <2>2. colon \in Seq(Byte) /\ https \in Seq(Byte) /\ pc \in Seq(Byte)
    BY DEF Digit, Byte, Ch
  <2> HIDE DEF colon, https
  <2>3. From(colon \o pc, Len(colon)) = pc /\ From(colon \o https, Len(colon)) = https
    BY <2>2, ConcatCut
  <2> QED
    BY <2>1, <2>3
<1>6. ho = ho \o PortText(none) /\ hc = hc \o PortText(none)
  BY <1>3, PortOf
<1> HIDE DEF o, c, colon, https, none
<1>7. ComparedOrigin(o, c) = IF pc = none THEN ho ELSE o
  BY <1>1, <1>2, <1>4 DEF ComparedOrigin
<1>8. ComparedHost(o, c) = IF pc = https /\ po = none THEN hc ELSE c
  <2>1. LastColon(c) # 0 <=> pc # none
    BY <1>2, <1>4
  <2>2. pc # none => From(c, LastColon(c) - 1) = colon \o pc
    BY <1>2, <1>4
  <2>3. LastColon(o) = 0 <=> po = none
    BY <1>1, <1>4
  <2>4. LastColon(c) # 0 /\ From(c, LastColon(c) - 1) = Port443 <=> pc = https
    BY <1>3, <1>5, <2>1, <2>2
  <2> QED
    BY <1>2, <1>3, <2>3, <2>4 DEF ComparedHost
<1>9. OriginPort(po, pc) = IF pc = none THEN none ELSE po
  BY DEF OriginPort, none
<1>10. CandidatePort(po, pc) = IF pc = https /\ po = none THEN none ELSE pc
  BY DEF CandidatePort, none, https
<1>11. ComparedOrigin(o, c) = ho \o PortText(OriginPort(po, pc))
  BY <1>6, <1>7, <1>9 DEF o
<1>12. ComparedHost(o, c) = hc \o PortText(CandidatePort(po, pc))
  BY <1>6, <1>8, <1>10 DEF c
<1> QED
  BY <1>3, <1>9, <1>10, <1>11, <1>12 DEF o, c, HostPort

LEMMA HostBytes ==
  Seq(HostTextByte) \subseteq Seq(HostByte) /\ Seq(HostTextByte) \subseteq Seq(Byte)
<1>1. HostTextByte \subseteq HostByte /\ HostTextByte \subseteq Byte
  BY DEF HostTextByte, HostByte
<1> QED
  BY <1>1

\* Without a wildcard the whole host is compared.
LEMMA WholeHostMatches ==
  ASSUME NEW host \in HostName, NEW p \in Seq(Digit)
  PROVE  ~AcceptsSubdomain(Joined(host, Ch.dot) \o PortText(p))
<1> DEFINE h == Joined(host, Ch.dot)
           q == PortText(p)
           t == h \o q
<1>1. h \in Seq(HostTextByte) /\ h \in Seq(Byte) /\ h # <<>> /\ q \in Seq(Byte)
  BY HostBytes, HostType, PortType
<1> HIDE DEF h, q
<1>2. 1 \in 1 .. Len(h) /\ Len(h) \in Nat /\ Len(q) \in Nat
  BY <1>1
<1>3. t[1] = h[1]
  <2>1. \A i \in 1 .. Len(h) + Len(q) : t[i] = IF i <= Len(h) THEN h[i] ELSE q[i - Len(h)]
    BY <1>1, ConcatProperties
  <2>2. 1 \in 1 .. Len(h) + Len(q) /\ 1 <= Len(h)
    BY <1>2
  <2> QED
    BY <2>1, <2>2
<1>4. h[1] # Ch.star
  <2>1. h[1] \in HostTextByte
    BY <1>1, <1>2, ElementOfSeq
  <2> QED
    BY <2>1 DEF HostTextByte
<1> HIDE DEF t
<1>5. ~AcceptsSubdomain(t)
  BY <1>3, <1>4 DEF AcceptsSubdomain
<1> QED
  BY <1>5 DEF t, h, q

\* A host with more than one label goes on with a dot after the first.
LEMMA FirstLabelCut ==
  ASSUME NEW host \in HostName, NEW p \in Seq(Digit)
  PROVE  LET t == Joined(host, Ch.dot) \o PortText(p)
         IN  /\ Len(host) = 1 => FirstDot(t) = 0
             /\ Len(host) > 1 =>
                  /\ Tail(host) \in HostName
                  /\ \E n \in Nat \ {0} :
                       /\ FirstDot(t) = n + 1
                       /\ From(t, n) = <<Ch.dot>> \o (Joined(Tail(host), Ch.dot) \o PortText(p))
                       /\ Len(t) = n + Len(From(t, n))
<1> DEFINE t == Joined(host, Ch.dot) \o PortText(p)
           q == PortText(p)
           l == host[1]
           n == Len(l)
           dot == <<Ch.dot>>
           j == Joined(Tail(host), Ch.dot)
<1>1. /\ host \in Seq(Seq(Byte)) /\ host # <<>> /\ Ch.dot \in Byte /\ dot \in Seq(Byte)
      /\ q \in Seq(Byte)
  BY HostType, PortType DEF Ch, Byte
<1>2. l \in Seq(Byte) /\ n \in Nat \ {0} /\ \A i \in 1 .. n : l[i] # Ch.dot
  <2>1. 1 \in 1 .. Len(host)
    BY <1>1
  <2>2. IsPart(l, {Ch.dot}) /\ l \in Seq(Byte)
    BY <1>1, <2>1, HostType, ElementOfSeq
  <2> HIDE DEF l
  <2>3. l # <<>> => Len(l) \in Nat \ {0}
    BY <2>2
  <2> QED
    BY <2>2, <2>3 DEF IsPart
<1>3. ASSUME Len(host) = 1 PROVE FirstDot(t) = 0
  <2>1. t = l \o q
    BY <1>1, <1>3, JoinedType
  <2>2. \A i \in 1 .. Len(q) : q[i] # Ch.dot
    <3> DEFINE P == Byte \ {Ch.dot}
    <3>1. p \in Seq(P) /\ <<Ch.colon>> \in Seq(P) /\ <<>> \in Seq(P)
      BY DEF Digit, Byte, Ch
    <3> HIDE DEF P
    <3>2. q \in Seq(P)
      BY <3>1, ConcatProperties DEF PortText
    <3> HIDE DEF q
    <3>3. \A i \in 1 .. Len(q) : q[i] \in P
      BY <3>2, ElementOfSeq
    <3> QED
      BY <3>3 DEF P
  <2> HIDE DEF q, l, t, n
  <2>3. /\ t \in Seq(Byte) /\ Len(t) = Len(l) + Len(q)
        /\ \A i \in 1 .. Len(l) + Len(q) : t[i] = IF i <= Len(l) THEN l[i] ELSE q[i - Len(l)]
    BY <1>1, <1>2, <2>1, ConcatProperties
  <2>4. \A i \in 1 .. Len(t) : t[i] # Ch.dot
    <3> TAKE i \in 1 .. Len(t)
    <3>1. n \in Nat /\ Len(q) \in Nat /\ n = Len(l)
      BY <1>1, <1>2 DEF n
    <3>2. CASE i <= Len(l)
      BY <1>2, <2>3, <3>1, <3>2
    <3>3. CASE i > Len(l)
      <4>1. i - Len(l) \in 1 .. Len(q)
        BY <2>3, <3>1, <3>3
      <4>2. t[i] = q[i - Len(l)]
        BY <2>3, <3>1, <3>3
      <4> QED
        BY <2>2, <4>1, <4>2
    <3> QED
      BY <2>3, <3>1, <3>2, <3>3
  <2> QED
    BY <2>3, <2>4, NoDot
<1>4. ASSUME Len(host) > 1
      PROVE  /\ Tail(host) \in HostName /\ FirstDot(t) = n + 1
             /\ From(t, n) = dot \o (j \o q) /\ Len(t) = n + Len(From(t, n))
  <2>1. Tail(host) \in HostName
    <3>1. host \in Seq(Label) /\ host # <<>>
      BY DEF HostName
    <3>2. Tail(host) \in Seq(Label)
      BY <3>1, HeadTailProperties
    <3>3. Tail(host) # <<>>
      BY <1>1, <1>4, JoinedFirst
    <3> QED
      BY <3>2, <3>3 DEF HostName
  <2>2. j \in Seq(Byte)
    BY <2>1, HostBytes, HostType
  <2>3. t = (l \o (dot \o j)) \o q
    BY <1>1, <1>4, JoinedFirst
  <2> DEFINE dj == dot \o j
             jq == j \o q
             r == dot \o jq
  <2> HIDE DEF l, q, j, dot, t, n
  <2>4. dj \in Seq(Byte) /\ jq \in Seq(Byte)
    BY <1>1, <2>2, ConcatProperties
  <2>5. \A x, y, z \in Seq(Byte) : (x \o y) \o z = x \o (y \o z)
    BY Associative
  <2>6. t = l \o r
    <3>1. dj \o q = dot \o jq
      BY <1>1, <2>2, <2>5, Zenon
    <3>2. (l \o dj) \o q = l \o (dj \o q)
      <4> HIDE DEF dj
      <4> QED
        BY <1>1, <1>2, <2>4, <2>5, Zenon
    <3> QED
      BY <2>3, <3>1, <3>2
  <2>7. r \in Seq(Byte) /\ Len(r) = 1 + Len(jq) /\ Len(jq) \in Nat /\ r[1] = Ch.dot
    <3> HIDE DEF jq
    <3>0. Len(dot) = 1 /\ dot[1] = Ch.dot
      BY DEF dot
    <3>1. /\ r \in Seq(Byte) /\ Len(r) = Len(dot) + Len(jq) /\ Len(jq) \in Nat
          /\ \A i \in 1 .. Len(dot) + Len(jq) :
               r[i] = IF i <= Len(dot) THEN dot[i] ELSE jq[i - Len(dot)]
      BY <1>1, <2>4, ConcatProperties
    <3>2. 1 \in 1 .. Len(dot) + Len(jq) /\ 1 <= Len(dot)
      BY <3>0, <3>1
    <3> QED
      BY <3>0, <3>1, <3>2
  <2> HIDE DEF r
  <2>8. /\ t \in Seq(Byte) /\ Len(t) = n + Len(r)
        /\ \A i \in 1 .. n + Len(r) : t[i] = IF i <= n THEN l[i] ELSE r[i - n]
    <3>1. l \in Seq(Byte) /\ r \in Seq(Byte)
      BY <1>2, <2>7
    <3>2. /\ l \o r \in Seq(Byte) /\ Len(l \o r) = Len(l) + Len(r)
          /\ \A i \in 1 .. Len(l) + Len(r) :
               (l \o r)[i] = IF i <= Len(l) THEN l[i] ELSE r[i - Len(l)]
      BY <3>1, ConcatProperties
    <3> QED
      BY <2>6, <3>2 DEF n
  <2>9. From(t, n) = r
    BY <1>2, <2>6, <2>7, ConcatCut DEF n
  <2>10. FirstDot(t) = n + 1
    <3>1. n + 1 \in 1 .. Len(t) /\ t[n + 1] = r[(n + 1) - n] /\ (n + 1) - n = 1
      BY <1>2, <2>7, <2>8
    <3>2. \A i \in 1 .. (n + 1) - 1 : t[i] # Ch.dot
      BY <1>2, <2>7, <2>8
    <3>3. t[n + 1] = Ch.dot
      BY <2>7, <3>1
    <3> QED
      BY <2>8, <3>1, <3>2, <3>3, FirstDotIs
  <2> QED
    BY <2>1, <2>8, <2>9, <2>10 DEF r
<1> HIDE DEF t, n
<1>5. Len(host) > 1 =>
        /\ Tail(host) \in HostName
        /\ \E m \in Nat \ {0} : /\ FirstDot(t) = m + 1
                                /\ From(t, m) = dot \o (j \o q)
                                /\ Len(t) = m + Len(From(t, m))
  BY <1>2, <1>4
<1> QED
  BY <1>3, <1>5 DEF t

\* The '*' of a candidate stands for the first label of the origin.
LEMMA SubdomainMatchesTail ==
  ASSUME NEW ho \in HostName, NEW po \in Seq(Digit),
         NEW hc \in HostName, NEW pc \in Seq(Digit)
  PROVE  LET o == Joined(ho, Ch.dot) \o PortText(po)
             c == (<<Ch.star, Ch.dot>> \o Joined(hc, Ch.dot)) \o PortText(pc)
         IN  AcceptsSubdomain(c) /\ (SubdomainMatches(o, c) <=> Tail(ho) = hc /\ po = pc)
<1> DEFINE o == Joined(ho, Ch.dot) \o PortText(po)
           j == Joined(hc, Ch.dot)
           q == PortText(pc)
           c == (<<Ch.star, Ch.dot>> \o j) \o q
           star == <<Ch.star>>
           dot == <<Ch.dot>>
           both == <<Ch.star, Ch.dot>>
           jq == j \o q
           r == dot \o jq
<1>1. /\ j \in Seq(Byte) /\ j # <<>> /\ q \in Seq(Byte) /\ star \in Seq(Byte)
      /\ dot \in Seq(Byte) /\ both \in Seq(Byte) /\ both = star \o dot
  <2>1. Ch.star \in Byte /\ Ch.dot \in Byte
    BY DEF Ch, Byte
  <2>2. j \in Seq(Byte) /\ j # <<>> /\ q \in Seq(Byte)
    BY HostBytes, HostType, PortType
  <2> QED
    BY <2>1, <2>2
<1>2. /\ Len(star) = 1 /\ star[1] = Ch.star /\ Len(dot) = 1 /\ dot[1] = Ch.dot
  OBVIOUS
<1>3. c = (both \o j) \o q
  OBVIOUS
<1>4. \A x, y, z \in Seq(Byte) : (x \o y) \o z = x \o (y \o z)
  BY Associative
<1> HIDE DEF o, j, q, c, star, dot, both
<1>5. jq \in Seq(Byte) /\ Len(jq) \in Nat \ {0} /\ (both \o j) \o q = both \o jq
  <2>1. jq \in Seq(Byte) /\ Len(jq) = Len(j) + Len(q) /\ Len(j) \in Nat \ {0} /\ Len(q) \in Nat
    <3>1. Len(j) \in Nat \ {0} /\ Len(q) \in Nat
      BY <1>1
    <3> QED
      BY <1>1, <3>1, ConcatProperties
  <2>2. (both \o j) \o q = both \o jq
    BY <1>1, <1>4, Zenon
  <2> HIDE DEF jq
  <2> QED
    BY <2>1, <2>2
<1> HIDE DEF jq
<1>6. c = star \o r
  <2>1. (star \o dot) \o jq = star \o r
    BY <1>1, <1>4, <1>5, ZenonT(30)
  <2> QED
    BY <1>1, <1>3, <1>5, <2>1
<1>7. /\ r \in Seq(Byte) /\ Len(r) = 1 + Len(jq) /\ r[1] = Ch.dot
  <2>1. /\ r \in Seq(Byte) /\ Len(r) = Len(dot) + Len(jq)
        /\ \A i \in 1 .. Len(dot) + Len(jq) :
             r[i] = IF i <= Len(dot) THEN dot[i] ELSE jq[i - Len(dot)]
    BY <1>1, <1>5, ConcatProperties
  <2>2. 1 \in 1 .. Len(dot) + Len(jq) /\ 1 <= Len(dot)
    BY <1>2, <1>5
  <2> HIDE DEF r
  <2> QED
    BY <1>2, <2>1, <2>2
<1> HIDE DEF r
<1>8. Len(c) = 1 + Len(r) /\ c[1] = Ch.star /\ c[2] = Ch.dot
  <2>1. /\ Len(c) = Len(star) + Len(r)
        /\ \A i \in 1 .. Len(star) + Len(r) :
             c[i] = IF i <= Len(star) THEN star[i] ELSE r[i - Len(star)]
    <3>1. star \in Seq(Byte) /\ r \in Seq(Byte)
      BY <1>1, <1>7
    <3>2. /\ Len(star \o r) = Len(star) + Len(r)
          /\ \A i \in 1 .. Len(star) + Len(r) :
               (star \o r)[i] = IF i <= Len(star) THEN star[i] ELSE r[i - Len(star)]
      BY <3>1, ConcatProperties
    <3> QED
      BY <1>6, <3>2
  <2>2. /\ 1 \in 1 .. Len(star) + Len(r) /\ 2 \in 1 .. Len(star) + Len(r) /\ 1 <= Len(star)
        /\ ~(2 <= Len(star)) /\ 2 - Len(star) = 1
    BY <1>2, <1>5, <1>7
  <2> QED
    BY <1>2, <1>7, <2>1, <2>2
<1>9. From(c, 1) = r
  BY <1>1, <1>2, <1>6, <1>7, ConcatCut
<1>10. AcceptsSubdomain(c)
  BY <1>5, <1>7, <1>8 DEF AcceptsSubdomain
<1>11. ho # <<>> /\ Len(ho) \in Nat \ {0}
  BY DEF HostName
<1>12. CASE Len(ho) = 1
  <2>1. FirstDot(o) = 0
    BY <1>12, FirstLabelCut DEF o
  <2>2. ~SubdomainMatches(o, c)
    BY <2>1 DEF SubdomainMatches
  <2>3. Tail(ho) # hc
    <3>1. Len(Tail(ho)) = 0
      BY <1>11, <1>12, HeadTailProperties DEF HostName
    <3>2. hc \in Seq(Label) /\ hc # <<>>
      BY DEF HostName
    <3>3. Len(hc) # 0
      BY <3>2
    <3> QED
      BY <3>1, <3>3
  <2> QED
    BY <1>10, <2>2, <2>3 DEF o, c, j, q
<1>13. CASE Len(ho) > 1
  <2> DEFINE jo == Joined(Tail(ho), Ch.dot)
             oq == jo \o PortText(po)
  <2>1. Tail(ho) \in HostName
    BY <1>13, FirstLabelCut
  <2>2. PICK n \in Nat \ {0} : FirstDot(o) = n + 1 /\ From(o, n) = dot \o oq
                               /\ Len(o) = n + Len(From(o, n))
    BY <1>13, FirstLabelCut DEF o, dot
  <2>3. oq \in Seq(Byte) /\ jo \in Seq(HostByte)
    <3>1. jo \in Seq(HostByte) /\ jo \in Seq(Byte) /\ PortText(po) \in Seq(Byte)
      BY <2>1, HostBytes, HostType, PortType
    <3> QED
      BY <3>1, ConcatProperties
  <2>4. j \in Seq(HostByte)
    BY HostBytes, HostType DEF j
  <2>5. oq = jq <=> Tail(ho) = hc /\ po = pc
    <3>1. ASSUME oq = jq PROVE Tail(ho) = hc /\ po = pc
      <4>1. jo = j /\ po = pc
        BY <2>3, <2>4, <3>1, SameHostAndPort DEF jq, q
      <4> QED
        BY <2>1, <4>1, SameHost DEF j
    <3>2. ASSUME Tail(ho) = hc, po = pc PROVE oq = jq
      BY <3>2 DEF jq, j, q
    <3> QED
      BY <3>1, <3>2
  <2> HIDE DEF oq
  <2>6. dot \o oq = r <=> oq = jq
    <3>1. From(dot \o oq, Len(dot)) = oq /\ From(dot \o jq, Len(dot)) = jq
      BY <1>1, <1>5, <2>3, ConcatCut
    <3> QED
      BY <3>1 DEF r
  <2>7. From(o, FirstDot(o) - 1) = From(o, n) /\ FirstDot(o) # 0
    BY <2>2
  <2>8. From(o, n) = r => Len(o) >= Len(c)
    BY <1>5, <1>7, <1>8, <2>2
  <2>9. SubdomainMatches(o, c) <=> From(o, n) = r
    BY <1>9, <2>7, <2>8 DEF SubdomainMatches
  <2> QED
    BY <1>10, <2>2, <2>5, <2>6, <2>9 DEF o, c, j, q
<1>14. Len(ho) = 1 \/ Len(ho) > 1
  <2> DEFINE n == Len(ho)
  <2>1. n \in Nat \ {0}
    BY <1>11
  <2> HIDE DEF n
  <2>2. n = 1 \/ n > 1
    BY <2>1
  <2> QED
    BY <2>2 DEF n
<1> QED
  BY <1>12, <1>13, <1>14, Zenon

-------------------------------------------------------------------------------
\* An origin and a candidate as texts.

LEMMA HttpsTextIs ==
  ASSUME NEW t \in Seq(Byte)
  PROVE  LET u == <<Https>> \o t
         IN  /\ u \in Seq(Symbol) /\ u # <<>> /\ u[1] = Https /\ Tail(u) = t
             /\ (\A i \in 1 .. Len(t) : t[i] # Ch.space)
                  => \A i \in 1 .. Len(u) : u[i] # Ch.space
<1> DEFINE one == <<Https>>
           u == one \o t
<1>1. one \in Seq(Symbol) /\ t \in Seq(Symbol) /\ Len(one) = 1 /\ one[1] = Https
  BY DEF Symbol
<1> HIDE DEF one
<1>2. /\ u \in Seq(Symbol) /\ Len(u) = 1 + Len(t) /\ Len(t) \in Nat
      /\ \A i \in 1 .. 1 + Len(t) : u[i] = IF i <= 1 THEN one[i] ELSE t[i - 1]
  <2>1. /\ u \in Seq(Symbol) /\ Len(u) = Len(one) + Len(t)
        /\ \A i \in 1 .. Len(one) + Len(t) :
             u[i] = IF i <= Len(one) THEN one[i] ELSE t[i - Len(one)]
    BY <1>1, ConcatProperties
  <2> HIDE DEF u
  <2> QED
    BY <1>1, <2>1
<1> HIDE DEF u
<1>3. u # <<>> /\ u[1] = Https
  <2>1. 1 \in 1 .. 1 + Len(t)
    BY <1>2
  <2>2. u = <<>> => Len(u) = 0
    OBVIOUS
  <2> QED
    BY <1>1, <1>2, <2>1, <2>2
<1>4. Tail(u) = t
  <2>1. /\ Tail(u) \in Seq(Symbol) /\ Len(Tail(u)) = Len(t)
        /\ \A i \in 1 .. Len(t) : Tail(u)[i] = u[i + 1]
    BY <1>2, <1>3, HeadTailProperties
  <2>2. \A i \in 1 .. Len(t) : u[i + 1] = t[i]
    BY <1>2
  <2> QED
    BY <1>1, <2>1, <2>2, SeqEqual
<1>5. ASSUME \A i \in 1 .. Len(t) : t[i] # Ch.space
      PROVE  \A i \in 1 .. Len(u) : u[i] # Ch.space
  <2> TAKE i \in 1 .. Len(u)
  <2>1. CASE i = 1
    BY <1>3, <2>1 DEF Https, Ch
  <2>2. CASE i > 1
    <3>1. u[i] = t[i - 1] /\ i - 1 \in 1 .. Len(t)
      BY <1>2, <2>2
    <3> QED
      BY <1>5, <3>1
  <2> QED
    BY <1>2, <2>1, <2>2
<1> QED
  BY <1>2, <1>3, <1>4, <1>5 DEF u, one

\* The text of an origin or of a candidate behind its scheme.
LEMMA HostTextType ==
  ASSUME NEW u \in [host : HostName, port : Seq(Digit), wild : BOOLEAN]
  PROVE  /\ HostText(u) \in Seq(HostByte) /\ HostText(u) # <<>>
         /\ u.wild => HostText(u) = <<Ch.star, Ch.dot>> \o Joined(u.host, Ch.dot)
         /\ ~u.wild => HostText(u) = Joined(u.host, Ch.dot)
         /\ HostText(u) \o PortText(u.port) \in Seq(Byte)
         /\ HostText(u) \o PortText(u.port) # <<>>
         /\ \A i \in 1 .. Len(HostText(u) \o PortText(u.port)) :
              (HostText(u) \o PortText(u.port))[i] # Ch.space
<1> DEFINE j == Joined(u.host, Ch.dot)
           both == <<Ch.star, Ch.dot>>
           none == <<>>
           h == HostText(u)
           q == PortText(u.port)
           L == Byte \ {Ch.space}
<1>1. j \in Seq(HostByte) /\ j # none
  BY HostBytes, HostType
<1>2. both \in Seq(HostByte) /\ none \in Seq(HostByte)
  BY DEF HostByte, Byte, Ch
<1>3. h = (IF u.wild THEN both ELSE none) \o j
  BY DEF HostText
<1>4. h \in Seq(HostByte) /\ h # none /\ (~u.wild => h = j) /\ (u.wild => h = both \o j)
  <2> HIDE DEF j, both, none, h
  <2>1. none \o j = j
    BY <1>1, ConcatEmptySeq DEF none
  <2>2. both \o j \in Seq(HostByte)
    BY <1>1, <1>2, ConcatProperties
  <2>3. both \o j # none
    BY <1>1, <1>2, ConcatEqualIffEmpty DEF none
  <2> QED
    BY <1>1, <1>3, <2>1, <2>2, <2>3
<1>5. h \in Seq(L) /\ q \in Seq(L)
  <2>1. HostByte \subseteq L /\ u.port \in Seq(L) /\ <<Ch.colon>> \in Seq(L) /\ <<>> \in Seq(L)
    BY DEF HostByte, Digit, Byte, Ch
  <2> HIDE DEF L, h
  <2>2. h \in Seq(L)
    BY <1>4, <2>1
  <2>3. q \in Seq(L)
    BY <2>1, ConcatProperties DEF PortText
  <2> QED
    BY <2>2, <2>3
<1> HIDE DEF h, q
<1> DEFINE t == h \o q
<1>6. t \in Seq(L) /\ t # none
  BY <1>4, <1>5, ConcatProperties, ConcatEqualIffEmpty
<1> HIDE DEF t
<1>7. \A i \in 1 .. Len(t) : t[i] # Ch.space
  <2> TAKE i \in 1 .. Len(t)
  <2>1. t[i] \in L
    BY <1>6, ElementOfSeq
  <2> QED
    BY <2>1
<1>8. t \in Seq(Byte)
  BY <1>6
<1> QED
  BY <1>4, <1>6, <1>7, <1>8 DEF t, h, q

\* One candidate accepts an origin by the documented rules.
\* The candidate accepts the origin: its '*' stands for the first label.
Accepts(o, c) ==
  /\ (IF c.wild THEN Tail(o.host) ELSE o.host) = c.host
  /\ \/ c.port \in {<<>>, o.port}
     \/ c.port = <<52, 52, 51>> /\ o.port = <<>>

LEMMA AcceptsIsDocumented ==
  ASSUME NEW o \in [host : HostName, port : Seq(Digit), wild : {FALSE}],
         NEW c \in [host : HostName, port : Seq(Digit), wild : BOOLEAN]
  PROVE  Accepts(o, c) <=> Documented(o, c) /\ OneLabel(o, c)
<1> DEFINE ho == o.host
           hc == c.host
<1>1. /\ ho \in Seq(Label) /\ ho # <<>> /\ hc \in Seq(Label) /\ hc # <<>>
      /\ Len(ho) \in Nat \ {0} /\ Len(hc) \in Nat \ {0}
  BY DEF HostName
<1> HIDE DEF ho, hc
<1>2. \A n \in 1 .. Len(ho) - 1 : Len(From(ho, n)) = Len(ho) - n
  BY <1>1 DEF From
<1>3. Tail(ho) = From(ho, 1)
  BY <1>1, TailIsSubSeq DEF From
<1>4. ASSUME Tail(ho) = hc
      PROVE  Len(ho) = Len(hc) + 1 /\ \E n \in 1 .. Len(ho) - 1 : From(ho, n) = hc
  <2>1. Len(Tail(ho)) = Len(ho) - 1
    BY <1>1
  <2> DEFINE k == Len(ho)
             m == Len(hc)
  <2>2. k \in Nat /\ m \in Nat \ {0} /\ k - 1 = m
    BY <1>1, <1>4, <2>1
  <2>3. k = m + 1 /\ 1 \in 1 .. k - 1
    <3> HIDE DEF k, m
    <3> QED
      BY <2>2
  <2> QED
    BY <1>3, <1>4, <2>3
<1>5. ASSUME NEW n \in 1 .. Len(ho) - 1, From(ho, n) = hc, Len(ho) = Len(hc) + 1
      PROVE  Tail(ho) = hc
  <2>1. n = 1
    BY <1>1, <1>2, <1>5
  <2> QED
    BY <1>3, <1>5, <2>1
<1> QED
  BY <1>4, <1>5 DEF Accepts, Documented, OneLabel, ho, hc

LEMMA MatchesIfAccepts ==
  ASSUME NEW o \in [host : HostName, port : Seq(Digit), wild : {FALSE}],
         NEW c \in [host : HostName, port : Seq(Digit), wild : BOOLEAN]
  PROVE  Matches(HttpsText(o), HttpsText(c)) <=> Accepts(o, c)
<1> DEFINE ho == HostText(o)
           hc == HostText(c)
           to == ho \o PortText(o.port)
           tc == hc \o PortText(c.port)
           po == OriginPort(o.port, c.port)
           pc == CandidatePort(o.port, c.port)
           wo == ho \o PortText(po)
           wc == hc \o PortText(pc)
           uo == HttpsText(o)
           uc == HttpsText(c)
           samePort == \/ c.port \in {<<>>, o.port}
                       \/ c.port = <<52, 52, 51>> /\ o.port = <<>>
           x == o.port
           y == c.port
<1>1. /\ o \in [host : HostName, port : Seq(Digit), wild : BOOLEAN] /\ ~o.wild
      /\ o.host \in HostName /\ c.host \in HostName
      /\ o.port \in Seq(Digit) /\ c.port \in Seq(Digit)
  OBVIOUS
<1>2. /\ ho \in Seq(HostByte) /\ ho = Joined(o.host, Ch.dot) /\ to \in Seq(Byte)
  BY <1>1, HostTextType
<1>3. /\ hc \in Seq(HostByte) /\ tc \in Seq(Byte)
      /\ c.wild => hc = <<Ch.star, Ch.dot>> \o Joined(c.host, Ch.dot)
      /\ ~c.wild => hc = Joined(c.host, Ch.dot)
  BY HostTextType
<1>4. ho # <<>> /\ hc # <<>>
  BY <1>1, HostTextType
<1>5. uo # <<>> /\ uo[1] = Https /\ Tail(uo) = to
  BY <1>2, HttpsTextIs DEF HttpsText
<1>6. uc # <<>> /\ uc[1] = Https /\ Tail(uc) = tc
  BY <1>3, HttpsTextIs DEF HttpsText
<1>7. /\ ComparedOrigin(to, tc) = wo /\ ComparedHost(to, tc) = wc
      /\ po \in Seq(Digit) /\ pc \in Seq(Digit)
  <2>1. x \in Seq(Digit) /\ y \in Seq(Digit) /\ ho \in Seq(HostByte) /\ hc \in Seq(HostByte)
    BY <1>1, <1>2, <1>3
  <2> HIDE DEF ho, hc, x, y, po, pc
  <2>2. /\ ComparedOrigin(HostPort(ho, x), HostPort(hc, y)) = HostPort(ho, OriginPort(x, y))
        /\ ComparedHost(HostPort(ho, x), HostPort(hc, y)) = HostPort(hc, CandidatePort(x, y))
        /\ OriginPort(x, y) \in Seq(Digit) /\ CandidatePort(x, y) \in Seq(Digit)
    BY <2>1, ComparedTexts
  <2> QED
    BY <2>2 DEF x, y, po, pc, HostPort
<1>8. wo # <<>> /\ wc # <<>>
  <2>1. PortText(po) \in Seq(Byte) /\ PortText(pc) \in Seq(Byte) /\ ho \in Seq(Byte)
        /\ hc \in Seq(Byte)
    BY <1>2, <1>3, <1>7, PortType DEF HostByte
  <2> HIDE DEF ho, hc, po, pc
  <2> QED
    BY <1>4, <2>1, ConcatEqualIffEmpty
<1>9. po = pc <=> samePort
  <2> HIDE DEF x, y
  <2>1. OriginPort(x, y) = CandidatePort(x, y)
          <=> \/ y \in {<<>>, x}
              \/ y = <<52, 52, 51>> /\ x = <<>>
    BY DEF OriginPort, CandidatePort
  <2> QED
    BY <2>1 DEF x, y
<1>14. Accepts(o, c) <=> (IF c.wild THEN Tail(o.host) ELSE o.host) = c.host /\ samePort
  BY DEF Accepts
<1> HIDE DEF ho, hc, po, pc, to, tc, uo, uc, samePort
<1>10. Matches(uo, uc) <=> IF AcceptsSubdomain(wc) THEN SubdomainMatches(wo, wc) ELSE wo = wc
  <2> HIDE DEF wo, wc
  <2>1. Matches(uo, uc) <=> host_matches(uo, uc)
    BY <1>5 DEF Matches
  <2> QED
    BY <1>5, <1>6, <1>7, <1>8, <2>1 DEF host_matches
<1>11. CASE c.wild
  <2>1. /\ wo = Joined(o.host, Ch.dot) \o PortText(po)
        /\ wc = (<<Ch.star, Ch.dot>> \o Joined(c.host, Ch.dot)) \o PortText(pc)
    BY <1>2, <1>3, <1>11
  <2> HIDE DEF wo, wc
  <2>2. AcceptsSubdomain(wc) /\ (SubdomainMatches(wo, wc) <=> Tail(o.host) = c.host /\ po = pc)
    <3> DEFINE go == o.host
               gc == c.host
    <3>1. go \in HostName /\ gc \in HostName /\ po \in Seq(Digit) /\ pc \in Seq(Digit)
      BY <1>1, <1>7
    <3> HIDE DEF go, gc
    <3>2. /\ wo = Joined(go, Ch.dot) \o PortText(po)
          /\ wc = (<<Ch.star, Ch.dot>> \o Joined(gc, Ch.dot)) \o PortText(pc)
      BY <2>1 DEF go, gc
    <3>3. AcceptsSubdomain(wc) /\ (SubdomainMatches(wo, wc) <=> Tail(go) = gc /\ po = pc)
      BY <3>1, <3>2, SubdomainMatchesTail
    <3> QED
      BY <3>3 DEF go, gc
  <2> QED
    BY <1>9, <1>10, <1>11, <1>14, <2>2 DEF uo, uc
<1>12. CASE ~c.wild
  <2>1. ~AcceptsSubdomain(wc)
    BY <1>1, <1>3, <1>7, <1>12, WholeHostMatches
  <2>2. wo = wc <=> o.host = c.host /\ po = pc
    <3>1. ASSUME wo = wc PROVE o.host = c.host /\ po = pc
      <4>1. ho = hc /\ po = pc
        BY <1>2, <1>3, <1>7, <3>1, SameHostAndPort
      <4>2. Joined(o.host, Ch.dot) = Joined(c.host, Ch.dot)
        BY <1>2, <1>3, <1>12, <4>1
      <4> QED
        BY <1>1, <4>1, <4>2, SameHost
    <3>2. ASSUME o.host = c.host, po = pc PROVE wo = wc
      BY <1>2, <1>3, <1>12, <3>2
    <3> QED
      BY <3>1, <3>2
  <2> HIDE DEF wo, wc
  <2> QED
    BY <1>9, <1>10, <1>12, <1>14, <2>1, <2>2 DEF uo, uc
<1> QED
  BY <1>11, <1>12

\* The list accepts what one of its candidates does.
LEMMA ListAccepts ==
  ASSUME NEW o \in [host : HostName, port : Seq(Digit), wild : {FALSE}],
         NEW list \in Seq([host : HostName, port : Seq(Digit), wild : BOOLEAN])
  PROVE  LET texts == [i \in DOMAIN list |-> HttpsText(list[i])]
         IN  is_uri_in_list(HttpsText(o), Joined(texts, Ch.space))
               <=> \E i \in DOMAIN list : Accepts(o, list[i])
<1> DEFINE n == Len(list)
           texts == [i \in DOMAIN list |-> HttpsText(list[i])]
           all == Joined(texts, Ch.space)
           u == HttpsText(o)
           U == [host : HostName, port : Seq(Digit), wild : BOOLEAN]
<1>1. n \in Nat /\ DOMAIN list = 1 .. n
  OBVIOUS
<1>2. \A i \in 1 .. n : list[i] \in U
  BY ElementOfSeq
<1>3. \A i \in 1 .. n : /\ HttpsText(list[i]) \in Seq(Symbol)
                        /\ \A k \in 1 .. Len(HttpsText(list[i])) :
                             HttpsText(list[i])[k] # Ch.space
  <2> TAKE i \in 1 .. n
  <2> DEFINE t == HostText(list[i]) \o PortText(list[i].port)
  <2>1. t \in Seq(Byte) /\ \A k \in 1 .. Len(t) : t[k] # Ch.space
    BY <1>2, HostTextType
  <2>2. HttpsText(list[i]) = <<Https>> \o t
    BY DEF HttpsText
  <2> HIDE DEF t
  <2> QED
    BY <2>1, <2>2, HttpsTextIs
<1>4. /\ texts \in Seq(Seq(Symbol)) /\ Len(texts) = n
      /\ \A i \in 1 .. n : texts[i] = HttpsText(list[i])
  BY <1>1, <1>3
<1>5. DOMAIN texts = 1 .. n
  BY <1>1
<1> HIDE DEF n, texts
<1>6. is_uri_in_list(u, all) <=> \E i \in DOMAIN Candidates(all) : Matches(u, Candidates(all)[i])
  BY DEF is_uri_in_list
<1>7. \A i \in 1 .. n : Matches(u, texts[i]) <=> Accepts(o, list[i])
  <2> TAKE i \in 1 .. n
  <2>1. list[i] \in U
    BY <1>2
  <2> HIDE DEF u
  <2> QED
    BY <1>4, <2>1, MatchesIfAccepts DEF u
<1>8. CASE n = 0
  <2>1. texts = <<>>
    BY <1>4, <1>8
  <2>2. all = <<>>
    <3>1. Ch.space \in Symbol
      BY DEF Symbol, Byte, Ch
    <3> QED
      BY <1>4, <2>1, <3>1, JoinedType
  <2>3. Candidates(all) = << <<>> >>
    BY <2>2, CandidatesOfNothing
  <2>4. ~Matches(u, <<>>)
    <3> DEFINE t == HostText(o) \o PortText(o.port)
    <3>1. t \in Seq(Byte)
      BY HostTextType
    <3> HIDE DEF t
    <3>2. u # <<>> /\ u[1] = Https
      BY <3>1, HttpsTextIs DEF HttpsText, t
    <3> HIDE DEF u
    <3> QED
      BY <3>2 DEF Matches, host_matches
  <2> HIDE DEF u, all
  <2>5. ~is_uri_in_list(u, all)
    BY <1>6, <2>3, <2>4
  <2>6. ~\E i \in DOMAIN list : Accepts(o, list[i])
    BY <1>1, <1>8
  <2> QED
    BY <2>5, <2>6 DEF u, all, texts
<1>9. CASE n # 0
  <2>1. texts # <<>>
    <3>1. texts = <<>> => Len(texts) = 0
      OBVIOUS
    <3> QED
      BY <1>4, <1>9, <3>1
  <2>2. Candidates(all) = texts
    BY <1>3, <1>4, <2>1, CandidatesOfJoined
  <2> HIDE DEF u, all
  <2>3. is_uri_in_list(u, all) <=> \E i \in DOMAIN list : Accepts(o, list[i])
    BY <1>1, <1>5, <1>6, <1>7, <2>2
  <2> QED
    BY <2>3 DEF u, all, texts
<1> QED
  BY <1>8, <1>9

-------------------------------------------------------------------------------
\* The promises of ServerText.

LEMMA SampleKept == TextSpec => []SampleInit
<1>1. SampleInit /\ [UNCHANGED sample]_sample => SampleInit'
  BY DEF SampleInit
<1> QED
  BY <1>1, PTL DEF TextSpec

\* A sample of one kind is what that kind of sample is made of.
LEMMA SampleType ==
  ASSUME SampleInit
  PROVE  /\ sample.fn = "text" => sample.text \in Seq(Byte)
         /\ sample.fn = "text" => \A i \in 1 .. Len(sample.text) : sample.text[i] # 0
         /\ sample.fn = "name" => sample.name \in Seq(NameByte) /\ Len(sample.name) \in 1 .. MaxName
         /\ sample.fn = "uri" => sample.uri \in Seq(Byte)
<1>1. TextByte \subseteq Byte /\ 0 \notin TextByte
  BY DEF TextByte
<1>2. Seq(TextByte) \subseteq Seq(Byte)
  BY <1>1, SeqMonotonic
<1>3. ASSUME sample.fn = "text"
      PROVE  sample.text \in Seq(Byte) /\ \A i \in 1 .. Len(sample.text) : sample.text[i] # 0
  <2>1. sample.text \in Texts
    BY <1>3 DEF SampleInit
  <2>2. sample.text \in Seq(TextByte)
    BY <2>1, TextAssumption
  <2>3. \A i \in 1 .. Len(sample.text) : sample.text[i] \in TextByte
    BY <2>2, ElementOfSeq
  <2> QED
    BY <1>1, <1>2, <2>2, <2>3
<1>4. sample.fn = "name" => sample.name \in Seq(NameByte) /\ Len(sample.name) \in 1 .. MaxName
  BY TextAssumption DEF SampleInit
<1>5. ASSUME sample.fn = "uri" PROVE sample.uri \in Seq(Byte)
  <2>1. sample.uri \in Uris
    BY <1>5 DEF SampleInit
  <2> QED
    BY <1>2, <2>1, TextAssumption
<1> QED
  BY <1>3, <1>4, <1>5

LEMMA UrlRoundTripOf ==
  ASSUME NEW t \in Seq(Byte), \A i \in 1 .. Len(t) : t[i] # 0
  PROVE  urldecode(url_encode(t), 3 * Len(t)) = t
<1>1. url_encode(t) \in Seq(Byte)
  BY UrlEncodedIsCode
<1>2. PICK pos : IsCoded(url_encode(t), t, pos)
  BY UrlEncodedIsCode
<1>3. 3 * Len(t) \in Nat /\ Len(t) <= 3 * Len(t)
  <2>1. Len(t) \in Nat
    OBVIOUS
  <2> QED
    BY <2>1
<1> QED
  BY <1>1, <1>2, <1>3, DecodeOfCode

\* Every text that url_encode makes an URL of is what urldecode makes of that
\* URL, in the room that launching Netflix gives it (nf_callbacks.c, url_lib.c).
THEOREM UrlRoundTripHolds == TextSpec => []UrlRoundTrip
<1>1. SampleInit => UrlRoundTrip
  BY SampleType, UrlRoundTripOf DEF UrlRoundTrip
<1> QED
  BY <1>1, SampleKept, PTL

LEMMA EncodedFitsIn ==
  ASSUME NEW t \in Seq(Byte)
  PROVE  Len(url_decode_xml_encode(t)) <= 2 * Len(t)
<1>1. Len(t) \in Nat /\ 2 * Len(t) \in Nat
  OBVIOUS
<1>2. urldecode(t, Len(t)) \in Seq(Byte)
  BY <1>1, DecodedType
<1> QED
  BY <1>1, <1>2, XmlEncodeFits DEF url_decode_xml_encode

\* What handle_app_status writes for a stored text of n bytes, of whatever
\* bytes, is at most the 2n bytes that it allocates (dial_server.c).
THEOREM EncodedFitsHolds == TextSpec => []EncodedFits
<1>1. SampleInit => EncodedFits
  BY SampleType, EncodedFitsIn DEF EncodedFits
<1> QED
  BY <1>1, SampleKept, PTL

\* No path that reaches request_handler leads to a parent directory: no slash of
\* a cleaned path is followed by two dots, whatever the path was (mongoose.c,
\* remove_double_dots_and_double_slashes).
THEOREM NoParentDirectoryHolds == TextSpec => []NoParentDirectory
<1>1. ASSUME SampleInit PROVE NoParentDirectory
  <2> SUFFICES ASSUME sample.fn = "uri"
               PROVE  NoParent(remove_double_dots_and_double_slashes(sample.uri))
    BY DEF NoParentDirectory, NoParent
  <2>1. sample.uri \in Seq(Byte)
    BY <1>1, SampleType
  <2> QED
    BY <2>1, NoParentLeft
<1> QED
  BY <1>1, SampleKept, PTL

\* The URIs of an application lead to the five handlers and to its name, however
\* long the name is (up to the 255 bytes that are cut out of a URI) and whatever
\* bytes it is of: only one that begins with two dots is cut (dial_server.c,
\* request_handler).
THEOREM PathsReachTheirAppHolds == TextSpec => []PathsReachTheirApp
<1>1. ASSUME SampleInit PROVE PathsReachTheirApp
  <2> SUFFICES ASSUME sample.fn = "name", ~IsPrefix(<<Ch.dot, Ch.dot>>, sample.name)
               PROVE  /\ request_handler("POST", APPS_URI \o sample.name)
                           = [op |-> "start", app |-> sample.name]
                      /\ request_handler("GET", APPS_URI \o sample.name)
                           = [op |-> "status", app |-> sample.name]
                      /\ request_handler("DELETE", APPS_URI \o sample.name \o RUN_URI)
                           = [op |-> "stop", app |-> sample.name]
                      /\ request_handler("POST", APPS_URI \o sample.name \o RUN_URI \o HIDE_URI)
                           = [op |-> "hide", app |-> sample.name]
                      /\ request_handler("POST", APPS_URI \o sample.name \o DIAL_DATA_URI)
                           = [op |-> "data", app |-> sample.name]
    BY Zenon DEF PathsReachTheirApp
  <2>1. sample.name \in Seq(NameByte) /\ Len(sample.name) \in 1 .. MaxName
    BY <1>1, SampleType
  <2>2. IsName(sample.name)
    BY <2>1, NameUnlessDots
  <2> QED
    BY <2>2, HandlersOfName
<1> QED
  BY <1>1, SampleKept, PTL

\* The data that is posted to an application is kept under the name that the
\* client escaped into the URI (mongoose.c's url_decode and cleaning of the
\* path, url_lib.c's parse_app_name), whatever the bytes of the name are.
THEOREM DataForNamedAppHolds == TextSpec => []DataForNamedApp
<1>1. ASSUME SampleInit PROVE DataForNamedApp
  <2> SUFFICES ASSUME sample.fn = "name", ~IsPrefix(<<Ch.dot, Ch.dot>>, sample.name)
               PROVE  parse_app_name(remove_double_dots_and_double_slashes(url_decode(
                        APPS_URI \o url_encode(sample.name) \o DIAL_DATA_URI))) = sample.name
    BY Zenon DEF DataForNamedApp
  <2> DEFINE name == sample.name
             path == APPS_URI \o name \o DIAL_DATA_URI
  <2>1. name \in Seq(NameByte) /\ Len(name) \in 1 .. MaxName
    BY <1>1, SampleType
  <2>2. IsName(name)
    BY <2>1, NameUnlessDots
  <2> HIDE DEF name
  <2>3. url_decode(APPS_URI \o url_encode(name) \o DIAL_DATA_URI) = path
    BY <2>2, DecodedPath
  <2>4. DIAL_DATA_URI \in Seq(Byte) /\ DIAL_DATA_URI[1] = 47
    BY UriTypes, DataUriBytes
  <2>5. PathIs(path, name, DIAL_DATA_URI)
    BY <2>2, <2>4, NameType, PathOf
  <2> HIDE DEF path
  <2>6. path \in Seq(Byte) /\ IsClean(path)
    BY <2>2, <2>5, DataTail, PathIsClean
  <2>7. remove_double_dots_and_double_slashes(path) = path
    BY <2>6, CleanKept
  <2>8. parse_app_name(path) = name
    BY <2>2, <2>4, <2>5, DataTail, AppNameOfPath
  <2> QED
    BY <2>3, <2>7, <2>8 DEF name
<1> QED
  BY <1>1, SampleKept, PTL

\* For the status of an application, the whole of a text that a client has posted
\* escaped is escaped again for XML, in twice the room of the stored text
\* (url_lib.c, url_decode_xml_encode): unless the text is of nothing but quotes
\* and apostrophes.  What handle_app_status and mg_printf cut off it afterwards
\* is not modelled.
THEOREM EscapesWholeHolds == TextSpec => []EscapesWhole
<1>1. ASSUME SampleInit PROVE EscapesWhole
  <2> SUFFICES ASSUME sample.fn = "text",
                      NEW i \in DOMAIN sample.text, sample.text[i] \notin {Ch.quot, Ch.apos}
               PROVE  url_decode_xml_encode(url_encode(sample.text))
                        = FlattenSeq([k \in DOMAIN sample.text |-> XmlEscape(sample.text[k])])
    BY DEF EscapesWhole
  <2> DEFINE t == sample.text
  <2>1. t \in Seq(Byte) /\ \A k \in 1 .. Len(t) : t[k] # 0
    BY <1>1, SampleType
  <2>2. i \in DOMAIN t /\ t[i] \notin {Ch.quot, Ch.apos}
    OBVIOUS
  <2> HIDE DEF t
  <2>3. i \in 1 .. Len(t)
    BY <2>1, <2>2
  <2>4. url_decode_xml_encode(url_encode(t)) = FlattenSeq([k \in DOMAIN t |-> XmlEscape(t[k])])
    BY <2>1, <2>2, <2>3, ShowsWhole
  <2> QED
    BY <2>4 DEF t
<1> QED
  BY <1>1, SampleKept, PTL

\* The value of a parameter of the query is found, whatever the query is, unless
\* an earlier field has the name in it (parse_param of url_lib.c).
THEOREM ParamByNameHolds == TextSpec => []ParamByName
<1>1. SampleInit => ParamByName
  <2> SUFFICES ASSUME SampleInit, sample.fn = "query" PROVE ParamByName
    BY DEF ParamByName
  <2> DEFINE query == sample.query
             name == sample.param
             F == Fields(query, {Ch.amp})
             I == {i \in 1 .. Len(F) : FirstAt(name, F[i]) # 0}
             first == SelectInSeq(F, LAMBDA f : FirstAt(name, f) # 0)
  <2>1. query \in Seq(Byte) /\ name \in Seq(Byte \ {Ch.eq, Ch.amp}) \ {<<>>}
    <3>1. sample.query \in Queries /\ sample.param \in ParamNames
      BY DEF SampleInit
    <3>2. /\ sample.query \in Seq(TextByte)
          /\ sample.param \in Seq(TextByte \ {Ch.eq, Ch.amp}) \ {<<>>}
      BY <3>1, TextAssumption
    <3>3. TextByte \subseteq Byte /\ TextByte \ {Ch.eq, Ch.amp} \subseteq Byte \ {Ch.eq, Ch.amp}
      BY DEF TextByte
    <3>4. /\ Seq(TextByte) \subseteq Seq(Byte)
          /\ Seq(TextByte \ {Ch.eq, Ch.amp}) \subseteq Seq(Byte \ {Ch.eq, Ch.amp})
      BY <3>3, SeqMonotonic
    <3> QED
      BY <3>2, <3>4
  <2> HIDE DEF query, name
  <2>2. name \in Seq(Byte) /\ IsPart(name, {Ch.eq, Ch.amp})
    <3>1. name \in Seq(Byte)
      BY <2>1, SeqMonotonic
    <3> QED
      BY <2>1, <3>1 DEF IsPart
  <2>3. F \in Seq(Seq(Byte))
    BY <2>1, FieldsType
  <2>4. first = IF I # {} THEN Min(I) ELSE 0
    BY DEF SelectInSeq
  <2>5. I \subseteq 1 .. Len(F) /\ I \subseteq Nat
    BY <2>3
  <2> HIDE DEF F, first
  <2>6. ASSUME first # 0, IsPrefix(Append(name, Ch.eq), F[first])
        PROVE  parse_param(query, name) = From(F[first], Len(name) + 1)
    <3>1. I # {}
      BY <2>4, <2>6
    <3>2. Min(I) \in I /\ \A y \in I : Min(I) <= y
      BY <2>5, <3>1, MinProperties
    <3>3. first \in I /\ \A y \in I : first <= y
      BY <2>4, <3>1, <3>2
    <3>4. first \in 1 .. Len(F) /\ \A j \in 1 .. Len(F) : FirstAt(name, F[j]) # 0 => first <= j
      BY <3>3
    <3>5. F = Fields(query, {Ch.amp})
      BY DEF F
    <3> QED
      BY <2>1, <2>2, <2>6, <3>4, <3>5, ParamIs
  <2> QED
    BY <2>6 DEF ParamByName, F, first, query, name
<1> QED
  BY <1>1, SampleKept, PTL

\* An origin is accepted exactly if some candidate of the application's list
\* accepts it, for hosts of any number of labels, any ports and a list of any
\* length (is_origin_allowed and the functions it calls in dial_server.c): by the
\* rules that the comments of host_matches state, but a wildcard is one label.
THEOREM OriginMatchingHolds == TextSpec => []OriginMatching
<1>1. SampleInit => OriginMatching
  <2> SUFFICES ASSUME SampleInit, sample.fn = "cors" PROVE OriginMatching
    BY DEF OriginMatching
  <2> DEFINE origin == sample.origin
             list == sample.list
  <2>1. origin \in Origins /\ list \in CandidateLists
    BY DEF SampleInit
  <2>2. /\ origin \in [host : HostName, port : Seq(Digit), wild : {FALSE}]
        /\ list \in Seq([host : HostName, port : Seq(Digit), wild : BOOLEAN])
    BY <2>1, TextAssumption
  <2> DEFINE texts == [i \in DOMAIN list |-> HttpsText(list[i])]
  <2> HIDE DEF origin, list
  <2>3. is_uri_in_list(HttpsText(origin), Joined(texts, Ch.space))
          <=> \E i \in DOMAIN list : Accepts(origin, list[i])
    BY <2>2, ListAccepts
  <2>4. \A i \in DOMAIN list :
          Accepts(origin, list[i]) <=> Documented(origin, list[i]) /\ OneLabel(origin, list[i])
    <3>1. \A i \in DOMAIN list : list[i] \in [host : HostName, port : Seq(Digit), wild : BOOLEAN]
      <4>1. DOMAIN list = 1 .. Len(list)
        BY <2>2
      <4> QED
        BY <2>2, <4>1, ElementOfSeq
    <3> QED
      BY <2>2, <3>1, AcceptsIsDocumented
  <2> QED
    BY <2>3, <2>4 DEF OriginMatching, OriginAccepted, origin, list
<1> QED
  BY <1>1, SampleKept, PTL
===============================================================================
