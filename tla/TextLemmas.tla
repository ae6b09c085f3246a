------------------------------ MODULE TextLemmas ------------------------------
(***************************************************************************)
(* Lemmas about the functions on texts of UrlLib and DialRoutes, for texts *)
(* of any length.  Induction is over the elements of a set, so that it can *)
(* be cited by name: what is to be proved of n is made the set of those n. *)
(***************************************************************************)
EXTENDS DialRoutes, SequenceTheorems, WellFoundedInduction, TLAPS

-------------------------------------------------------------------------------
\* Numbers.

LEMMA MinProperties ==
  ASSUME NEW S, S \subseteq Nat, S # {}
  PROVE  Min(S) \in S /\ \A y \in S : Min(S) <= y
<1> DEFINE R == OpToRel(<, Nat)
<1>1. IsWellFoundedOn(R, Nat)
  BY NatLessThanWellFounded
<1>2. \A m, n \in Nat : m < n => <<m, n>> \in R
  BY Zenon DEF OpToRel
<1> HIDE DEF R
<1>3. PICK x \in S : \A y \in S : ~ (<<y, x>> \in R)
  BY <1>1, WFMin
<1>4. ASSUME NEW y \in S PROVE x <= y
  <2>1. x \in Nat /\ y \in Nat /\ ~ (y < x)
    BY <1>2, <1>3
  <2> QED
    BY <2>1
<1> QED
  BY <1>4 DEF Min

LEMMA MaxProperties ==
  ASSUME NEW S, NEW n \in Nat, S \subseteq 0 .. n, S # {}
  PROVE  Max(S) \in S /\ \A y \in S : y <= Max(S)
<1> DEFINE T == {n - y : y \in S}
<1>1. T \subseteq Nat /\ T # {}
  <2>1. \A y \in S : n - y \in Nat
    OBVIOUS
  <2> QED
    BY <2>1
<1>2. Min(T) \in T /\ \A y \in T : Min(T) <= y
  BY <1>1, MinProperties
<1>3. PICK x \in S : Min(T) = n - x
  BY <1>2
<1>4. \A y \in S : n - x <= n - y
  BY <1>2, <1>3
<1>5. \A y \in S : x >= y
  BY <1>4
<1> QED
  BY <1>5 DEF Max

\* A set that has 0 and the successor of each of its numbers has them all.
LEMMA SetInduction ==
  ASSUME NEW S, 0 \in S, \A n \in Nat : n \in S => n + 1 \in S
  PROVE  Nat \subseteq S
<1> SUFFICES ASSUME Nat \ S # {} PROVE FALSE
  OBVIOUS
<1> DEFINE m == Min(Nat \ S)
<1>1. m \in Nat \ S /\ \A y \in Nat \ S : m <= y
  BY MinProperties
<1>2. m # 0 /\ m - 1 \in Nat /\ m - 1 \notin Nat \ S
  BY <1>1
<1> QED
  BY <1>1, <1>2

-------------------------------------------------------------------------------
\* Recursive functions.

\* The function f on 0 .. n has the value a at 0, and at i what G makes of i and
\* of the value at i - 1.
Recurs(f, n, A, a, G) ==
  f \in [0 .. n -> A] /\ f[0] = a /\ \A i \in 1 .. n : f[i] = G[i][f[i - 1]]

LEMMA RecursionExists ==
  ASSUME NEW n, n \in Nat, NEW A, NEW a, a \in A, NEW G, G \in [1 .. n -> [A -> A]]
  PROVE  \E f : Recurs(f, n, A, a, G)
<1> DEFINE Good(m) == \E f \in [0 .. m -> A] :
                        f[0] = a /\ \A i \in 1 .. m : f[i] = G[i][f[i - 1]]
           S == {m \in Nat : m <= n => Good(m)}
<1>1. 0 \in S
  <2> DEFINE f == [i \in 0 .. 0 |-> a]
  <2>1. f \in [0 .. 0 -> A] /\ f[0] = a /\ 1 .. 0 = {}
    OBVIOUS
  <2> HIDE DEF f
  <2>2. Good(0)
    BY <2>1
  <2> QED
    BY <2>2
<1>2. ASSUME NEW m \in Nat, m \in S PROVE m + 1 \in S
  <2> SUFFICES ASSUME m + 1 <= n PROVE Good(m + 1)
    OBVIOUS
  <2>1. PICK f \in [0 .. m -> A] : f[0] = a /\ \A i \in 1 .. m : f[i] = G[i][f[i - 1]]
    BY <1>2
  <2> DEFINE g == [i \in 0 .. m + 1 |-> IF i = m + 1 THEN G[m + 1][f[m]] ELSE f[i]]
  <2>2. G[m + 1][f[m]] \in A
    OBVIOUS
  <2>3. g \in [0 .. m + 1 -> A] /\ g[0] = a
    BY <2>1, <2>2
  <2>4. ASSUME NEW i \in 1 .. m + 1 PROVE g[i] = G[i][g[i - 1]]
    <3>1. CASE i = m + 1
      BY <3>1
    <3>2. CASE i # m + 1
      <4>1. i \in 1 .. m /\ i - 1 \in 0 .. m
        BY <3>2
      <4>2. g[i] = f[i] /\ g[i - 1] = f[i - 1]
        BY <3>2, <4>1
      <4> QED
        BY <2>1, <4>1, <4>2
    <3> QED
      BY <3>1, <3>2
  <2> QED
    BY <2>3, <2>4
<1>3. n \in S
  <2> HIDE DEF S
  <2> QED
    BY <1>1, <1>2, SetInduction
<1> QED
  BY <1>3 DEF Recurs

\* Functions that begin with the same value, and go on alike from one, are equal.
LEMMA Agree ==
  ASSUME NEW n \in Nat, NEW f, NEW g, f[0] = g[0],
         \A k \in 0 .. n - 1 : f[k] = g[k] => f[k + 1] = g[k + 1]
  PROVE  \A k \in 0 .. n : f[k] = g[k]
<1> DEFINE S == {k \in Nat : k <= n => f[k] = g[k]}
<1>1. 0 \in S
  OBVIOUS
<1>2. ASSUME NEW k \in Nat, k \in S PROVE k + 1 \in S
  BY <1>2
<1> HIDE DEF S
<1>3. Nat \subseteq S
  BY <1>1, <1>2, SetInduction
<1> QED
  BY <1>3 DEF S

-------------------------------------------------------------------------------
\* The parts of a text.

\* The parts of the first n bytes, made of those of the first n - 1.
NextFields(before, text, n, cuts) ==
  IF text[n] \in cuts THEN before
  ELSE IF n = 1 \/ text[n - 1] \in cuts THEN Append(before, <<text[n]>>)
  ELSE [before EXCEPT ![Len(before)] = Append(@, text[n])]

LEMMA NextFieldsType ==
  ASSUME NEW text \in Seq(Byte), NEW n \in 1 .. Len(text), NEW cuts,
         NEW before \in Seq(Seq(Byte))
  PROVE  NextFields(before, text, n, cuts) \in Seq(Seq(Byte))
<1>1. text[n] \in Byte /\ <<text[n]>> \in Seq(Byte)
  OBVIOUS
<1>2. Append(before, <<text[n]>>) \in Seq(Seq(Byte))
  BY <1>1, AppendProperties
<1>3. [before EXCEPT ![Len(before)] = Append(@, text[n])] \in Seq(Seq(Byte))
  <2> DEFINE e == Append(before[Len(before)], text[n])
  <2>1. CASE before = <<>>
    <3>1. [before EXCEPT ![0] = e] = [i \in 1 .. 0 |-> before[i]]
      BY <2>1
    <3>2. [i \in 1 .. 0 |-> before[i]] \in Seq(Seq(Byte))
      OBVIOUS
    <3> QED
      BY <2>1, <3>1, <3>2
  <2>2. CASE before # <<>>
    <3>1. Len(before) \in 1 .. Len(before) /\ before[Len(before)] \in Seq(Byte)
      BY <2>2
    <3>2. e \in Seq(Byte)
      BY <1>1, <3>1, AppendProperties
    <3> HIDE DEF e
    <3>3. [before EXCEPT ![Len(before)] = e] \in Seq(Seq(Byte))
      BY <3>1, <3>2, ExceptSeq
    <3> QED
      BY <3>3 DEF e
  <2> QED
    BY <2>1, <2>2
<1> QED
  BY <1>2, <1>3 DEF NextFields

LEMMA FieldsRecursion ==
  ASSUME NEW text \in Seq(Byte), NEW cuts
  PROVE  \E f \in [0 .. Len(text) -> Seq(Seq(Byte))] :
           /\ f[0] = <<>>
           /\ \A i \in 1 .. Len(text) : f[i] = NextFields(f[i - 1], text, i, cuts)
           /\ Fields(text, cuts) = f[Len(text)]
<1> DEFINE n == Len(text)
           A == Seq(Seq(Byte))
           G == [i \in 1 .. n |-> [b \in A |-> NextFields(b, text, i, cuts)]]
           fs == CHOOSE f : f = [i \in 0 .. n |-> IF i = 0 THEN <<>>
                                                  ELSE NextFields(f[i - 1], text, i, cuts)]
<1>1. n \in Nat /\ <<>> \in A
  OBVIOUS
<1>2. G \in [1 .. n -> [A -> A]]
  BY NextFieldsType
<1> DEFINE none == <<>>
<1>3. PICK f \in [0 .. n -> A] : f[0] = none /\ \A i \in 1 .. n : f[i] = G[i][f[i - 1]]
  <2>1. none \in A
    BY <1>1
  <2> HIDE DEF n, A, G, none
  <2>2. \E f : Recurs(f, n, A, none, G)
    BY <1>1, <1>2, <2>1, RecursionExists
  <2> QED
    BY <2>2 DEF Recurs
<1>4. \A i \in 1 .. n : f[i] = NextFields(f[i - 1], text, i, cuts)
  <2> TAKE i \in 1 .. n
  <2>1. f[i - 1] \in A
    BY <1>1, <1>3, SMTT(30)
  <2> QED
    BY <1>3, <2>1
<1> HIDE DEF A
<1>5. f = [i \in 0 .. n |-> IF i = 0 THEN <<>> ELSE NextFields(f[i - 1], text, i, cuts)]
  BY <1>1, <1>3, <1>4
<1>6. fs = [i \in 0 .. n |-> IF i = 0 THEN <<>> ELSE NextFields(fs[i - 1], text, i, cuts)]
  BY <1>5
<1>7. Fields(text, cuts) = fs[n]
  BY DEF Fields, NextFields
<1> HIDE DEF fs, n
<1>8. /\ fs[0] = <<>>
      /\ \A i \in 1 .. n : fs[i] = NextFields(fs[i - 1], text, i, cuts)
  BY <1>1, <1>6
<1>9. \A m \in 0 .. n : fs[m] = f[m]
  <2>1. fs[0] = f[0]
    BY <1>3, <1>8 DEF none
  <2>2. \A k \in 0 .. n - 1 : fs[k] = f[k] => fs[k + 1] = f[k + 1]
    <3> TAKE k \in 0 .. n - 1
    <3>1. k + 1 \in 1 .. n /\ (k + 1) - 1 = k
      BY <1>1
    <3> QED
      BY <1>4, <1>8, <3>1
  <2> QED
    BY <1>1, <2>1, <2>2, Agree
<1>10. Fields(text, cuts) = f[n]
  BY <1>1, <1>7, <1>9
<1> QED
  BY <1>3, <1>4, <1>10 DEF A, n

LEMMA FieldsType ==
  ASSUME NEW text \in Seq(Byte), NEW cuts
  PROVE  Fields(text, cuts) \in Seq(Seq(Byte))
<1>1. Len(text) \in 0 .. Len(text)
  OBVIOUS
<1> QED
  BY <1>1, FieldsRecursion

LEMMA FieldsOfNothing ==
  ASSUME NEW cuts
  PROVE  Fields(<<>>, cuts) = <<>>
<1>1. <<>> \in Seq(Byte) /\ Len(<<>>) = 0
  OBVIOUS
<1> QED
  BY <1>1, FieldsRecursion, ZenonT(30)

LEMMA FieldsOfAppend ==
  ASSUME NEW text \in Seq(Byte), NEW c \in Byte, NEW cuts
  PROVE  Fields(Append(text, c), cuts)
           = NextFields(Fields(text, cuts), Append(text, c), Len(text) + 1, cuts)
<1> DEFINE n == Len(text)
           more == Append(text, c)
<1>1. /\ more \in Seq(Byte) /\ Len(more) = n + 1 /\ n \in Nat
      /\ \A i \in 1 .. n : more[i] = text[i]
  BY AppendProperties
<1> HIDE DEF more, n
<1>2. PICK f : /\ f[0] = <<>>
               /\ \A i \in 1 .. n : f[i] = NextFields(f[i - 1], text, i, cuts)
               /\ Fields(text, cuts) = f[n]
  BY FieldsRecursion DEF n
<1>3. PICK g : /\ g[0] = <<>>
               /\ \A i \in 1 .. n + 1 : g[i] = NextFields(g[i - 1], more, i, cuts)
               /\ Fields(more, cuts) = g[n + 1]
  BY <1>1, FieldsRecursion
<1>4. \A k \in 0 .. n - 1 : f[k] = g[k] => f[k + 1] = g[k + 1]
  <2> SUFFICES ASSUME NEW k \in 0 .. n - 1, f[k] = g[k] PROVE f[k + 1] = g[k + 1]
    OBVIOUS
  <2>1. /\ f[k + 1] = NextFields(f[k], text, k + 1, cuts)
        /\ g[k + 1] = NextFields(g[k], more, k + 1, cuts)
    <3>1. k + 1 \in 1 .. n /\ k + 1 \in 1 .. n + 1 /\ (k + 1) - 1 = k
      BY <1>1
    <3> QED
      BY <1>2, <1>3, <3>1
  <2>2. more[k + 1] = text[k + 1] /\ (k + 1 # 1 => more[(k + 1) - 1] = text[(k + 1) - 1])
    BY <1>1
  <2>3. NextFields(g[k], more, k + 1, cuts) = NextFields(g[k], text, k + 1, cuts)
    BY <2>2 DEF NextFields
  <2> QED
    BY <2>1, <2>3
<1>5. f[n] = g[n]
  <2>1. f[0] = g[0] /\ n \in Nat
    BY <1>1, <1>2, <1>3
  <2>2. \A k \in 0 .. n : f[k] = g[k]
    BY <1>4, <2>1, Agree
  <2> QED
    BY <1>1, <2>2
<1>6. g[n + 1] = NextFields(g[n], more, n + 1, cuts)
  <2>1. n + 1 \in 1 .. n + 1 /\ (n + 1) - 1 = n
    BY <1>1
  <2> QED
    BY <1>3, <2>1
<1> QED
  BY <1>2, <1>3, <1>5, <1>6 DEF more, n

\* A byte of cuts ends a part, or is between two.
LEMMA FieldsOfCut ==
  ASSUME NEW text \in Seq(Byte), NEW cuts, NEW c \in Byte, c \in cuts
  PROVE  Fields(Append(text, c), cuts) = Fields(text, cuts)
<1>1. Append(text, c)[Len(text) + 1] = c
  BY AppendProperties
<1> QED
  BY <1>1, FieldsOfAppend DEF NextFields

\* The first byte of a part, and the others.
LEMMA FieldsBegun ==
  ASSUME NEW text \in Seq(Byte), NEW cuts, text # <<>> => text[Len(text)] \in cuts,
         NEW c \in Byte \ cuts
  PROVE  Fields(Append(text, c), cuts) = Append(Fields(text, cuts), <<c>>)
<1> DEFINE more == Append(text, c)
<1>1. Fields(more, cuts) = NextFields(Fields(text, cuts), more, Len(text) + 1, cuts)
  BY FieldsOfAppend
<1>2. /\ more[Len(text) + 1] = c
      /\ Len(text) + 1 = 1 \/ more[(Len(text) + 1) - 1] \in cuts
  <2>1. CASE text = <<>>
    BY <2>1
  <2>2. CASE text # <<>>
    BY <2>2
  <2> QED
    BY <2>1, <2>2
<1> HIDE DEF more
<1>3. Fields(more, cuts) = Append(Fields(text, cuts), <<more[Len(text) + 1]>>)
  BY <1>1, <1>2 DEF NextFields
<1> QED
  BY <1>2, <1>3 DEF more

LEMMA LastPartGrows ==
  ASSUME NEW S, NEW before \in Seq(Seq(S)), NEW a \in Seq(S), NEW c \in S
  PROVE  [Append(before, a) EXCEPT ![Len(Append(before, a))] = Append(@, c)]
           = Append(before, Append(a, c))
<1> DEFINE s == Append(before, a)
           e == Append(a, c)
           m == Len(before)
<1>1. s \in Seq(Seq(S)) /\ Len(s) = m + 1 /\ s[m + 1] = a /\ m \in Nat
      /\ \A i \in 1 .. m : s[i] = before[i]
  BY AppendProperties
<1>2. e \in Seq(S)
  BY AppendProperties
<1>3. s[Len(s)] = a
  BY <1>1
<1>4. [s EXCEPT ![Len(s)] = Append(@, c)] = [s EXCEPT ![m + 1] = e]
  BY <1>1
<1> HIDE DEF s, e, m
<1>5. /\ [s EXCEPT ![m + 1] = e] \in Seq(Seq(S))
      /\ Len([s EXCEPT ![m + 1] = e]) = m + 1
      /\ \A j \in 1 .. m + 1 : [s EXCEPT ![m + 1] = e][j] = IF j = m + 1 THEN e ELSE s[j]
  BY <1>1, <1>2, ExceptSeq
<1>6. /\ Append(before, e) \in Seq(Seq(S)) /\ Len(Append(before, e)) = m + 1
      /\ Append(before, e)[m + 1] = e
      /\ \A j \in 1 .. m : Append(before, e)[j] = before[j]
  BY <1>2, AppendProperties DEF m
<1>7. [s EXCEPT ![m + 1] = e] = Append(before, e)
  <2>1. \A j \in 1 .. m + 1 : [s EXCEPT ![m + 1] = e][j] = Append(before, e)[j]
    BY <1>1, <1>5, <1>6
  <2> QED
    BY <1>5, <1>6, <2>1, SeqEqual
<1> QED
  BY <1>4, <1>7 DEF s, e

\* The parts of text are those of before, and then part.
PartsAre(text, cuts, before, part) == Fields(text, cuts) = Append(before, part)

LEMMA FieldsGrown ==
  ASSUME NEW text \in Seq(Byte), NEW cuts, text # <<>>, text[Len(text)] \notin cuts,
         NEW before \in Seq(Seq(Byte)), NEW a \in Seq(Byte),
         PartsAre(text, cuts, before, a), NEW c \in Byte \ cuts
  PROVE  PartsAre(Append(text, c), cuts, before, Append(a, c))
<1> DEFINE more == Append(text, c)
           n == Len(text) + 1
<1>1. Fields(more, cuts) = NextFields(Append(before, a), more, n, cuts)
  BY FieldsOfAppend DEF PartsAre
<1>2. more[n] = c /\ more[n - 1] = text[Len(text)] /\ n # 1
  OBVIOUS
<1> HIDE DEF more, n
<1>3. Fields(more, cuts)
        = [Append(before, a) EXCEPT ![Len(Append(before, a))] = Append(@, c)]
  BY <1>1, <1>2 DEF NextFields
<1> QED
  BY <1>3, LastPartGrows DEF more, PartsAre

LEMMA ConcatAppend ==
  ASSUME NEW S, NEW s \in Seq(S), NEW t \in Seq(S), NEW c \in S
  PROVE  s \o Append(t, c) = Append(s \o t, c)
<1>1. <<c>> \in Seq(S) /\ s \o t \in Seq(S)
  OBVIOUS
<1>2. s \o (t \o <<c>>) = (s \o t) \o <<c>>
  BY <1>1, ConcatAssociative
<1>3. Append(t, c) = t \o <<c>> /\ Append(s \o t, c) = (s \o t) \o <<c>>
  BY <1>1, AppendIsConcat
<1> QED
  BY <1>2, <1>3

LEMMA ConcatLast ==
  ASSUME NEW S, NEW s \in Seq(S), NEW t \in Seq(S), t # <<>>
  PROVE  s \o t \in Seq(S) /\ s \o t # <<>> /\ (s \o t)[Len(s \o t)] = t[Len(t)]
<1>1. s \o t \in Seq(S) /\ Len(s \o t) = Len(s) + Len(t) /\ Len(t) > 0 /\ Len(s) \in Nat
      /\ Len(t) \in Nat
  BY ConcatProperties
<1>2. (s \o t)[Len(s) + Len(t)] = t[Len(t)]
  BY <1>1, ConcatProperties
<1> QED
  BY <1>1, <1>2

\* No part goes on at the end of text; word can be a part.
IsClosed(text, cuts) == text # <<>> => text[Len(text)] \in cuts
IsPart(word, cuts) == word # <<>> /\ \A i \in 1 .. Len(word) : word[i] \notin cuts

\* What follows a byte of cuts, and has none, is a part.
LEMMA FieldsOfWord ==
  ASSUME NEW text \in Seq(Byte), NEW cuts, IsClosed(text, cuts),
         NEW word \in Seq(Byte), IsPart(word, cuts)
  PROVE  Fields(text \o word, cuts) = Append(Fields(text, cuts), word)
<1> DEFINE n == Len(word)
           F == Fields(text, cuts)
           first(k) == SubSeq(word, 1, k)
           Good(k) == Fields(text \o first(k), cuts) = Append(F, first(k))
           S == {k \in Nat : k + 1 <= n => Good(k + 1)}
<1>1. F \in Seq(Seq(Byte))
  BY FieldsType
<1>2. n \in Nat /\ n > 0 /\ first(n) = word
  BY DEF IsPart
<1>3. ASSUME NEW k \in 1 .. n
      PROVE  /\ first(k) \in Seq(Byte) /\ first(k) # <<>> /\ first(k)[Len(first(k))] \notin cuts
             /\ k + 1 <= n => /\ word[k + 1] \in Byte \ cuts
                              /\ first(k + 1) = Append(first(k), word[k + 1])
  BY DEF IsPart
<1>4. Good(1)
  <2>1. word[1] \in Byte \ cuts
    BY <1>2 DEF IsPart
  <2>2. first(1) = <<word[1]>>
    <3>1. /\ first(1) \in Seq(Byte) /\ Len(first(1)) = 1 /\ first(1)[1] = word[1]
          /\ <<word[1]>> \in Seq(Byte) /\ Len(<<word[1]>>) = 1
      BY <1>2
    <3> HIDE DEF first
    <3> QED
      BY <3>1, SeqEqual
  <2>3. text \o first(1) = Append(text, word[1])
    BY <2>1, <2>2, AppendIsConcat
  <2> QED
    BY <2>1, <2>2, <2>3, FieldsBegun DEF IsClosed
<1> HIDE DEF F, first
<1>5. ASSUME NEW k \in 1 .. n, k + 1 <= n, Good(k) PROVE Good(k + 1)
  <2> DEFINE t == text \o first(k)
             c == word[k + 1]
  <2>1. /\ first(k) \in Seq(Byte) /\ first(k) # <<>> /\ first(k)[Len(first(k))] \notin cuts
        /\ c \in Byte \ cuts /\ first(k + 1) = Append(first(k), c)
    BY <1>3, <1>5
  <2>2. t \in Seq(Byte) /\ t # <<>> /\ t[Len(t)] \notin cuts
    BY <2>1, ConcatLast
  <2>3. Fields(t, cuts) = Append(F, first(k))
    BY <1>5
  <2>4. text \o Append(first(k), c) = Append(t, c)
    BY <2>1, ConcatAppend
  <2> DEFINE w == first(k)
  <2>6. w \in Seq(Byte) /\ c \in Byte \ cuts
    BY <2>1
  <2> HIDE DEF t, c, w
  <2>5. PartsAre(Append(t, c), cuts, F, Append(w, c))
    <3>1. PartsAre(t, cuts, F, w)
      BY <2>3 DEF w, PartsAre
    <3> QED
      BY <1>1, <2>6, <2>2, <3>1, FieldsGrown
  <2> QED
    BY <2>1, <2>4, <2>5 DEF w, PartsAre
<1> HIDE DEF Good, n
<1>6. 0 \in S
  BY <1>4
<1>7. ASSUME NEW k \in Nat, k \in S PROVE k + 1 \in S
  BY <1>2, <1>5, <1>7
<1>8. n - 1 \in S
  <2> HIDE DEF S
  <2>1. Nat \subseteq S /\ n - 1 \in Nat
    BY <1>2, <1>6, <1>7, SetInduction, SMTT(30)
  <2> QED
    BY <2>1
<1>9. Good(n)
  BY <1>2, <1>8
<1> QED
  BY <1>2, <1>9 DEF Good, F

\* A part and the byte after it.
LEMMA FieldsOfLine ==
  ASSUME NEW text \in Seq(Byte), NEW cuts, IsClosed(text, cuts),
         NEW word \in Seq(Byte), IsPart(word, cuts), NEW c \in Byte, c \in cuts
  PROVE  /\ PartsAre(Append(text \o word, c), cuts, Fields(text, cuts), word)
         /\ Append(text \o word, c) \in Seq(Byte)
         /\ IsClosed(Append(text \o word, c), cuts)
<1> DEFINE t == text \o word
<1>1. t \in Seq(Byte)
  BY ConcatProperties
<1>2. Fields(t, cuts) = Append(Fields(text, cuts), word)
  BY FieldsOfWord
<1> HIDE DEF t
<1>3. Fields(Append(t, c), cuts) = Fields(t, cuts)
  BY <1>1, FieldsOfCut
<1>4. Append(t, c) \in Seq(Byte) /\ IsClosed(Append(t, c), cuts)
  BY <1>1 DEF IsClosed
<1> QED
  BY <1>2, <1>3, <1>4 DEF t, PartsAre

\* Two parts, each with the byte after it.
LineOf(k, sp, v, nl) == Append(Append(k, sp) \o v, nl)
EndsIn(text, c) == text # <<>> /\ text[Len(text)] = c

LEMMA FieldsOfTwo ==
  ASSUME NEW text \in Seq(Byte), NEW cuts, IsClosed(text, cuts),
         NEW k \in Seq(Byte), IsPart(k, cuts), NEW sp \in Byte, sp \in cuts,
         NEW v \in Seq(Byte), IsPart(v, cuts), NEW nl \in Byte, nl \in cuts
  PROVE  /\ PartsAre(text \o LineOf(k, sp, v, nl), cuts, Append(Fields(text, cuts), k), v)
         /\ text \o LineOf(k, sp, v, nl) \in Seq(Byte)
         /\ IsClosed(text \o LineOf(k, sp, v, nl), cuts)
         /\ EndsIn(text \o LineOf(k, sp, v, nl), nl)
<1> DEFINE a == Append(text \o k, sp)
           r == a \o v
           b == Append(r, nl)
           c == Append(k, sp)
           d == c \o v
<1>1. a \in Seq(Byte) /\ IsClosed(a, cuts) /\ PartsAre(a, cuts, Fields(text, cuts), k)
  BY FieldsOfLine
<1>2. c \in Seq(Byte) /\ text \o c = a
  BY ConcatAppend, AppendProperties
<1> HIDE DEF a, c
<1>3. b \in Seq(Byte) /\ IsClosed(b, cuts) /\ PartsAre(b, cuts, Fields(a, cuts), v)
  BY <1>1, FieldsOfLine
<1>4. EndsIn(b, nl)
  <2>1. r \in Seq(Byte)
    BY <1>1, ConcatProperties
  <2> HIDE DEF r
  <2> QED
    BY <2>1, AppendProperties DEF EndsIn
<1>5. text \o LineOf(k, sp, v, nl) = b
  <2>1. d \in Seq(Byte)
    BY <1>2, ConcatProperties
  <2>2. (text \o c) \o v = text \o d
    <3>1. c \in Seq(Byte)
      BY <1>2
    <3> QED
      BY <3>1, ConcatAssociative
  <2>3. LineOf(k, sp, v, nl) = Append(d, nl)
    BY DEF c, LineOf
  <2> HIDE DEF d
  <2>4. text \o Append(d, nl) = Append(text \o d, nl)
    BY <2>1, ConcatAppend
  <2> QED
    BY <1>2, <2>2, <2>3, <2>4
<1> HIDE DEF b
<1> QED
  BY <1>1, <1>3, <1>4, <1>5 DEF PartsAre

-------------------------------------------------------------------------------
\* Sequences put end to end.

\* f[i] are the first i of seqs, put end to end.
Flattens(f, seqs, S) ==
  /\ f \in [0 .. Len(seqs) -> Seq(S)] /\ f[0] = <<>>
  /\ \A i \in 1 .. Len(seqs) : f[i] = f[i - 1] \o seqs[i]
  /\ FlattenSeq(seqs) = f[Len(seqs)]

LEMMA FlattenRecursion ==
  ASSUME NEW S, NEW seqs \in Seq(Seq(S))
  PROVE  \E f : Flattens(f, seqs, S)
<1> DEFINE n == Len(seqs)
           A == Seq(S)
           none == <<>>
           G == [i \in 1 .. n |-> [b \in A |-> b \o seqs[i]]]
           fs == CHOOSE f : f = [i \in 1 .. n |-> IF i = 1 THEN seqs[i]
                                                  ELSE f[i - 1] \o seqs[i]]
<1>1. n \in Nat /\ none \in A /\ \A i \in 1 .. n : seqs[i] \in A
  OBVIOUS
<1>2. G \in [1 .. n -> [A -> A]]
  <2>1. \A i \in 1 .. n : \A b \in A : b \o seqs[i] \in A
    BY <1>1, ConcatProperties
  <2> QED
    BY <2>1
<1>3. PICK f \in [0 .. n -> A] : f[0] = none /\ \A i \in 1 .. n : f[i] = G[i][f[i - 1]]
  <2> HIDE DEF n, A, G, none
  <2>1. \E f : Recurs(f, n, A, none, G)
    BY <1>1, <1>2, RecursionExists
  <2> QED
    BY <2>1 DEF Recurs
<1> HIDE DEF A
<1>4. \A i \in 1 .. n : f[i] = f[i - 1] \o seqs[i]
  <2> HIDE DEF n
  <2> TAKE i \in 1 .. n
  <2>1. i - 1 \in 0 .. n
    BY <1>1
  <2>2. f[i - 1] \in A
    BY <1>3, <2>1
  <2> QED
    BY <1>3, <2>2
<1> HIDE DEF G
<1>5. f[0] = <<>>
  BY <1>3
<1>6. n > 0 => f[1] = seqs[1]
  <2>1. n > 0 => f[1] = f[0] \o seqs[1] /\ seqs[1] \in Seq(S)
    <3> HIDE DEF n
    <3>1. n > 0 => 1 \in 1 .. n /\ 1 - 1 = 0
      BY <1>1
    <3> QED
      BY <1>1, <1>4, <3>1 DEF A
  <2>2. n > 0 => <<>> \o seqs[1] = seqs[1]
    BY <2>1, ConcatEmptySeq
  <2> QED
    BY <1>5, <2>1, <2>2
<1>7. [i \in 1 .. n |-> f[i]] = [i \in 1 .. n |-> IF i = 1 THEN seqs[i]
                                    ELSE [j \in 1 .. n |-> f[j]][i - 1] \o seqs[i]]
  <2> SUFFICES ASSUME NEW i \in 1 .. n
               PROVE  f[i] = IF i = 1 THEN seqs[i]
                             ELSE [j \in 1 .. n |-> f[j]][i - 1] \o seqs[i]
    OBVIOUS
  <2>1. CASE i = 1
    BY <1>1, <1>6, <2>1
  <2>2. CASE i # 1
    <3>1. i - 1 \in 1 .. n
      BY <1>1, <2>2
    <3>2. [j \in 1 .. n |-> f[j]][i - 1] = f[i - 1]
      BY <3>1
    <3> QED
      BY <1>4, <2>2, <3>2
  <2> QED
    BY <2>1, <2>2
<1>8. fs = [i \in 1 .. n |-> IF i = 1 THEN seqs[i] ELSE fs[i - 1] \o seqs[i]]
  BY <1>7
<1>9. FlattenSeq(seqs) = IF n = 0 THEN seqs ELSE fs[n]
  BY DEF FlattenSeq
<1> HIDE DEF fs, n, A
<1>10. CASE n = 0
  <2>1. seqs = <<>>
    BY <1>10 DEF n
  <2> QED
    BY <1>3, <1>4, <1>5, <1>9, <1>10, <2>1 DEF n, A, Flattens
<1>11. CASE n > 0
  <2> DEFINE shifted == [k \in 0 .. n - 1 |-> fs[k + 1]]
             moved == [k \in 0 .. n - 1 |-> f[k + 1]]
  <2>1. shifted[0] = moved[0]
    <3>1. 1 \in 1 .. n /\ 0 \in 0 .. n - 1
      BY <1>1, <1>11
    <3>2. fs[1] = seqs[1]
      BY <1>8, <3>1
    <3> QED
      BY <1>6, <1>11, <3>1, <3>2
  <2>2. \A k \in 0 .. (n - 1) - 1 : shifted[k] = moved[k] => shifted[k + 1] = moved[k + 1]
    <3> SUFFICES ASSUME NEW k \in 0 .. (n - 1) - 1, shifted[k] = moved[k]
                 PROVE  shifted[k + 1] = moved[k + 1]
      OBVIOUS
    <3>1. /\ k \in 0 .. n - 1 /\ k + 1 \in 0 .. n - 1 /\ (k + 1) + 1 \in 1 .. n
          /\ ((k + 1) + 1) - 1 = k + 1 /\ (k + 1) + 1 # 1
      BY <1>1
    <3>2. fs[(k + 1) + 1] = fs[k + 1] \o seqs[(k + 1) + 1]
      BY <1>8, <3>1
    <3>3. f[(k + 1) + 1] = f[k + 1] \o seqs[(k + 1) + 1]
      BY <1>4, <3>1
    <3> QED
      BY <3>1, <3>2, <3>3
  <2>3. shifted[n - 1] = moved[n - 1]
    <3> HIDE DEF shifted, moved
    <3>1. n - 1 \in Nat
      BY <1>1, <1>11
    <3>2. \A k \in 0 .. n - 1 : shifted[k] = moved[k]
      BY <2>1, <2>2, <3>1, Agree
    <3> QED
      BY <3>1, <3>2
  <2>4. fs[n] = f[n]
    <3>1. n - 1 \in 0 .. n - 1 /\ (n - 1) + 1 = n
      BY <1>1, <1>11
    <3> QED
      BY <2>3, <3>1
  <2> QED
    <3>1. FlattenSeq(seqs) = f[n]
      BY <1>9, <1>11, <2>4
    <3>2. Flattens(f, seqs, S)
      BY <1>3, <1>4, <1>5, <3>1 DEF n, A, Flattens
    <3> QED
      BY <3>2
<1> QED
  BY <1>1, <1>10, <1>11

-------------------------------------------------------------------------------
\* Beginnings and ends of a text.

LEMMA FromType ==
  ASSUME NEW text \in Seq(Byte), NEW n \in Nat
  PROVE  From(text, n) \in Seq(Byte)
<1>1. \A i \in n + 1 .. Len(text) : text[i] \in Byte
  OBVIOUS
<1>2. n + 1 \in Int /\ Len(text) \in Int
  OBVIOUS
<1> QED
  BY <1>1, <1>2, SubSeqProperties DEF From

LEMMA SpanType ==
  ASSUME NEW text \in Seq(Byte), NEW chars
  PROVE  /\ Span(text, chars) \in Seq(Byte) /\ Len(Span(text, chars)) \in Nat
         /\ \A i \in 1 .. Len(Span(text, chars)) : Span(text, chars)[i] \in chars
<1> DEFINE I == {i \in 1 .. Len(text) : text[i] \notin chars}
           stop == IF I # {} THEN Min(I) ELSE 0
<1>1. Span(text, chars) = IF stop = 0 THEN text ELSE SubSeq(text, 1, stop - 1)
  BY DEF Span, SelectInSeq
<1>2. I \subseteq 1 .. Len(text) /\ Len(text) \in Nat
  OBVIOUS
<1>3. \A i \in 1 .. Len(text) : i \notin I => text[i] \in chars
  OBVIOUS
<1> HIDE DEF I
<1>4. CASE I = {}
  BY <1>1, <1>3, <1>4
<1>5. CASE I # {}
  <2>1. Min(I) \in 1 .. Len(text) /\ \A i \in I : Min(I) <= i
    <3>1. I \subseteq Nat
      BY <1>2
    <3> QED
      BY <1>2, <1>5, <3>1, MinProperties
  <2> DEFINE m == Min(I)
  <2>2. m \in 1 .. Len(text) /\ \A i \in 1 .. m - 1 : text[i] \in chars
    BY <1>2, <1>3, <2>1
  <2>3. Span(text, chars) = SubSeq(text, 1, m - 1)
    BY <1>1, <1>5, <2>2
  <2> HIDE DEF m
  <2> DEFINE s == SubSeq(text, 1, m - 1)
  <2>4. s \in Seq(Byte) /\ Len(s) = m - 1 /\ \A i \in 1 .. m - 1 : s[i] = text[i]
    BY <1>2, <2>2
  <2> HIDE DEF s
  <2> QED
    BY <2>2, <2>3, <2>4 DEF s
<1> QED
  BY <1>4, <1>5

-------------------------------------------------------------------------------
\* Reversed sequences.

LEMMA ReverseProperties ==
  ASSUME NEW S, NEW s \in Seq(S)
  PROVE  /\ Reverse(s) \in Seq(S) /\ Len(Reverse(s)) = Len(s)
         /\ \A i \in 1 .. Len(s) : Reverse(s)[i] = s[Len(s) - i + 1]
<1>1. Len(s) \in Nat /\ \A i \in 1 .. Len(s) : Len(s) - i + 1 \in 1 .. Len(s)
  OBVIOUS
<1>2. \A i \in 1 .. Len(s) : s[Len(s) - i + 1] \in S
  BY <1>1
<1> QED
  BY <1>1, <1>2 DEF Reverse

LEMMA ReverseTwice ==
  ASSUME NEW S, NEW s \in Seq(S)
  PROVE  Reverse(Reverse(s)) = s
<1> DEFINE r == Reverse(s)
           t == Reverse(r)
<1>1. /\ r \in Seq(S) /\ Len(r) = Len(s)
      /\ \A i \in 1 .. Len(s) : r[i] = s[Len(s) - i + 1]
  BY ReverseProperties
<1> HIDE DEF r
<1>2. /\ t \in Seq(S) /\ Len(t) = Len(r)
      /\ \A i \in 1 .. Len(r) : t[i] = r[Len(r) - i + 1]
  BY <1>1, ReverseProperties
<1> HIDE DEF t
<1>3. ASSUME NEW i \in 1 .. Len(t) PROVE t[i] = s[i]
  <2>1. /\ Len(s) \in Nat /\ i \in 1 .. Len(s) /\ Len(s) - i + 1 \in 1 .. Len(s)
        /\ Len(s) - (Len(s) - i + 1) + 1 = i
    BY <1>1, <1>2
  <2> QED
    BY <1>1, <1>2, <2>1
<1>4. t = s
  BY <1>1, <1>2, <1>3, SeqEqual
<1> QED
  BY <1>4 DEF t, r

-------------------------------------------------------------------------------
\* The parameters of a query.

Pair == [key : Seq(Byte), value : Seq(Byte)]

\* The key is not empty, and the value is one word; the key may have a blank.
Parsed(pair) == pair.key # <<>> /\ IsPart(pair.value, Blanks)

LEMMA ParamIsParsed ==
  ASSUME NEW field \in Seq(Byte), IsParam(field)
  PROVE  /\ [key |-> ParamKey(field), value |-> ParamValue(field)] \in Pair
         /\ Parsed([key |-> ParamKey(field), value |-> ParamValue(field)])
<1> DEFINE k == ParamKey(field)
           rest == From(field, Len(k) + 1)
           word == From(rest, Len(Span(rest, Blanks)))
           v == ParamValue(field)
<1>1. k \in Seq(Byte) /\ Len(k) \in Nat
  BY SpanType DEF ParamKey
<1> HIDE DEF k
<1>2. rest \in Seq(Byte)
  <2>1. Len(k) + 1 \in Nat
    BY <1>1
  <2> QED
    BY <2>1, FromType
<1>3. v = Span(word, Byte \ Blanks)
  BY DEF ParamValue, k
<1> HIDE DEF rest
<1>4. word \in Seq(Byte)
  BY <1>2, SpanType, FromType
<1> HIDE DEF word, v
<1>5. v \in Seq(Byte) /\ \A i \in 1 .. Len(v) : v[i] \notin Blanks
  BY <1>3, <1>4, SpanType
<1>6. k # <<>> /\ v # <<>>
  BY DEF IsParam, k, v
<1> QED
  BY <1>1, <1>5, <1>6 DEF Pair, Parsed, IsPart, k, v

LEMMA ParseParamsType ==
  ASSUME NEW query \in Seq(Byte)
  PROVE  /\ parse_params(query) \in Seq(Pair)
         /\ \A i \in 1 .. Len(parse_params(query)) : Parsed(parse_params(query)[i])
<1> DEFINE text == IF query # <<>> /\ query[1] = Ch.question THEN Tail(query) ELSE query
           fields == Fields(text, {Ch.amp})
           pairs == [i \in DOMAIN fields |->
                       [key |-> ParamKey(fields[i]), value |-> ParamValue(fields[i])]]
           all == \A i \in DOMAIN fields : IsParam(fields[i])
           P == {pair \in Pair : Parsed(pair)}
<1>1. fields \in Seq(Seq(Byte))
  <2>1. text \in Seq(Byte)
    OBVIOUS
  <2> HIDE DEF text
  <2> QED
    BY <2>1, FieldsType
<1>2. parse_params(query) = IF all THEN Reverse(pairs) ELSE <<>>
  BY DEF parse_params
<1> HIDE DEF fields
<1>3. CASE all
  <2>1. \A i \in 1 .. Len(fields) : fields[i] \in Seq(Byte) /\ IsParam(fields[i])
    BY <1>1, <1>3
  <2>2. pairs \in Seq(P)
    <3>1. ASSUME NEW i \in 1 .. Len(fields)
          PROVE  [key |-> ParamKey(fields[i]), value |-> ParamValue(fields[i])] \in P
      BY <2>1, ParamIsParsed
    <3>2. DOMAIN fields = 1 .. Len(fields) /\ Len(fields) \in Nat
      BY <1>1
    <3> HIDE DEF P
    <3> QED
      BY <3>1, <3>2
  <2> HIDE DEF pairs, P
  <2>3. Reverse(pairs) \in Seq(P)
    BY <2>2, ReverseProperties
  <2>4. \A i \in 1 .. Len(Reverse(pairs)) : Reverse(pairs)[i] \in P
    BY <2>3
  <2>5. Reverse(pairs) \in Seq(Pair)
    BY <2>3, SeqMonotonic DEF P
  <2> QED
    BY <1>2, <1>3, <2>4, <2>5 DEF P
<1>4. CASE ~all
  <2>1. parse_params(query) = <<>>
    BY <1>2, <1>4
  <2>2. <<>> \in Seq(Pair) /\ Len(<<>>) = 0
    OBVIOUS
  <2> QED
    BY <2>1, <2>2
<1> QED
  BY <1>3, <1>4

-------------------------------------------------------------------------------
\* Functions that read a text from left to right and are defined by what follows.

\* At i, f has put[i] and then what it has at next[i].
GoesOn(f, n, put, next) ==
  f[n + 1] = <<>> /\ \A i \in 1 .. n : f[i] = put[i] \o f[next[i]]
Jumps(f, n, put, next) ==
  f \in [1 .. n + 1 -> Seq(Byte)] /\ GoesOn(f, n, put, next)
Forward(next, n) ==
  next \in [1 .. n -> 1 .. n + 1] /\ \A i \in 1 .. n : next[i] > i
SameOn(f, g, n) == \A i \in 1 .. n + 1 : f[i] = g[i]

JumpsFrom(f, m, n, put, next) ==
  /\ f \in [m .. n + 1 -> Seq(Byte)] /\ f[n + 1] = <<>>
  /\ \A i \in m .. n : f[i] = put[i] \o f[next[i]]

LEMMA JumpsExist ==
  ASSUME NEW n \in Nat, NEW put \in [1 .. n -> Seq(Byte)], NEW next, Forward(next, n)
  PROVE  \E f : Jumps(f, n, put, next)
<1> USE DEF Forward
<1> DEFINE Good(k) == \E f : JumpsFrom(f, n + 1 - k, n, put, next)
           S == {k \in Nat : k <= n => Good(k)}
<1>1. 0 \in S
  <2> DEFINE f == [i \in n + 1 .. n + 1 |-> <<>>]
  <2>1. n + 1 \in n + 1 .. n + 1 /\ n + 1 .. n = {} /\ n + 1 - 0 = n + 1 /\ <<>> \in Seq(Byte)
    OBVIOUS
  <2>2. f \in [n + 1 .. n + 1 -> Seq(Byte)] /\ f[n + 1] = <<>>
    BY <2>1
  <2> HIDE DEF f
  <2>3. JumpsFrom(f, n + 1 - 0, n, put, next)
    BY <2>1, <2>2 DEF JumpsFrom
  <2> QED
    BY <2>3
<1>2. ASSUME NEW k \in Nat, k \in S PROVE k + 1 \in S
  <2> SUFFICES ASSUME k + 1 <= n PROVE Good(k + 1)
    OBVIOUS
  <2> DEFINE m == n - k
  <2>1. m \in 1 .. n /\ n + 1 - k = m + 1 /\ n + 1 - (k + 1) = m
    OBVIOUS
  <2>2. PICK f : JumpsFrom(f, m + 1, n, put, next)
    BY <1>2, <2>1
  <2> HIDE DEF m
  <2>3. /\ f \in [m + 1 .. n + 1 -> Seq(Byte)] /\ f[n + 1] = <<>>
        /\ \A i \in m + 1 .. n : f[i] = put[i] \o f[next[i]]
    BY <2>2 DEF JumpsFrom
  <2> DEFINE e == put[m] \o f[next[m]]
             g == [i \in m .. n + 1 |-> IF i = m THEN e ELSE f[i]]
  <2>4. e \in Seq(Byte)
    <3>1. next[m] \in m + 1 .. n + 1 /\ put[m] \in Seq(Byte)
      BY <2>1
    <3>2. f[next[m]] \in Seq(Byte)
      BY <2>3, <3>1
    <3> QED
      BY <3>1, <3>2, ConcatProperties
  <2>5. g[m] = put[m] \o f[next[m]] /\ \A i \in m + 1 .. n + 1 : g[i] = f[i]
    BY <2>1
  <2> HIDE DEF e
  <2>6. g \in [m .. n + 1 -> Seq(Byte)]
    BY <2>1, <2>3, <2>4
  <2> HIDE DEF g
  <2>7. \A i \in m .. n : g[i] = put[i] \o g[next[i]]
    <3> TAKE i \in m .. n
    <3>1. next[i] \in m + 1 .. n + 1 /\ i \in 1 .. n
      BY <2>1
    <3>2. g[next[i]] = f[next[i]]
      BY <2>5, <3>1
    <3>3. i # m => i \in m + 1 .. n /\ i \in m + 1 .. n + 1
      BY <2>1
    <3> QED
      BY <2>3, <2>5, <3>2, <3>3
  <2>8. g[n + 1] = <<>>
    <3>1. n + 1 \in m + 1 .. n + 1
      BY <2>1
    <3> QED
      BY <2>3, <2>5, <3>1
  <2>9. JumpsFrom(g, m, n, put, next)
    BY <2>6, <2>7, <2>8 DEF JumpsFrom
  <2> QED
    BY <2>1, <2>9
<1>3. n \in S
  <2> HIDE DEF S
  <2> QED
    BY <1>1, <1>2, SetInduction
<1>4. PICK f : JumpsFrom(f, n + 1 - n, n, put, next)
  BY <1>3
<1>5. n + 1 - n = 1
  OBVIOUS
<1>6. Jumps(f, n, put, next)
  BY <1>4, <1>5 DEF JumpsFrom, Jumps, GoesOn
<1> QED
  BY <1>6

\* What holds at the end, and at each place if it does at all that follow, holds
\* at every place.
LEMMA BackwardInduction ==
  ASSUME NEW n \in Nat, NEW P, n + 1 \in P,
         \A i \in 1 .. n : (\A j \in i + 1 .. n + 1 : j \in P) => i \in P
  PROVE  1 .. n + 1 \subseteq P
<1> DEFINE S == {k \in Nat : \A i \in 1 .. n + 1 : i >= n + 1 - k => i \in P}
<1>1. 0 \in S
  OBVIOUS
<1>2. ASSUME NEW k \in Nat, k \in S PROVE k + 1 \in S
  <2> SUFFICES ASSUME NEW i \in 1 .. n + 1, i >= n + 1 - (k + 1) PROVE i \in P
    OBVIOUS
  <2>1. CASE i >= n + 1 - k
    BY <1>2, <2>1
  <2>2. CASE ~ (i >= n + 1 - k)
    <3>1. i \in 1 .. n
      BY <2>2
    <3>2. \A j \in i + 1 .. n + 1 : j \in 1 .. n + 1 /\ j >= n + 1 - k
      BY <2>2
    <3>3. \A j \in i + 1 .. n + 1 : j \in P
      BY <1>2, <3>2
    <3> QED
      BY <3>1, <3>3
  <2> QED
    BY <2>1, <2>2
<1>3. n \in S
  <2> HIDE DEF S
  <2> QED
    BY <1>1, <1>2, SetInduction
<1> QED
  BY <1>3

\* There is one such function.
LEMMA JumpsAgree ==
  ASSUME NEW n \in Nat, NEW put, NEW next, Forward(next, n),
         NEW f, NEW g, Jumps(f, n, put, next), GoesOn(g, n, put, next)
  PROVE  SameOn(g, f, n)
<1> DEFINE P == {i \in 1 .. n + 1 : g[i] = f[i]}
<1>1. n + 1 \in P
  BY DEF Jumps, GoesOn
<1>2. ASSUME NEW i \in 1 .. n, \A j \in i + 1 .. n + 1 : j \in P PROVE i \in P
  <2>1. next[i] \in i + 1 .. n + 1
    BY DEF Forward
  <2>2. g[next[i]] = f[next[i]]
    BY <1>2, <2>1
  <2>3. f[i] = put[i] \o f[next[i]]
    BY DEF Jumps, GoesOn
  <2>4. g[i] = put[i] \o g[next[i]]
    BY DEF GoesOn
  <2>5. g[i] = f[i]
    BY <2>2, <2>3, <2>4, Zenon
  <2> QED
    BY <2>5
<1> HIDE DEF P
<1>3. 1 .. n + 1 \subseteq P
  BY <1>1, <1>2, BackwardInduction
<1> QED
  BY <1>3 DEF P, SameOn

-------------------------------------------------------------------------------
\* URL escapes.

LEMMA EscapedType ==
  ASSUME NEW text \in Seq(Byte), NEW i \in 1 .. Len(text), IsEscape(text, i)
  PROVE  Escaped(text, i) \in Byte /\ i + 2 <= Len(text)
<1>1. i + 1 \in 1 .. Len(text) /\ i + 2 \in 1 .. Len(text)
  BY DEF IsEscape
<1>2. ASSUME NEW c \in Byte, HexValue(c) >= 0 PROVE HexValue(c) \in 0 .. 15
  BY <1>2 DEF HexValue, Byte
<1>3. HexValue(text[i + 1]) \in 0 .. 15 /\ HexValue(text[i + 2]) \in 0 .. 15
  BY <1>1, <1>2 DEF IsEscape
<1> DEFINE a == HexValue(text[i + 1])
           b == HexValue(text[i + 2])
<1>4. Escaped(text, i) = 16 * a + b
  BY DEF Escaped
<1> HIDE DEF a, b
<1>5. a \in 0 .. 15 /\ b \in 0 .. 15
  BY <1>3 DEF a, b
<1>6. 16 * a + b \in 0 .. 255
  BY <1>5
<1> QED
  BY <1>1, <1>4, <1>6 DEF Byte

\* An escape of 0, which ends the text.
IsEnd(text, i) == IsEscape(text, i) /\ Escaped(text, i) = 0

\* What urldecode makes of what is at i, and where it goes on.
DecodePut(text) ==
  [i \in 1 .. Len(text) |->
     IF IsEnd(text, i) THEN <<>>
     ELSE IF text[i] = Ch.plus THEN <<Ch.space>>
     ELSE IF IsEscape(text, i) THEN <<Escaped(text, i)>>
     ELSE IF text[i] = Ch.percent THEN <<>> ELSE <<text[i]>>]
DecodeNext(text) ==
  [i \in 1 .. Len(text) |->
     IF IsEnd(text, i) THEN Len(text) + 1
     ELSE IF text[i] = Ch.plus THEN i + 1
     ELSE IF IsEscape(text, i) THEN i + 3
     ELSE IF text[i] = Ch.percent THEN Len(text) + 1 ELSE i + 1]

LEMMA DecodeTypes ==
  ASSUME NEW text \in Seq(Byte)
  PROVE  /\ DecodePut(text) \in [1 .. Len(text) -> Seq(Byte)]
         /\ Forward(DecodeNext(text), Len(text))
<1>1. \A i \in 1 .. Len(text) : IsEscape(text, i) => Escaped(text, i) \in Byte /\ i + 2 <= Len(text)
  BY EscapedType
<1>2. \A c \in Byte : <<c>> \in Seq(Byte)
  OBVIOUS
<1>3. <<Ch.space>> \in Seq(Byte) /\ <<>> \in Seq(Byte)
  BY DEF Ch, Byte
<1>4. DecodePut(text) \in [1 .. Len(text) -> Seq(Byte)]
  <2>1. \A i \in 1 .. Len(text) : text[i] \in Byte
    OBVIOUS
  <2> QED
    BY <1>1, <1>2, <1>3, <2>1 DEF DecodePut
<1>5. Forward(DecodeNext(text), Len(text))
  BY <1>1 DEF DecodeNext, Forward
<1> QED
  BY <1>4, <1>5

\* f is urldecode's recursive function.
Decodes(f, text) == Jumps(f, Len(text), DecodePut(text), DecodeNext(text))

LEMMA DecodeRecursion ==
  ASSUME NEW text \in Seq(Byte)
  PROVE  \E f : /\ Decodes(f, text)
                /\ \A max : urldecode(text, max) =
                     SubSeq(f[1], 1, IF Len(f[1]) < max THEN Len(f[1]) ELSE max)
<1> DEFINE n == Len(text)
           put == DecodePut(text)
           next == DecodeNext(text)
           Def(f, i) == IF i > n \/ (IsEscape(text, i) /\ Escaped(text, i) = 0) THEN <<>>
                        ELSE IF text[i] = Ch.plus THEN <<Ch.space>> \o f[i + 1]
                        ELSE IF IsEscape(text, i) THEN <<Escaped(text, i)>> \o f[i + 3]
                        ELSE IF text[i] = Ch.percent THEN <<>>
                        ELSE <<text[i]>> \o f[i + 1]
           fs == CHOOSE f : f = [i \in 1 .. n + 1 |-> Def(f, i)]
<1>1. n \in Nat
  OBVIOUS
<1>2. PICK f : Decodes(f, text)
  <2>1. put \in [1 .. n -> Seq(Byte)] /\ Forward(next, n)
    BY DecodeTypes
  <2> HIDE DEF n, put, next
  <2>2. \E f : Jumps(f, n, put, next)
    BY <1>1, <2>1, JumpsExist
  <2> QED
    BY <2>2 DEF Decodes, n, put, next
<1>3. /\ f \in [1 .. n + 1 -> Seq(Byte)] /\ f[n + 1] = <<>>
      /\ \A i \in 1 .. n : f[i] = put[i] \o f[next[i]]
  BY <1>2 DEF Decodes, Jumps, GoesOn
<1>4. ASSUME NEW g, g[n + 1] = <<>>, NEW i \in 1 .. n
      PROVE  Def(g, i) = put[i] \o g[next[i]]
  <2>1. <<>> \o <<>> = <<>>
    BY EmptySeq, ConcatEmptySeq
  <2>2. ~ (i > n)
    BY <1>1
  <2>3. CASE text[i] = Ch.plus
    <3>1. ~IsEscape(text, i)
      BY <2>3 DEF IsEscape, Ch
    <3>2. put[i] = <<Ch.space>> /\ next[i] = i + 1
      BY <2>3, <3>1 DEF DecodePut, DecodeNext, IsEnd
    <3> QED
      BY <2>2, <2>3, <3>1, <3>2
  <2>4. CASE text[i] # Ch.plus /\ IsEscape(text, i) /\ ~IsEnd(text, i)
    <3>1. put[i] = <<Escaped(text, i)>> /\ next[i] = i + 3
      BY <2>4 DEF DecodePut, DecodeNext
    <3> QED
      BY <2>2, <2>4, <3>1 DEF IsEnd
  <2>7. CASE IsEnd(text, i)
    <3>1. put[i] = <<>> /\ next[i] = n + 1
      BY <2>7 DEF DecodePut, DecodeNext
    <3> QED
      BY <1>4, <2>1, <2>7, <3>1 DEF IsEnd
  <2>5. CASE text[i] # Ch.plus /\ ~IsEscape(text, i) /\ text[i] = Ch.percent
    <3>1. put[i] = <<>> /\ next[i] = n + 1
      BY <2>5 DEF DecodePut, DecodeNext, IsEnd
    <3> QED
      BY <1>4, <2>1, <2>2, <2>5, <3>1
  <2>6. CASE text[i] # Ch.plus /\ ~IsEscape(text, i) /\ text[i] # Ch.percent
    <3>1. put[i] = <<text[i]>> /\ next[i] = i + 1
      BY <2>6 DEF DecodePut, DecodeNext, IsEnd
    <3> QED
      BY <2>2, <2>6, <3>1
  <2> QED
    BY <2>3, <2>4, <2>5, <2>6, <2>7 DEF IsEnd
<1>5. f = [i \in 1 .. n + 1 |-> Def(f, i)]
  <2>1. ASSUME NEW i \in 1 .. n + 1 PROVE f[i] = Def(f, i)
    <3>1. CASE i = n + 1
      BY <1>1, <1>3, <3>1
    <3>2. CASE i # n + 1
      <4>1. i \in 1 .. n
        BY <1>1, <3>2
      <4> HIDE DEF Def, n, put, next
      <4> QED
        BY <1>3, <1>4, <4>1
    <3> QED
      BY <3>1, <3>2
  <2> HIDE DEF Def, n
  <2> QED
    BY <1>3, <2>1
<1>6. fs = [i \in 1 .. n + 1 |-> Def(fs, i)]
  <2> HIDE DEF Def, n
  <2> QED
    BY <1>5
<1>7. \A max : urldecode(text, max) =
        SubSeq(fs[1], 1, IF Len(fs[1]) < max THEN Len(fs[1]) ELSE max)
  BY DEF urldecode
<1> HIDE DEF fs
<1>8. fs[n + 1] = <<>> /\ \A i \in 1 .. n : fs[i] = put[i] \o fs[next[i]]
  <2>1. n + 1 \in 1 .. n + 1 /\ n + 1 > n
    BY <1>1
  <2>2. fs[n + 1] = Def(fs, n + 1)
    <3> HIDE DEF Def, n
    <3> QED
      BY <1>6, <2>1
  <2>3. fs[n + 1] = <<>>
    BY <2>1, <2>2
  <2>4. ASSUME NEW i \in 1 .. n PROVE fs[i] = put[i] \o fs[next[i]]
    <3>1. i \in 1 .. n + 1
      BY <1>1
    <3> HIDE DEF Def, n, put, next
    <3> QED
      BY <1>4, <1>6, <2>3, <3>1
  <2> QED
    BY <2>3, <2>4
<1>9. fs[1] = f[1]
  <2>1. Forward(next, n)
    BY DecodeTypes
  <2>2. Jumps(f, n, put, next) /\ GoesOn(fs, n, put, next)
    BY <1>2, <1>8 DEF Decodes, GoesOn
  <2> HIDE DEF n, put, next
  <2>3. SameOn(fs, f, n)
    BY <1>1, <2>1, <2>2, JumpsAgree
  <2> QED
    BY <1>1, <2>3 DEF SameOn
<1>10. \A max : urldecode(text, max) =
         SubSeq(f[1], 1, IF Len(f[1]) < max THEN Len(f[1]) ELSE max)
  BY <1>7, <1>9, Zenon
<1> QED
  BY <1>2, <1>10

LEMMA DecodedType ==
  ASSUME NEW text \in Seq(Byte), NEW max \in Nat
  PROVE  urldecode(text, max) \in Seq(Byte)
<1>1. PICK f : /\ Decodes(f, text)
               /\ \A m : urldecode(text, m) =
                    SubSeq(f[1], 1, IF Len(f[1]) < m THEN Len(f[1]) ELSE m)
  BY DecodeRecursion
<1> DEFINE s == f[1]
           k == IF Len(s) < max THEN Len(s) ELSE max
<1>2. s \in Seq(Byte)
  BY <1>1 DEF Decodes, Jumps
<1>3. urldecode(text, max) = SubSeq(s, 1, k)
  BY <1>1
<1> HIDE DEF s
<1>4. k \in 0 .. Len(s)
  BY <1>2
<1> HIDE DEF k
<1>5. \A i \in 1 .. k : s[i] \in Byte
  BY <1>2, <1>4
<1>6. SubSeq(s, 1, k) \in Seq(Byte)
  BY <1>4, <1>5, SubSeqProperties
<1> QED
  BY <1>3, <1>6

-------------------------------------------------------------------------------
\* XML escapes.

LEMMA XmlEscapeType ==
  ASSUME NEW c \in Byte
  PROVE  /\ XmlEscape(c) \in Seq(Byte)
         /\ Len(XmlEscape(c)) = CASE c = Ch.amp -> 5 [] c \in {Ch.quot, Ch.apos} -> 6
                                  [] c \in {Ch.lt, Ch.gt} -> 4 [] OTHER -> 1
         /\ Len(XmlEscape(c)) \in 1 .. 6
<1> USE DEF Byte
<1>1. CASE c = Ch.amp
  <2>1. XmlEscape(c) = <<38, 97, 109, 112, 59>>
    BY <1>1 DEF XmlEscape, Ch
  <2>2. <<38, 97, 109, 112, 59>> \in Seq(0 .. 255)
    OBVIOUS
  <2>3. Len(<<38, 97, 109, 112, 59>>) = 5
    OBVIOUS
  <2>4. XmlEscape(c) \in Seq(Byte) /\ Len(XmlEscape(c)) = 5
    BY <2>1, <2>2, <2>3
  <2>5. c \notin {Ch.quot, Ch.apos, Ch.lt, Ch.gt}
    BY <1>1 DEF Ch
  <2> QED
    BY <1>1, <2>4, <2>5
<1>2. CASE c = Ch.quot
  <2>1. XmlEscape(c) = <<38, 113, 117, 111, 116, 59>> /\ c # Ch.amp
    BY <1>2 DEF XmlEscape, Ch
  <2>2. <<38, 113, 117, 111, 116, 59>> \in Seq(0 .. 255)
    OBVIOUS
  <2>3. Len(<<38, 113, 117, 111, 116, 59>>) = 6
    OBVIOUS
  <2>4. XmlEscape(c) \in Seq(Byte) /\ Len(XmlEscape(c)) = 6
    BY <2>1, <2>2, <2>3
  <2>5. c \notin {Ch.amp, Ch.lt, Ch.gt}
    BY <1>2 DEF Ch
  <2> QED
    BY <1>2, <2>4, <2>5
<1>3. CASE c = Ch.apos
  <2>1. XmlEscape(c) = <<38, 97, 112, 111, 115, 59>> /\ c # Ch.amp
    BY <1>3 DEF XmlEscape, Ch
  <2>2. <<38, 97, 112, 111, 115, 59>> \in Seq(0 .. 255)
    OBVIOUS
  <2>3. Len(<<38, 97, 112, 111, 115, 59>>) = 6
    OBVIOUS
  <2>4. XmlEscape(c) \in Seq(Byte) /\ Len(XmlEscape(c)) = 6
    BY <2>1, <2>2, <2>3
  <2>5. c \notin {Ch.amp, Ch.lt, Ch.gt}
    BY <1>3 DEF Ch
  <2> QED
    BY <1>3, <2>4, <2>5
<1>4. CASE c = Ch.lt
  <2>1. XmlEscape(c) = <<38, 108, 116, 59>> /\ c \notin {Ch.amp, Ch.quot, Ch.apos}
    BY <1>4 DEF XmlEscape, Ch
  <2> QED
    BY <1>4, <2>1
<1>5. CASE c = Ch.gt
  <2>1. XmlEscape(c) = <<38, 103, 116, 59>> /\ c \notin {Ch.amp, Ch.quot, Ch.apos}
    BY <1>5 DEF XmlEscape, Ch
  <2> QED
    BY <1>5, <2>1
<1>6. CASE c \notin {Ch.amp, Ch.quot, Ch.apos, Ch.lt, Ch.gt}
  <2>1. XmlEscape(c) = <<c>>
    BY <1>6 DEF XmlEscape
  <2> QED
    BY <1>6, <2>1
<1> QED
  BY <1>1, <1>2, <1>3, <1>4, <1>5, <1>6

LEMMA XmlAppendType ==
  ASSUME NEW dst \in Seq(Byte), NEW c \in Byte, NEW max \in Int
  PROVE  XmlAppend(dst, c, max) \in Seq(Byte)
BY XmlEscapeType, ConcatProperties DEF XmlAppend

\* An escape that is left out leaves the room to those that follow.
LEMMA XmlAppendFits ==
  ASSUME NEW dst \in Seq(Byte), NEW c \in Byte, NEW max \in Int, Len(dst) <= max
  PROVE  Len(XmlAppend(dst, c, max)) <= max
<1> DEFINE e == XmlEscape(c)
<1>1. e \in Seq(Byte) /\ Len(e) \in 1 .. 6
  BY XmlEscapeType
<1>2. /\ XmlAppend(dst, c, max) = IF XmlFits(dst, c, max) THEN dst \o e ELSE dst
      /\ XmlFits(dst, c, max) => Len(dst) < max /\ (Len(e) = 1 \/ Len(dst) + Len(e) < max)
  BY DEF XmlAppend, XmlFits
<1> HIDE DEF e
<1>3. Len(dst \o e) = Len(dst) + Len(e) /\ Len(dst) \in Nat
  BY <1>1, ConcatProperties
<1> QED
  BY <1>1, <1>2, <1>3, SMTT(30)

\* f[i] is what has been written after the first i bytes.
Encodes(f, text, max) ==
  /\ f \in [0 .. Len(text) -> Seq(Byte)] /\ f[0] = <<>>
  /\ \A i \in 1 .. Len(text) : f[i] = XmlAppend(f[i - 1], text[i], max)
  /\ xmlencode(text, max) = f[Len(text)]

LEMMA XmlRecursion ==
  ASSUME NEW text \in Seq(Byte), NEW max \in Int
  PROVE  \E f : Encodes(f, text, max)
<1> DEFINE n == Len(text)
           A == Seq(Byte)
           none == <<>>
           G == [i \in 1 .. n |-> [b \in A |-> XmlAppend(b, text[i], max)]]
           fs == CHOOSE f : f = [i \in 0 .. n |-> IF i = 0 THEN <<>>
                                                  ELSE XmlAppend(f[i - 1], text[i], max)]
<1>1. n \in Nat /\ none \in A /\ \A i \in 1 .. n : text[i] \in Byte
  OBVIOUS
<1>2. G \in [1 .. n -> [A -> A]]
  BY <1>1, XmlAppendType
<1>3. PICK f \in [0 .. n -> A] : f[0] = none /\ \A i \in 1 .. n : f[i] = G[i][f[i - 1]]
  <2> HIDE DEF n, A, G, none
  <2>1. \E f : Recurs(f, n, A, none, G)
    BY <1>1, <1>2, RecursionExists
  <2> QED
    BY <2>1 DEF Recurs
<1>4. \A i \in 1 .. n : f[i] = XmlAppend(f[i - 1], text[i], max)
  <2> TAKE i \in 1 .. n
  <2>1. f[i - 1] \in A
    BY <1>1, <1>3
  <2> QED
    BY <1>3, <2>1
<1> HIDE DEF A
<1>5. f = [i \in 0 .. n |-> IF i = 0 THEN <<>> ELSE XmlAppend(f[i - 1], text[i], max)]
  BY <1>1, <1>3, <1>4
<1>6. fs = [i \in 0 .. n |-> IF i = 0 THEN <<>> ELSE XmlAppend(fs[i - 1], text[i], max)]
  BY <1>5
<1>7. xmlencode(text, max) = fs[n]
  BY DEF xmlencode
<1> HIDE DEF fs, n
<1>8. /\ fs[0] = <<>>
      /\ \A i \in 1 .. n : fs[i] = XmlAppend(fs[i - 1], text[i], max)
  BY <1>1, <1>6
<1>9. \A m \in 0 .. n : fs[m] = f[m]
  <2>1. fs[0] = f[0]
    BY <1>3, <1>8 DEF none
  <2>2. \A k \in 0 .. n - 1 : fs[k] = f[k] => fs[k + 1] = f[k + 1]
    <3> TAKE k \in 0 .. n - 1
    <3>1. k + 1 \in 1 .. n /\ (k + 1) - 1 = k
      BY <1>1
    <3> QED
      BY <1>4, <1>8, <3>1
  <2> QED
    BY <1>1, <2>1, <2>2, Agree
<1>10. xmlencode(text, max) = f[n]
  BY <1>1, <1>7, <1>9
<1>11. Encodes(f, text, max)
  BY <1>3, <1>4, <1>10 DEF A, n, none, Encodes
<1> QED
  BY <1>11

LEMMA XmlEncodeFits ==
  ASSUME NEW text \in Seq(Byte), NEW max \in Nat
  PROVE  Len(xmlencode(text, max)) <= max
<1> DEFINE n == Len(text)
<1>1. PICK f : Encodes(f, text, max)
  BY XmlRecursion
<1>2. /\ f \in [0 .. n -> Seq(Byte)] /\ f[0] = <<>> /\ xmlencode(text, max) = f[n]
      /\ \A i \in 1 .. n : f[i] = XmlAppend(f[i - 1], text[i], max)
  BY <1>1 DEF Encodes
<1>3. n \in Nat /\ \A i \in 1 .. n : text[i] \in Byte
  OBVIOUS
<1> HIDE DEF n
<1> DEFINE S == {i \in Nat : i <= n => Len(f[i]) <= max}
<1>4. 0 \in S
  BY <1>2
<1>5. ASSUME NEW i \in Nat, i \in S PROVE i + 1 \in S
  <2> SUFFICES ASSUME i + 1 <= n PROVE Len(f[i + 1]) <= max
    OBVIOUS
  <2>1. i + 1 \in 1 .. n /\ (i + 1) - 1 = i /\ i \in 0 .. n
    BY <1>3
  <2>2. f[i] \in Seq(Byte) /\ Len(f[i]) <= max /\ text[i + 1] \in Byte
    BY <1>2, <1>3, <1>5, <2>1
  <2>3. f[i + 1] = XmlAppend(f[i], text[i + 1], max)
    BY <1>2, <2>1
  <2> QED
    BY <2>2, <2>3, XmlAppendFits
<1>6. n \in S
  <2> HIDE DEF S
  <2> QED
    BY <1>3, <1>4, <1>5, SetInduction
<1> QED
  BY <1>2, <1>6

-------------------------------------------------------------------------------
\* Texts and their codes.

\* What is between p and q in e stands for the byte c.
CodeAt(e, p, q, c) ==
  \/ q = p + 1 /\ e[q] = c /\ c \notin {Ch.percent, Ch.plus}
  \/ q = p + 1 /\ e[q] = Ch.plus /\ c = Ch.space
  \/ q = p + 3 /\ IsEscape(e, p + 1) /\ Escaped(e, p + 1) = c /\ c # 0

\* e is a code of t: the code of the i-th byte ends at pos[i].
IsCoded(e, t, pos) ==
  /\ pos \in [0 .. Len(t) -> 0 .. Len(e)] /\ pos[0] = 0 /\ pos[Len(t)] = Len(e)
  /\ \A i \in 1 .. Len(t) : CodeAt(e, pos[i - 1], pos[i], t[i])

\* m parts of a text of n bytes; the i-th one ends at pos[i].
Marks(pos, m, n) ==
  /\ pos \in [0 .. m -> 0 .. n] /\ pos[0] = 0 /\ pos[m] = n
  /\ \A i \in 1 .. m : pos[i - 1] < pos[i]

\* A decoder that reads those codes one by one.
ReadsCodes(t, pos, put, next) ==
  \A i \in 1 .. Len(t) : /\ put[pos[i - 1] + 1] = <<t[i]>>
                         /\ next[pos[i - 1] + 1] = pos[i] + 1

LEMMA CodesGrow ==
  ASSUME NEW e \in Seq(Byte), NEW t \in Seq(Byte), NEW pos, IsCoded(e, t, pos),
         NEW i \in 1 .. Len(t)
  PROVE  pos[i - 1] \in 0 .. Len(e) - 1 /\ pos[i] \in 1 .. Len(e) /\ pos[i - 1] < pos[i]
<1>1. i - 1 \in 0 .. Len(t) /\ i \in 0 .. Len(t)
  OBVIOUS
<1>2. pos[i - 1] \in 0 .. Len(e) /\ pos[i] \in 0 .. Len(e) /\ CodeAt(e, pos[i - 1], pos[i], t[i])
  BY <1>1 DEF IsCoded
<1> QED
  BY <1>2 DEF CodeAt

LEMMA FromFirst ==
  ASSUME NEW t \in Seq(Byte), NEW i \in 1 .. Len(t)
  PROVE  From(t, i - 1) = <<t[i]>> \o From(t, i)
<1>1. i - 1 + 1 = i /\ Len(t) \in i .. Len(t)
  OBVIOUS
<1>2. SubSeq(t, i, Len(t)) = <<t[i]>> \o SubSeq(t, i + 1, Len(t))
  BY <1>1, SubSeqRecursiveFirst
<1> QED
  BY <1>1, <1>2 DEF From

LEMMA CodesMark ==
  ASSUME NEW e \in Seq(Byte), NEW t \in Seq(Byte), NEW pos, IsCoded(e, t, pos)
  PROVE  Marks(pos, Len(t), Len(e))
BY CodesGrow DEF IsCoded, Marks

LEMMA DecodesBack ==
  ASSUME NEW e \in Seq(Byte), NEW t \in Seq(Byte), NEW pos, Marks(pos, Len(t), Len(e)),
         NEW put, NEW next, NEW g, Jumps(g, Len(e), put, next), ReadsCodes(t, pos, put, next)
  PROVE  g[1] = t
<1> DEFINE n == Len(t)
           P == {i \in 1 .. n + 1 : g[pos[i - 1] + 1] = From(t, i - 1)}
<1>1. n \in Nat /\ pos[0] = 0 /\ pos[n] = Len(e)
  BY DEF Marks
<1>2. n + 1 \in P
  <2>1. From(t, n) = <<>>
    <3>1. n < n + 1 /\ n + 1 \in Int /\ n \in Int
      BY <1>1
    <3>2. SubSeq(t, n + 1, n) = <<>>
      BY <3>1, SubSeqEmpty
    <3> QED
      BY <3>2 DEF From
  <2>2. g[Len(e) + 1] = <<>>
    BY DEF Jumps, GoesOn
  <2>3. (n + 1) - 1 = n /\ n + 1 \in 1 .. n + 1
    BY <1>1
  <2> HIDE DEF n
  <2> QED
    BY <1>1, <2>1, <2>2, <2>3
<1>3. ASSUME NEW i \in 1 .. n, \A j \in i + 1 .. n + 1 : j \in P PROVE i \in P
  <2>1. i + 1 \in i + 1 .. n + 1 /\ (i + 1) - 1 = i /\ i \in 1 .. n + 1
    BY <1>1
  <2>2. g[pos[i] + 1] = From(t, i)
    BY <1>3, <2>1
  <2>3. pos[i - 1] + 1 \in 1 .. Len(e)
    <3>1. i - 1 \in 0 .. n /\ i \in 0 .. n
      BY <1>1
    <3>2. pos[i - 1] \in 0 .. Len(e) /\ pos[i] \in 0 .. Len(e) /\ pos[i - 1] < pos[i]
      BY <3>1 DEF Marks
    <3> QED
      BY <3>2
  <2>4. g[pos[i - 1] + 1] = <<t[i]>> \o g[pos[i] + 1]
    BY <2>3 DEF Jumps, GoesOn, ReadsCodes
  <2>5. From(t, i - 1) = <<t[i]>> \o From(t, i)
    BY FromFirst
  <2>6. g[pos[i - 1] + 1] = From(t, i - 1)
    BY <2>2, <2>4, <2>5
  <2> QED
    BY <2>1, <2>6
<1> HIDE DEF P, n
<1>4. 1 .. n + 1 \subseteq P
  BY <1>1, <1>2, <1>3, BackwardInduction
<1>5. 1 \in 1 .. n + 1
  BY <1>1
<1>6. 1 \in P
  BY <1>4, <1>5
<1>7. g[pos[0] + 1] = From(t, 0)
  BY <1>6 DEF P
<1>8. From(t, 0) = t
  BY SubSeqFull DEF From
<1> QED
  BY <1>1, <1>7, <1>8

LEMMA DecodeReadsCodes ==
  ASSUME NEW e \in Seq(Byte), NEW t \in Seq(Byte), NEW pos, IsCoded(e, t, pos)
  PROVE  ReadsCodes(t, pos, DecodePut(e), DecodeNext(e))
<1> SUFFICES ASSUME NEW i \in 1 .. Len(t)
             PROVE  /\ DecodePut(e)[pos[i - 1] + 1] = <<t[i]>>
                    /\ DecodeNext(e)[pos[i - 1] + 1] = pos[i] + 1
  BY DEF ReadsCodes
<1> DEFINE p == pos[i - 1]
           q == pos[i]
           c == t[i]
<1>1. p \in 0 .. Len(e) - 1 /\ CodeAt(e, p, q, c) /\ c \in Byte
  <2>1. pos[i - 1] \in 0 .. Len(e) - 1
    BY CodesGrow
  <2>2. CodeAt(e, pos[i - 1], pos[i], t[i])
    BY DEF IsCoded
  <2>3. t[i] \in Byte
    OBVIOUS
  <2> QED
    BY <2>1, <2>2, <2>3
<1> HIDE DEF p, q, c
<1>2. /\ DecodePut(e)[p + 1] =
            IF IsEnd(e, p + 1) THEN <<>>
            ELSE IF e[p + 1] = Ch.plus THEN <<Ch.space>>
            ELSE IF IsEscape(e, p + 1) THEN <<Escaped(e, p + 1)>>
            ELSE IF e[p + 1] = Ch.percent THEN <<>> ELSE <<e[p + 1]>>
      /\ DecodeNext(e)[p + 1] =
            IF IsEnd(e, p + 1) THEN Len(e) + 1
            ELSE IF e[p + 1] = Ch.plus THEN p + 2
            ELSE IF IsEscape(e, p + 1) THEN p + 4
            ELSE IF e[p + 1] = Ch.percent THEN Len(e) + 1 ELSE p + 2
  BY <1>1 DEF DecodePut, DecodeNext
<1>3. CASE q = p + 1 /\ e[q] = c /\ c \notin {Ch.percent, Ch.plus}
  <2>1. ~IsEscape(e, p + 1) /\ ~IsEnd(e, p + 1)
    BY <1>3 DEF IsEscape, IsEnd
  <2> QED
    BY <1>1, <1>2, <1>3, <2>1 DEF p, q, c
<1>4. CASE q = p + 1 /\ e[q] = Ch.plus /\ c = Ch.space
  <2>1. ~IsEnd(e, p + 1)
    BY <1>4 DEF IsEscape, IsEnd, Ch
  <2> QED
    BY <1>1, <1>2, <1>4, <2>1 DEF p, q, c
<1>5. CASE q = p + 3 /\ IsEscape(e, p + 1) /\ Escaped(e, p + 1) = c /\ c # 0
  <2>1. e[p + 1] # Ch.plus /\ ~IsEnd(e, p + 1)
    BY <1>5 DEF IsEscape, IsEnd, Ch
  <2> QED
    BY <1>1, <1>2, <1>5, <2>1 DEF p, q, c
<1> QED
  BY <1>1, <1>3, <1>4, <1>5 DEF CodeAt

LEMMA DecodeOfCode ==
  ASSUME NEW e \in Seq(Byte), NEW t \in Seq(Byte), NEW pos, IsCoded(e, t, pos),
         NEW max \in Nat, Len(t) <= max
  PROVE  urldecode(e, max) = t
<1>1. PICK f : /\ Decodes(f, e)
               /\ \A m : urldecode(e, m) =
                    SubSeq(f[1], 1, IF Len(f[1]) < m THEN Len(f[1]) ELSE m)
  BY DecodeRecursion
<1>2. Jumps(f, Len(e), DecodePut(e), DecodeNext(e))
  BY <1>1 DEF Decodes
<1>3. f[1] = t
  BY <1>2, DecodeReadsCodes, CodesMark, DecodesBack
<1>4. urldecode(e, max) = SubSeq(t, 1, IF Len(t) < max THEN Len(t) ELSE max)
  BY <1>1, <1>3
<1>5. (IF Len(t) < max THEN Len(t) ELSE max) = Len(t)
  OBVIOUS
<1> QED
  BY <1>4, <1>5, SubSeqFull

\* A text is its own code if nothing in it is special.
LEMMA LiteralIsCode ==
  ASSUME NEW t \in Seq(Byte), \A i \in 1 .. Len(t) : t[i] \notin {Ch.percent, Ch.plus}
  PROVE  \E pos : IsCoded(t, t, pos)
<1> DEFINE n == Len(t)
           pos == [i \in 0 .. n |-> i]
<1>1. n \in Nat
  OBVIOUS
<1>2. pos \in [0 .. n -> 0 .. n] /\ pos[0] = 0 /\ pos[n] = n
  BY <1>1
<1>3. ASSUME NEW i \in 1 .. n PROVE CodeAt(t, pos[i - 1], pos[i], t[i])
  <2>1. pos[i] = pos[i - 1] + 1 /\ pos[i] = i
    BY <1>1
  <2>2. t[i] \notin {Ch.percent, Ch.plus}
    OBVIOUS
  <2> HIDE DEF pos
  <2> QED
    BY <2>1, <2>2 DEF CodeAt
<1> HIDE DEF pos
<1>4. IsCoded(t, t, pos)
  BY <1>2, <1>3 DEF IsCoded
<1> QED
  BY <1>4

-------------------------------------------------------------------------------
\* Mongoose's decoder.
UrlPut(text) ==
  [i \in 1 .. Len(text) |-> IF IsEnd(text, i) THEN <<>>
                            ELSE IF IsEscape(text, i) THEN <<Escaped(text, i)>>
                            ELSE <<text[i]>>]
UrlNext(text) ==
  [i \in 1 .. Len(text) |-> IF IsEnd(text, i) THEN Len(text) + 1
                            ELSE IF IsEscape(text, i) THEN i + 3
                            ELSE i + 1]

LEMMA UrlTypes ==
  ASSUME NEW text \in Seq(Byte)
  PROVE  /\ UrlPut(text) \in [1 .. Len(text) -> Seq(Byte)]
         /\ Forward(UrlNext(text), Len(text))
<1>1. \A i \in 1 .. Len(text) : IsEscape(text, i) => Escaped(text, i) \in Byte /\ i + 2 <= Len(text)
  BY EscapedType
<1>2. \A c \in Byte : <<c>> \in Seq(Byte)
  OBVIOUS
<1>3. UrlPut(text) \in [1 .. Len(text) -> Seq(Byte)]
  <2>1. \A i \in 1 .. Len(text) : text[i] \in Byte
    OBVIOUS
  <2> QED
    BY <1>1, <1>2, <2>1 DEF UrlPut
<1>4. Forward(UrlNext(text), Len(text))
  BY <1>1 DEF UrlNext, Forward
<1> QED
  BY <1>3, <1>4

LEMMA UrlRecursion ==
  ASSUME NEW text \in Seq(Byte)
  PROVE  \E f : Jumps(f, Len(text), UrlPut(text), UrlNext(text)) /\ url_decode(text) = f[1]
<1> DEFINE n == Len(text)
           put == UrlPut(text)
           next == UrlNext(text)
           Def(f, i) == IF i > n \/ (IsEscape(text, i) /\ Escaped(text, i) = 0) THEN <<>>
                        ELSE IF IsEscape(text, i) THEN <<Escaped(text, i)>> \o f[i + 3]
                        ELSE <<text[i]>> \o f[i + 1]
           fs == CHOOSE f : f = [i \in 1 .. n + 1 |-> Def(f, i)]
<1>1. n \in Nat
  OBVIOUS
<1>2. put \in [1 .. n -> Seq(Byte)] /\ Forward(next, n)
  BY UrlTypes
<1>3. PICK f : Jumps(f, n, put, next)
  <2> HIDE DEF n, put, next
  <2> QED
    BY <1>1, <1>2, JumpsExist
<1>4. f \in [1 .. n + 1 -> Seq(Byte)] /\ GoesOn(f, n, put, next)
  BY <1>3 DEF Jumps
<1>5. ASSUME NEW g, g[n + 1] = <<>>, NEW i \in 1 .. n
      PROVE  Def(g, i) = put[i] \o g[next[i]]
  <2>1. ~(i > n)
    BY <1>1
  <2>2. CASE IsEscape(text, i) /\ ~IsEnd(text, i)
    <3>1. put[i] = <<Escaped(text, i)>> /\ next[i] = i + 3
      BY <2>2 DEF UrlPut, UrlNext
    <3> QED
      BY <2>1, <2>2, <3>1 DEF IsEnd
  <2>4. CASE IsEnd(text, i)
    <3>1. put[i] = <<>> /\ next[i] = n + 1
      BY <2>4 DEF UrlPut, UrlNext
    <3>2. <<>> \o <<>> = <<>>
      BY EmptySeq, ConcatEmptySeq
    <3> QED
      BY <1>5, <2>4, <3>1, <3>2 DEF IsEnd
  <2>3. CASE ~IsEscape(text, i)
    <3>1. put[i] = <<text[i]>> /\ next[i] = i + 1
      BY <2>3 DEF UrlPut, UrlNext, IsEnd
    <3> QED
      BY <2>1, <2>3, <3>1
  <2> QED
    BY <2>2, <2>3, <2>4 DEF IsEnd
<1>6. f = [i \in 1 .. n + 1 |-> Def(f, i)]
  <2>1. ASSUME NEW i \in 1 .. n + 1 PROVE f[i] = Def(f, i)
    <3>1. CASE i = n + 1
      BY <1>1, <1>4, <3>1 DEF GoesOn
    <3>2. CASE i # n + 1
      <4>1. i \in 1 .. n
        BY <1>1, <3>2
      <4> HIDE DEF Def, n, put, next
      <4> QED
        BY <1>4, <1>5, <4>1 DEF GoesOn
    <3> QED
      BY <3>1, <3>2
  <2> HIDE DEF Def, n
  <2> QED
    BY <1>4, <2>1
<1>7. fs = [i \in 1 .. n + 1 |-> Def(fs, i)]
  <2> HIDE DEF Def, n
  <2> QED
    BY <1>6
<1>8. url_decode(text) = fs[1]
  BY DEF url_decode
<1> HIDE DEF fs
<1>9. GoesOn(fs, n, put, next)
  <2>1. n + 1 \in 1 .. n + 1 /\ n + 1 > n /\ \A i \in 1 .. n : i \in 1 .. n + 1
    BY <1>1
  <2>2. \A i \in 1 .. n + 1 : fs[i] = Def(fs, i)
    <3> HIDE DEF Def, n
    <3> QED
      BY <1>7
  <2>3. fs[n + 1] = <<>>
    BY <2>1, <2>2
  <2> HIDE DEF Def, n, put, next
  <2>4. \A i \in 1 .. n : fs[i] = put[i] \o fs[next[i]]
    BY <1>5, <2>1, <2>2, <2>3
  <2> QED
    BY <2>3, <2>4 DEF GoesOn
<1> HIDE DEF n, put, next
<1>10. SameOn(fs, f, n)
  BY <1>1, <1>2, <1>3, <1>9, JumpsAgree
<1>11. fs[1] = f[1]
  BY <1>1, <1>10 DEF SameOn
<1> QED
  BY <1>3, <1>8, <1>11 DEF n, put, next

\* It reads the codes of a text too, unless a '+' stands for a space.
LEMMA UrlReadsCodes ==
  ASSUME NEW e \in Seq(Byte), NEW t \in Seq(Byte \ {Ch.space}), NEW pos, IsCoded(e, t, pos)
  PROVE  url_decode(e) = t
<1>1. t \in Seq(Byte) /\ \A i \in 1 .. Len(t) : t[i] # Ch.space
  <2>1. Byte \ {Ch.space} \subseteq Byte
    OBVIOUS
  <2>2. t \in Seq(Byte)
    BY <2>1, SeqMonotonic
  <2> QED
    BY <2>2
<1>2. ASSUME NEW i \in 1 .. Len(t)
      PROVE  /\ UrlPut(e)[pos[i - 1] + 1] = <<t[i]>>
             /\ UrlNext(e)[pos[i - 1] + 1] = pos[i] + 1
  <2> DEFINE p == pos[i - 1]
             q == pos[i]
             c == t[i]
  <2>1. p \in 0 .. Len(e) - 1
    BY <1>1, CodesGrow
  <2>2. CodeAt(e, p, q, c)
    BY DEF IsCoded
  <2>3. c # Ch.space
    BY <1>1
  <2> HIDE DEF p, q, c
  <2>4. ~IsEnd(e, p + 1) =>
          /\ UrlPut(e)[p + 1] = IF IsEscape(e, p + 1) THEN <<Escaped(e, p + 1)>> ELSE <<e[p + 1]>>
          /\ UrlNext(e)[p + 1] = IF IsEscape(e, p + 1) THEN p + 4 ELSE p + 2
    <3>1. p + 1 \in 1 .. Len(e) /\ p + 1 + 3 = p + 4 /\ p + 1 + 1 = p + 2
      BY <2>1
    <3> QED
      BY <3>1 DEF UrlPut, UrlNext
  <2>5. CASE q = p + 1 /\ e[q] = c /\ c \notin {Ch.percent, Ch.plus}
    <3>1. ~IsEscape(e, p + 1) /\ ~IsEnd(e, p + 1)
      BY <2>5 DEF IsEscape, IsEnd
    <3> QED
      BY <2>1, <2>4, <2>5, <3>1 DEF p, q, c
  <2>6. CASE q = p + 3 /\ IsEscape(e, p + 1) /\ Escaped(e, p + 1) = c /\ c # 0
    <3>1. ~IsEnd(e, p + 1)
      BY <2>6 DEF IsEnd
    <3> QED
      BY <2>1, <2>4, <2>6, <3>1 DEF p, q, c
  <2> QED
    BY <2>2, <2>3, <2>5, <2>6 DEF CodeAt
<1>3. ReadsCodes(t, pos, UrlPut(e), UrlNext(e))
  BY <1>2 DEF ReadsCodes
<1>4. PICK f : Jumps(f, Len(e), UrlPut(e), UrlNext(e)) /\ url_decode(e) = f[1]
  BY UrlRecursion
<1>5. Marks(pos, Len(t), Len(e))
  BY <1>1, CodesMark
<1>6. f[1] = t
  BY <1>1, <1>3, <1>4, <1>5, DecodesBack
<1> QED
  BY <1>4, <1>6

-------------------------------------------------------------------------------
\* What url_encode writes.

LEMMA HexDigitValue ==
  ASSUME NEW d \in 0 .. 15
  PROVE  HexDigit(d) \in Byte /\ HexValue(HexDigit(d)) = d
<1>1. CASE d < 10
  <2>1. HexDigit(d) = 48 + d /\ 48 + d \in 48 .. 57
    BY <1>1 DEF HexDigit, Ch
  <2> QED
    BY <2>1 DEF HexValue, Byte
<1>2. CASE d >= 10
  <2> DEFINE h == 87 + d
  <2>1. HexDigit(d) = h /\ h \in 97 .. 102 /\ h - 87 = d
    BY <1>2 DEF HexDigit, Ch
  <2> HIDE DEF h
  <2>2. h \notin 48 .. 57 /\ h \notin 65 .. 70
    BY <2>1
  <2>3. HexValue(h) = h - 87
    BY <2>1, <2>2 DEF HexValue
  <2> QED
    BY <2>1, <2>3 DEF Byte
<1> QED
  BY <1>1, <1>2

\* Where a text holds another one.
HasAt(e, p, u) == p + Len(u) <= Len(e) /\ \A k \in 1 .. Len(u) : e[p + k] = u[k]

LEMMA UrlEncodeByteCases ==
  ASSUME NEW c \in Byte
  PROVE  \/ UrlEncodeByte(c) = <<c>> /\ c \notin {Ch.percent, Ch.plus}
         \/ UrlEncodeByte(c) = <<Ch.plus>> /\ c = Ch.space
         \/ UrlEncodeByte(c) = <<Ch.percent, HexDigit(c \div 16), HexDigit(c % 16)>>
<1>1. CASE IsAlnum(c) \/ c \in {45, 95, Ch.dot, 126}
  <2>1. UrlEncodeByte(c) = <<c>>
    <3>1. c # Ch.space
      BY <1>1 DEF IsAlnum, Ch
    <3> QED
      BY <1>1, <3>1, Zenon DEF UrlEncodeByte
  <2>2. c \notin {Ch.percent, Ch.plus}
    BY <1>1 DEF IsAlnum, Ch
  <2> QED
    BY <2>1, <2>2
<1>2. CASE ~(IsAlnum(c) \/ c \in {45, 95, Ch.dot, 126}) /\ c = Ch.space
  <2>1. UrlEncodeByte(c) = <<Ch.plus>>
    BY <1>2, Zenon DEF UrlEncodeByte
  <2> QED
    BY <1>2, <2>1
<1>3. CASE ~(IsAlnum(c) \/ c \in {45, 95, Ch.dot, 126}) /\ c # Ch.space
  <2>1. UrlEncodeByte(c) = <<Ch.percent, HexDigit(c \div 16), HexDigit(c % 16)>>
    BY <1>3, Zenon DEF UrlEncodeByte
  <2> QED
    BY <2>1
<1> QED
  BY <1>1, <1>2, <1>3

LEMMA HexOfByte ==
  ASSUME NEW c \in Byte
  PROVE  /\ HexDigit(c \div 16) \in Byte /\ HexDigit(c % 16) \in Byte
         /\ HexValue(HexDigit(c \div 16)) \in Nat /\ HexValue(HexDigit(c % 16)) \in Nat
         /\ 16 * HexValue(HexDigit(c \div 16)) + HexValue(HexDigit(c % 16)) = c
<1> DEFINE d == c \div 16
           r == c % 16
<1>1. d \in 0 .. 15 /\ r \in 0 .. 15 /\ (16 * d) + r = c
  BY DEF Byte
<1> HIDE DEF d, r
<1>2. /\ HexDigit(d) \in Byte /\ HexValue(HexDigit(d)) = d
      /\ HexDigit(r) \in Byte /\ HexValue(HexDigit(r)) = r
  BY <1>1, HexDigitValue
<1>3. /\ HexValue(HexDigit(d)) \in Nat /\ HexValue(HexDigit(r)) \in Nat
      /\ 16 * HexValue(HexDigit(d)) + HexValue(HexDigit(r)) = c
  BY <1>1, <1>2
<1> QED
  BY <1>2, <1>3 DEF d, r

\* The escape of a byte is three bytes, and what it stands for is that byte.
LEMMA UrlEncodeByteType ==
  ASSUME NEW c \in Byte
  PROVE  UrlEncodeByte(c) \in Seq(Byte) /\ Len(UrlEncodeByte(c)) \in {1, 3}
<1> DEFINE h == HexDigit(c \div 16)
           l == HexDigit(c % 16)
           u == UrlEncodeByte(c)
<1>1. h \in Byte /\ l \in Byte
  BY HexOfByte
<1>2. u = <<c>> \/ u = <<Ch.plus>> \/ u = <<Ch.percent, h, l>>
  BY UrlEncodeByteCases
<1>3. Ch.plus \in Byte /\ Ch.percent \in Byte
  BY DEF Ch, Byte
<1> HIDE DEF h, l, u
<1>4. CASE u = <<Ch.percent, h, l>>
  <2>1. <<Ch.percent, h, l>> \in Seq(Byte) /\ Len(<<Ch.percent, h, l>>) = 3
    BY <1>1, <1>3
  <2> QED
    BY <1>4, <2>1 DEF u
<1>5. CASE u = <<c>>
  BY <1>5 DEF u
<1>6. CASE u = <<Ch.plus>>
  BY <1>3, <1>6 DEF u
<1> QED
  BY <1>2, <1>4, <1>5, <1>6

LEMMA EncodedByteIsCode ==
  ASSUME NEW e \in Seq(Byte), NEW p \in Nat, NEW c \in Byte \ {0}, HasAt(e, p, UrlEncodeByte(c))
  PROVE  CodeAt(e, p, p + Len(UrlEncodeByte(c)), c)
<1> DEFINE u == UrlEncodeByte(c)
           h == HexDigit(c \div 16)
           l == HexDigit(c % 16)
<1>1. /\ h \in Byte /\ l \in Byte /\ HexValue(h) \in Nat /\ HexValue(l) \in Nat
      /\ 16 * HexValue(h) + HexValue(l) = c
  BY HexOfByte
<1>2. \/ u = <<c>> /\ c \notin {Ch.percent, Ch.plus}
      \/ u = <<Ch.plus>> /\ c = Ch.space
      \/ u = <<Ch.percent, h, l>>
  BY UrlEncodeByteCases
<1>3. p + Len(u) <= Len(e) /\ \A k \in 1 .. Len(u) : e[p + k] = u[k]
  BY DEF HasAt
<1> HIDE DEF u, h, l
<1>4. CASE u = <<c>> /\ c \notin {Ch.percent, Ch.plus}
  <2>1. Len(u) = 1 /\ e[p + 1] = c
    BY <1>3, <1>4
  <2> QED
    BY <1>4, <2>1 DEF CodeAt, u
<1>5. CASE u = <<Ch.plus>> /\ c = Ch.space
  <2>1. Len(u) = 1 /\ e[p + 1] = Ch.plus
    BY <1>3, <1>5
  <2> QED
    BY <1>5, <2>1 DEF CodeAt, u
<1>6. CASE u = <<Ch.percent, h, l>>
  <2>1. Len(u) = 3 /\ u[1] = Ch.percent /\ u[2] = h /\ u[3] = l
    BY <1>6
  <2>2. p + 3 <= Len(e) /\ e[p + 1] = Ch.percent /\ e[p + 2] = h /\ e[p + 3] = l
    BY <1>3, <2>1
  <2>3. (p + 1) + 1 = p + 2 /\ (p + 1) + 2 = p + 3
    OBVIOUS
  <2>4. IsEscape(e, p + 1)
    BY <1>1, <2>2, <2>3 DEF IsEscape
  <2>5. Escaped(e, p + 1) = 16 * HexValue(h) + HexValue(l)
    BY <2>2, <2>3 DEF Escaped
  <2> QED
    BY <1>1, <2>1, <2>4, <2>5 DEF CodeAt, u
<1> QED
  BY <1>2, <1>4, <1>5, <1>6

LEMMA ConcatHas ==
  ASSUME NEW S, NEW a \in Seq(S), NEW b \in Seq(S)
  PROVE  /\ a \o b \in Seq(S) /\ Len(a \o b) = Len(a) + Len(b)
         /\ HasAt(a \o b, 0, a) /\ HasAt(a \o b, Len(a), b)
<1>1. Len(a) \in Nat /\ Len(b) \in Nat
  OBVIOUS
<1> DEFINE c == a \o b
<1>2. /\ c \in Seq(S) /\ Len(c) = Len(a) + Len(b)
      /\ \A i \in 1 .. Len(a) + Len(b) : c[i] = IF i <= Len(a) THEN a[i] ELSE b[i - Len(a)]
  BY ConcatProperties
<1> HIDE DEF c
<1>3. \A k \in 1 .. Len(a) : c[0 + k] = a[k]
  BY <1>1, <1>2
<1>4. ASSUME NEW k \in 1 .. Len(b) PROVE c[Len(a) + k] = b[k]
  <2>1. /\ Len(a) + k \in 1 .. Len(a) + Len(b) /\ ~(Len(a) + k <= Len(a))
        /\ Len(a) + k - Len(a) = k
    BY <1>1
  <2> QED
    BY <1>2, <2>1
<1>5. HasAt(c, 0, a) /\ HasAt(c, Len(a), b)
  BY <1>1, <1>2, <1>3, <1>4 DEF HasAt
<1> QED
  BY <1>2, <1>5 DEF c

LEMMA HasAtWithin ==
  ASSUME NEW S, NEW a \in Seq(S), NEW b \in Seq(S), NEW c \in Seq(S), NEW p \in Nat,
         HasAt(c, 0, b), HasAt(b, p, a)
  PROVE  HasAt(c, p, a) /\ Len(b) <= Len(c)
<1>1. Len(a) \in Nat /\ Len(b) \in Nat /\ Len(c) \in Nat
  OBVIOUS
<1>2. /\ 0 + Len(b) <= Len(c) /\ \A k \in 1 .. Len(b) : c[0 + k] = b[k]
      /\ p + Len(a) <= Len(b) /\ \A k \in 1 .. Len(a) : b[p + k] = a[k]
  BY DEF HasAt
<1>3. ASSUME NEW k \in 1 .. Len(a) PROVE c[p + k] = a[k]
  <2>1. p + k \in 1 .. Len(b) /\ 0 + (p + k) = p + k
    BY <1>1, <1>2
  <2> QED
    BY <1>2, <2>1
<1> QED
  BY <1>1, <1>2, <1>3 DEF HasAt

\* f[i] are the first i of the n texts g, put end to end.
Grows(f, g, n) == \A i \in 1 .. n : f[i] = f[i - 1] \o g[i]

LEMMA GrownPlace ==
  ASSUME NEW S, NEW n \in Nat, NEW f \in [0 .. n -> Seq(S)], NEW g \in [1 .. n -> Seq(S)],
         Grows(f, g, n), NEW i \in 1 .. n
  PROVE  /\ Len(f[i]) = Len(f[i - 1]) + Len(g[i])
         /\ HasAt(f[n], Len(f[i - 1]), g[i])
<1> DEFINE T == {d \in Nat : i + d <= n => HasAt(f[i + d], 0, f[i])}
<1>1. f[i] \in Seq(S) /\ f[i - 1] \in Seq(S) /\ g[i] \in Seq(S)
  OBVIOUS
<1>2. f[i] = f[i - 1] \o g[i]
  BY DEF Grows
<1>3. Len(f[i]) = Len(f[i - 1]) + Len(g[i]) /\ HasAt(f[i], Len(f[i - 1]), g[i])
  BY <1>1, <1>2, ConcatHas
<1>4. 0 \in T
  <2>1. HasAt(f[i], 0, f[i])
    BY <1>1 DEF HasAt
  <2> QED
    BY <2>1
<1>5. ASSUME NEW d \in Nat, d \in T PROVE d + 1 \in T
  <2> SUFFICES ASSUME i + (d + 1) <= n PROVE HasAt(f[i + (d + 1)], 0, f[i])
    OBVIOUS
  <2> DEFINE a == f[i + d]
             b == g[i + (d + 1)]
  <2>1. i + d \in 0 .. n /\ i + (d + 1) \in 1 .. n /\ i + (d + 1) - 1 = i + d
    OBVIOUS
  <2>2. a \in Seq(S) /\ b \in Seq(S)
    BY <2>1
  <2>3. f[i + (d + 1)] = a \o b
    BY <2>1 DEF Grows
  <2>4. HasAt(a, 0, f[i])
    BY <1>5, <2>1
  <2> HIDE DEF a, b
  <2>5. a \o b \in Seq(S) /\ HasAt(a \o b, 0, a)
    BY <2>2, ConcatHas
  <2>6. HasAt(a \o b, 0, f[i])
    BY <1>1, <2>2, <2>4, <2>5, HasAtWithin
  <2> QED
    BY <2>3, <2>6
<1>6. n - i \in Nat /\ i + (n - i) = n /\ f[n] \in Seq(S) /\ Len(f[i - 1]) \in Nat
  BY <1>1
<1>7. n - i \in T
  <2> HIDE DEF T
  <2> QED
    BY <1>4, <1>5, <1>6, SetInduction
<1>8. HasAt(f[n], 0, f[i])
  BY <1>6, <1>7
<1>9. HasAt(f[n], Len(f[i - 1]), g[i])
  BY <1>1, <1>3, <1>6, <1>8, HasAtWithin
<1> QED
  BY <1>3, <1>9

LEMMA UrlEncodedIsCode ==
  ASSUME NEW t \in Seq(Byte), \A i \in 1 .. Len(t) : t[i] # 0
  PROVE  /\ url_encode(t) \in Seq(Byte) /\ Len(url_encode(t)) <= 3 * Len(t)
         /\ \E pos : IsCoded(url_encode(t), t, pos)
<1> DEFINE n == Len(t)
           seqs == [i \in DOMAIN t |-> UrlEncodeByte(t[i])]
           e == url_encode(t)
<1>1. n \in Nat /\ DOMAIN t = 1 .. n /\ \A i \in 1 .. n : t[i] \in Byte
  OBVIOUS
<1>2. \A i \in 1 .. n : UrlEncodeByte(t[i]) \in Seq(Byte)
  BY <1>1, UrlEncodeByteType
<1>3. seqs \in Seq(Seq(Byte)) /\ Len(seqs) = n /\ \A i \in 1 .. n : seqs[i] = UrlEncodeByte(t[i])
  BY <1>1, <1>2
<1>4. e = FlattenSeq(seqs)
  BY DEF url_encode
<1> HIDE DEF n, seqs, e
<1>5. PICK f : Flattens(f, seqs, Byte)
  BY <1>3, FlattenRecursion
<1>6. f \in [0 .. n -> Seq(Byte)] /\ f[0] = <<>> /\ e = f[n]
  BY <1>3, <1>4, <1>5 DEF Flattens
<1>7. seqs \in [1 .. n -> Seq(Byte)] /\ Grows(f, seqs, n)
  <2>1. \A i \in 1 .. n : f[i] = f[i - 1] \o seqs[i]
    BY <1>3, <1>5 DEF Flattens
  <2>2. Grows(f, seqs, n)
    BY <2>1 DEF Grows
  <2>3. seqs \in [1 .. n -> Seq(Byte)]
    BY <1>1, <1>2 DEF seqs, n
  <2> QED
    BY <2>2, <2>3
<1>8. ASSUME NEW i \in 1 .. n
      PROVE  Len(f[i]) = Len(f[i - 1]) + Len(seqs[i]) /\ HasAt(e, Len(f[i - 1]), seqs[i])
  <2>1. n \in Nat /\ f \in [0 .. n -> Seq(Byte)]
    BY <1>1, <1>6
  <2>2. Len(f[i]) = Len(f[i - 1]) + Len(seqs[i]) /\ HasAt(f[n], Len(f[i - 1]), seqs[i])
    BY <1>7, <2>1, GrownPlace
  <2> QED
    BY <1>6, <2>2
<1>9. e \in Seq(Byte)
  BY <1>1, <1>6
<1> DEFINE pos == [i \in 0 .. n |-> Len(f[i])]
<1>10. \A i \in 0 .. n : Len(f[i]) \in Nat
  BY <1>6
<1>11. ASSUME NEW i \in 1 .. n
       PROVE  /\ Len(f[i]) <= Len(e) /\ Len(f[i]) <= Len(f[i - 1]) + 3
              /\ CodeAt(e, Len(f[i - 1]), Len(f[i]), t[i])
  <2> DEFINE u == UrlEncodeByte(t[i])
             p == Len(f[i - 1])
             q == Len(f[i])
  <2>1. t[i] \in Byte \ {0} /\ u \in Seq(Byte) /\ Len(u) \in {1, 3} /\ p \in Nat
    BY <1>1, <1>10, UrlEncodeByteType DEF n
  <2>2. HasAt(e, p, u) /\ q = p + Len(u)
    BY <1>3, <1>8
  <2>3. CodeAt(e, p, p + Len(u), t[i])
    BY <1>9, <2>1, <2>2, EncodedByteIsCode
  <2>4. p + Len(u) <= Len(e)
    BY <2>2 DEF HasAt
  <2> HIDE DEF u, p, q
  <2>5. q <= Len(e) /\ q <= p + 3
    <3> DEFINE k == Len(u)
               m == Len(e)
    <3>1. m \in Nat /\ k \in {1, 3} /\ p \in Nat
      BY <1>9, <2>1
    <3>2. q = p + k /\ p + k <= m
      BY <2>2, <2>4
    <3> HIDE DEF k, m
    <3>3. q <= m /\ q <= p + 3
      BY <3>1, <3>2
    <3> QED
      BY <3>3 DEF m
  <2>6. CodeAt(e, p, q, t[i])
    BY <2>2, <2>3
  <2> QED
    BY <2>5, <2>6 DEF p, q
<1>12. IsCoded(e, t, pos)
  <2>1. Len(f[0]) = 0 /\ Len(f[n]) = Len(e)
    BY <1>6
  <2>2. \A i \in 0 .. n : Len(f[i]) \in 0 .. Len(e)
    BY <1>1, <1>9, <1>10, <1>11, <2>1
  <2>3. pos \in [0 .. n -> 0 .. Len(e)] /\ pos[0] = 0 /\ pos[n] = Len(e)
    BY <1>1, <2>1, <2>2
  <2>4. \A i \in 1 .. n : CodeAt(e, pos[i - 1], pos[i], t[i])
    BY <1>1, <1>11
  <2> HIDE DEF pos
  <2> QED
    BY <2>3, <2>4 DEF IsCoded, n
<1>13. Len(e) <= 3 * n
  <2> DEFINE T == {i \in Nat : i <= n => Len(f[i]) <= 3 * i}
  <2>1. 0 \in T
    BY <1>6
  <2>2. ASSUME NEW i \in Nat, i \in T PROVE i + 1 \in T
    <3> SUFFICES ASSUME i + 1 <= n PROVE Len(f[i + 1]) <= 3 * (i + 1)
      OBVIOUS
    <3>1. i + 1 \in 1 .. n /\ (i + 1) - 1 = i /\ i \in 0 .. n /\ i + 1 \in 0 .. n
      BY <1>1
    <3>2. Len(f[i]) \in Nat /\ Len(f[i + 1]) \in Nat
      BY <1>10, <3>1
    <3>3. Len(f[i + 1]) <= Len(f[i]) + 3
      BY <1>11, <3>1
    <3>4. Len(f[i]) <= 3 * i
      BY <2>2, <3>1
    <3> QED
      BY <3>2, <3>3, <3>4
  <2>3. n \in T
    <3> HIDE DEF T
    <3> QED
      BY <1>1, <2>1, <2>2, SetInduction
  <2> QED
    BY <1>1, <1>6, <2>3
<1> QED
  BY <1>9, <1>12, <1>13 DEF n, e

-------------------------------------------------------------------------------
\* The path of a URI.

\* The first bytes of text that are in chars, and not the one after them.
LEMMA SpanExact ==
  ASSUME NEW text \in Seq(Byte), NEW chars
  PROVE  /\ Len(Span(text, chars)) \in 0 .. Len(text)
         /\ \A i \in 1 .. Len(Span(text, chars)) : text[i] \in chars
         /\ Len(Span(text, chars)) < Len(text) => text[Len(Span(text, chars)) + 1] \notin chars
<1> DEFINE I == {i \in 1 .. Len(text) : text[i] \notin chars}
           stop == IF I # {} THEN Min(I) ELSE 0
<1>1. Span(text, chars) = IF stop = 0 THEN text ELSE SubSeq(text, 1, stop - 1)
  BY DEF Span, SelectInSeq
<1>2. I \subseteq 1 .. Len(text) /\ Len(text) \in Nat /\ \A i \in I : text[i] \notin chars
  OBVIOUS
<1>3. \A i \in 1 .. Len(text) : i \notin I => text[i] \in chars
  OBVIOUS
<1> HIDE DEF I
<1>4. CASE I = {}
  <2>1. Span(text, chars) = text
    BY <1>1, <1>4
  <2> QED
    BY <1>2, <1>3, <1>4, <2>1
<1>5. CASE I # {}
  <2>1. Min(I) \in I /\ \A i \in I : Min(I) <= i
    <3>1. I \subseteq Nat
      BY <1>2
    <3> QED
      BY <1>5, <3>1, MinProperties
  <2> DEFINE m == Min(I)
  <2>2. m \in 1 .. Len(text) /\ text[m] \notin chars /\ \A i \in 1 .. m - 1 : text[i] \in chars
    <3>1. m \in I /\ m \in 1 .. Len(text) /\ \A i \in I : m <= i
      BY <1>2, <2>1
    <3> HIDE DEF m
    <3>2. text[m] \notin chars
      BY <1>2, <3>1
    <3>3. ASSUME NEW i \in 1 .. m - 1 PROVE text[i] \in chars
      <4>1. i \in 1 .. Len(text) /\ ~(m <= i)
        BY <1>2, <3>1
      <4> QED
        BY <1>3, <3>1, <4>1
    <3> QED
      BY <3>1, <3>2, <3>3
  <2>3. Span(text, chars) = SubSeq(text, 1, m - 1)
    BY <1>1, <1>5, <2>2
  <2> HIDE DEF m
  <2>4. Len(SubSeq(text, 1, m - 1)) = m - 1
    BY <1>2, <2>2
  <2> QED
    BY <1>2, <2>2, <2>3, <2>4
<1> QED
  BY <1>4, <1>5

LEMMA SpanIs ==
  ASSUME NEW text \in Seq(Byte), NEW chars, NEW k \in 0 .. Len(text),
         \A i \in 1 .. k : text[i] \in chars,
         k < Len(text) => text[k + 1] \notin chars
  PROVE  Span(text, chars) = SubSeq(text, 1, k)
<1> DEFINE I == {i \in 1 .. Len(text) : text[i] \notin chars}
           stop == IF I # {} THEN Min(I) ELSE 0
<1>1. Span(text, chars) = IF stop = 0 THEN text ELSE SubSeq(text, 1, stop - 1)
  BY DEF Span, SelectInSeq
<1>2. Len(text) \in Nat /\ I \subseteq Nat
  OBVIOUS
<1>3. k < Len(text) => k + 1 \in I
  BY <1>2
<1>4. \A i \in I : i \in k + 1 .. Len(text)
  BY <1>2
<1> HIDE DEF I
<1>5. CASE k = Len(text)
  <2>1. I = {}
    <3> SUFFICES ASSUME NEW i \in I PROVE FALSE
      OBVIOUS
    <3>1. i \in k + 1 .. Len(text)
      BY <1>4
    <3> QED
      BY <1>2, <1>5, <3>1
  <2>2. SubSeq(text, 1, k) = text
    BY <1>5, SubSeqFull
  <2> QED
    BY <1>1, <2>1, <2>2
<1>6. CASE k # Len(text)
  <2>1. k < Len(text) /\ k + 1 \in I
    BY <1>2, <1>3, <1>6
  <2>2. Min(I) \in I /\ \A y \in I : Min(I) <= y
    BY <1>2, <2>1, MinProperties
  <2>3. Min(I) = k + 1
    <3>1. Min(I) \in k + 1 .. Len(text) /\ Min(I) <= k + 1
      BY <1>4, <2>1, <2>2
    <3> QED
      BY <1>2, <3>1
  <2>4. stop = k + 1
    BY <2>1, <2>3
  <2> HIDE DEF stop
  <2>5. Span(text, chars) = SubSeq(text, 1, stop - 1) /\ stop - 1 = k
    BY <1>1, <2>4
  <2> QED
    BY <2>5
<1> QED
  BY <1>5, <1>6

\* The query is what follows the first '?'.
LEMMA QueryCutOff ==
  ASSUME NEW t \in Seq(Byte), \A i \in 1 .. Len(t) : t[i] # Ch.question,
         NEW q \in Seq(Byte), q # <<>>, q[1] = Ch.question
  PROVE  Span(t \o q, Byte \ {Ch.question}) = t
<1> DEFINE w == t \o q
           k == Len(t)
<1>1. k \in Nat /\ Len(q) \in Nat /\ Len(q) > 0
  OBVIOUS
<1>2. /\ w \in Seq(Byte) /\ Len(w) = k + Len(q)
      /\ \A i \in 1 .. k : w[i] = t[i]
      /\ w[k + 1] = q[1]
  BY <1>1, ConcatProperties
<1>3. \A i \in 1 .. k : t[i] \in Byte \ {Ch.question}
  OBVIOUS
<1>4. SubSeq(w, 1, k) = t
  <2>1. SubSeq(w, 1, k) \in Seq(Byte) /\ Len(SubSeq(w, 1, k)) = k
        /\ \A i \in 1 .. k : SubSeq(w, 1, k)[i] = w[i]
    BY <1>1, <1>2
  <2> HIDE DEF w
  <2> QED
    BY <1>2, <2>1
<1> HIDE DEF w, k
<1>5. k \in 0 .. Len(w)
  BY <1>1, <1>2
<1>6. Span(w, Byte \ {Ch.question}) = SubSeq(w, 1, k)
  BY <1>2, <1>3, <1>5, SpanIs
<1> QED
  BY <1>4, <1>6 DEF w

\* A text without anything special is what it is decoded to.
LEMMA DecodedLiteral ==
  ASSUME NEW t \in Seq(Byte),
         \A i \in 1 .. Len(t) : t[i] \notin {Ch.space, Ch.percent, Ch.plus}
  PROVE  url_decode(t) = t
<1>1. PICK pos : IsCoded(t, t, pos)
  BY LiteralIsCode
<1>2. \A i \in 1 .. Len(t) : t[i] \in Byte \ {Ch.space}
  OBVIOUS
<1>3. t \in Seq(Byte \ {Ch.space})
  BY <1>2
<1> QED
  BY <1>1, <1>3, UrlReadsCodes

LEMMA AfterSlashesPlace ==
  ASSUME NEW uri \in Seq(Byte), NEW i \in 1 .. Len(uri) + 1
  PROVE  /\ AfterSlashes(uri, i) \in i .. Len(uri) + 1
         /\ AfterSlashes(uri, i) <= Len(uri) => ~IsSlash(uri[AfterSlashes(uri, i)])
         /\ i <= Len(uri) /\ ~IsSlash(uri[i]) => AfterSlashes(uri, i) = i
<1> DEFINE J == {j \in i .. Len(uri) + 1 : j > Len(uri) \/ ~IsSlash(uri[j])}
<1>1. Len(uri) \in Nat /\ Len(uri) + 1 \in J /\ J \subseteq Nat
  OBVIOUS
<1>2. \A j \in J : j \in i .. Len(uri) + 1 /\ (j <= Len(uri) => ~IsSlash(uri[j]))
  BY <1>1
<1>3. i <= Len(uri) /\ ~IsSlash(uri[i]) => i \in J
  OBVIOUS
<1>4. AfterSlashes(uri, i) = Min(J)
  BY DEF AfterSlashes
<1> HIDE DEF J
<1>5. J # {}
  BY <1>1
<1>6. Min(J) \in J /\ \A j \in J : Min(J) <= j
  BY <1>1, <1>5, MinProperties
<1> QED
  BY <1>2, <1>3, <1>4, <1>6

\* Two dots begin at i.
DotsAt(text, i) == i + 1 <= Len(text) /\ text[i] = Ch.dot /\ text[i + 1] = Ch.dot

LEMMA AfterDoubleDotsPlace ==
  ASSUME NEW uri \in Seq(Byte), NEW i \in 1 .. Len(uri) + 1
  PROVE  /\ AfterDoubleDots(uri, i) \in i .. Len(uri) + 1
         /\ ~DotsAt(uri, AfterDoubleDots(uri, i))
         /\ ~DotsAt(uri, i) => AfterDoubleDots(uri, i) = i
<1> DEFINE n == Len(uri)
           t == From(uri, i - 1)
           d == Len(Span(t, {Ch.dot}))
           k == i + 2 * (d \div 2)
<1>1. n \in Nat /\ i \in 1 .. n + 1
  OBVIOUS
<1>2. t \in Seq(Byte) /\ Len(t) = n - i + 1 /\ \A j \in 1 .. n - i + 1 : t[j] = uri[i + j - 1]
  <2>1. \A j \in i .. n : uri[j] \in Byte
    BY <1>1
  <2>2. t = SubSeq(uri, i, n)
    BY <1>1 DEF From
  <2> HIDE DEF t, n
  <2>3. /\ SubSeq(uri, i, n) \in Seq(Byte)
        /\ Len(SubSeq(uri, i, n)) = IF i <= n THEN n - i + 1 ELSE 0
        /\ \A j \in 1 .. n - i + 1 : SubSeq(uri, i, n)[j] = uri[i + j - 1]
    BY <1>1, <2>1, SubSeqProperties
  <2> QED
    BY <1>1, <2>2, <2>3
<1>3. AfterDoubleDots(uri, i) = k
  BY DEF AfterDoubleDots
<1> HIDE DEF t, n
<1>4. /\ d \in 0 .. Len(t) /\ \A j \in 1 .. d : t[j] \in {Ch.dot}
      /\ d < Len(t) => t[d + 1] \notin {Ch.dot}
  BY <1>2, SpanExact
<1> HIDE DEF d
<1>5. /\ d \in 0 .. n - i + 1 /\ (i + d <= n => uri[i + d] # Ch.dot)
      /\ (d >= 2 => uri[i] = Ch.dot /\ uri[i + 1] = Ch.dot)
  <2>1. d \in 0 .. n - i + 1
    BY <1>2, <1>4
  <2>2. ASSUME i + d <= n PROVE uri[i + d] # Ch.dot
    <3>1. d + 1 \in 1 .. n - i + 1 /\ i + (d + 1) - 1 = i + d /\ d < Len(t)
      BY <1>1, <1>2, <2>1, <2>2
    <3>2. t[d + 1] = uri[i + d]
      BY <1>2, <3>1
    <3> QED
      BY <1>4, <3>1, <3>2
  <2>3. ASSUME d >= 2 PROVE uri[i] = Ch.dot /\ uri[i + 1] = Ch.dot
    <3>1. 1 \in 1 .. d /\ 2 \in 1 .. d /\ 1 \in 1 .. n - i + 1 /\ 2 \in 1 .. n - i + 1
      BY <1>1, <2>1, <2>3
    <3>2. t[1] = uri[i + 1 - 1] /\ t[2] = uri[i + 2 - 1] /\ i + 1 - 1 = i /\ i + 2 - 1 = i + 1
      BY <1>1, <1>2, <3>1
    <3> QED
      BY <1>4, <3>1, <3>2
  <2> QED
    BY <2>1, <2>2, <2>3
<1>6. k \in i .. n + 1 /\ (k = i + d \/ k + 1 = i + d)
  BY <1>1, <1>5
<1>7. d < 2 => k = i
  BY <1>1, <1>5
<1> HIDE DEF k
<1>8. ~DotsAt(uri, k)
  BY <1>1, <1>5, <1>6 DEF DotsAt, n
<1>9. ~DotsAt(uri, i) => k = i
  <2>1. d >= 2 => i + 1 <= n
    BY <1>1, <1>5
  <2> QED
    BY <1>5, <1>7, <2>1 DEF DotsAt, n
<1> QED
  BY <1>3, <1>6, <1>8, <1>9 DEF n

\* What the cleaning of a path copies at i, and where it goes on.
CleanPut(uri) == [i \in 1 .. Len(uri) |-> <<uri[i]>>]
CleanNext(uri) ==
  [i \in 1 .. Len(uri) |->
     IF IsSlash(uri[i]) THEN AfterDoubleDots(uri, AfterSlashes(uri, i + 1)) ELSE i + 1]

LEMMA CleanTypes ==
  ASSUME NEW uri \in Seq(Byte)
  PROVE  /\ CleanPut(uri) \in [1 .. Len(uri) -> Seq(Byte)]
         /\ Forward(CleanNext(uri), Len(uri))
<1>1. \A i \in 1 .. Len(uri) : <<uri[i]>> \in Seq(Byte)
  OBVIOUS
<1>2. ASSUME NEW i \in 1 .. Len(uri)
      PROVE  AfterDoubleDots(uri, AfterSlashes(uri, i + 1)) \in i + 1 .. Len(uri) + 1
  <2> DEFINE j == AfterSlashes(uri, i + 1)
             k == AfterDoubleDots(uri, j)
  <2>1. i + 1 \in 1 .. Len(uri) + 1
    OBVIOUS
  <2>2. j \in i + 1 .. Len(uri) + 1
    BY <2>1, AfterSlashesPlace
  <2>3. j \in 1 .. Len(uri) + 1
    BY <2>2
  <2> HIDE DEF j
  <2>4. k \in j .. Len(uri) + 1
    BY <2>3, AfterDoubleDotsPlace
  <2> HIDE DEF k
  <2>5. k \in i + 1 .. Len(uri) + 1
    BY <2>2, <2>4
  <2> QED
    BY <2>5 DEF k, j
<1>3. Forward(CleanNext(uri), Len(uri))
  <2>1. Len(uri) \in Nat
    OBVIOUS
  <2> QED
    BY <1>2, <2>1 DEF CleanNext, Forward
<1> QED
  BY <1>1, <1>3 DEF CleanPut

\* f is the recursive function of remove_double_dots_and_double_slashes.
Cleans(f, uri) ==
  /\ Jumps(f, Len(uri), CleanPut(uri), CleanNext(uri))
  /\ remove_double_dots_and_double_slashes(uri) = f[1]

LEMMA CleanRecursion ==
  ASSUME NEW uri \in Seq(Byte)
  PROVE  \E f : Cleans(f, uri)
<1> DEFINE n == Len(uri)
           put == CleanPut(uri)
           next == CleanNext(uri)
           Def(f, i) == IF i > n THEN <<>>
                        ELSE <<uri[i]>> \o f[IF IsSlash(uri[i])
                                             THEN AfterDoubleDots(uri, AfterSlashes(uri, i + 1))
                                             ELSE i + 1]
           fs == CHOOSE f : f = [i \in 1 .. n + 1 |-> Def(f, i)]
<1>1. n \in Nat
  OBVIOUS
<1>2. put \in [1 .. n -> Seq(Byte)] /\ Forward(next, n)
  BY CleanTypes
<1>3. PICK f : Jumps(f, n, put, next)
  <2> HIDE DEF n, put, next
  <2> QED
    BY <1>1, <1>2, JumpsExist
<1>4. f \in [1 .. n + 1 -> Seq(Byte)] /\ GoesOn(f, n, put, next)
  BY <1>3 DEF Jumps
<1>5. ASSUME NEW g, NEW i \in 1 .. n PROVE Def(g, i) = put[i] \o g[next[i]]
  <2>1. ~(i > n)
    BY <1>1
  <2> QED
    BY <2>1 DEF CleanPut, CleanNext
<1>6. f = [i \in 1 .. n + 1 |-> Def(f, i)]
  <2>1. ASSUME NEW i \in 1 .. n + 1 PROVE f[i] = Def(f, i)
    <3>1. CASE i = n + 1
      BY <1>1, <1>4, <3>1 DEF GoesOn
    <3>2. CASE i # n + 1
      <4>1. i \in 1 .. n
        BY <1>1, <3>2
      <4> HIDE DEF Def, n, put, next
      <4> QED
        BY <1>4, <1>5, <4>1 DEF GoesOn
    <3> QED
      BY <3>1, <3>2
  <2> HIDE DEF Def, n
  <2> QED
    BY <1>4, <2>1
<1>7. fs = [i \in 1 .. n + 1 |-> Def(fs, i)]
  <2> HIDE DEF Def, n
  <2> QED
    BY <1>6
<1>8. remove_double_dots_and_double_slashes(uri) = fs[1]
  BY DEF remove_double_dots_and_double_slashes
<1> HIDE DEF fs
<1>9. GoesOn(fs, n, put, next)
  <2>1. n + 1 \in 1 .. n + 1 /\ n + 1 > n /\ \A i \in 1 .. n : i \in 1 .. n + 1
    BY <1>1
  <2>2. \A i \in 1 .. n + 1 : fs[i] = Def(fs, i)
    <3> HIDE DEF Def, n
    <3> QED
      BY <1>7
  <2>3. fs[n + 1] = <<>>
    BY <2>1, <2>2
  <2> HIDE DEF Def, n, put, next
  <2>4. \A i \in 1 .. n : fs[i] = put[i] \o fs[next[i]]
    BY <1>5, <2>1, <2>2
  <2> QED
    BY <2>3, <2>4 DEF GoesOn
<1> HIDE DEF n, put, next
<1>10. SameOn(fs, f, n)
  BY <1>1, <1>2, <1>3, <1>9, JumpsAgree
<1>11. fs[1] = f[1]
  BY <1>1, <1>10 DEF SameOn
<1> QED
  BY <1>3, <1>8, <1>11 DEF Cleans, n, put, next

\* No slash is followed by two dots.
NoParent(path) ==
  \A i \in 1 .. Len(path) - 2 :
    ~(IsSlash(path[i]) /\ path[i + 1] = Ch.dot /\ path[i + 2] = Ch.dot)

LEMMA ByteBefore ==
  ASSUME NEW c \in Byte, NEW path \in Seq(Byte)
  PROVE  /\ <<c>> \o path \in Seq(Byte) /\ Len(<<c>> \o path) = Len(path) + 1
         /\ (<<c>> \o path)[1] = c
         /\ \A i \in 1 .. Len(path) : (<<c>> \o path)[i + 1] = path[i]
<1> DEFINE n == Len(path)
           h == <<c>>
<1>1. h \in Seq(Byte) /\ Len(h) = 1 /\ h[1] = c /\ n \in Nat
  OBVIOUS
<1> HIDE DEF h
<1>2. /\ h \o path \in Seq(Byte) /\ Len(h \o path) = Len(h) + n
      /\ \A i \in 1 .. Len(h) + n : (h \o path)[i] = IF i <= Len(h) THEN h[i] ELSE path[i - Len(h)]
  BY <1>1, ConcatProperties
<1>3. \A i \in 1 .. n : i + 1 \in 1 .. 1 + n /\ ~(i + 1 <= 1) /\ i + 1 - 1 = i
  BY <1>1
<1> DEFINE w == h \o path
<1>4. Len(h) = 1 /\ h[1] = c /\ n \in Nat
  BY <1>1
<1>5. Len(w) = Len(h) + n /\ \A i \in 1 .. Len(h) + n : w[i] = IF i <= Len(h) THEN h[i] ELSE path[i - Len(h)]
  BY <1>2
<1> HIDE DEF n, w
<1>6. Len(w) = n + 1
  BY <1>4, <1>5
<1>7. w[1] = c
  BY <1>4, <1>5
<1>8. \A i \in 1 .. n : w[i + 1] = path[i]
  BY <1>3, <1>4, <1>5
<1> QED
  BY <1>2, <1>6, <1>7, <1>8 DEF h, n, w

LEMMA NoParentBefore ==
  ASSUME NEW c \in Byte, NEW path \in Seq(Byte), NoParent(path),
         IsSlash(c) => ~DotsAt(path, 1)
  PROVE  NoParent(<<c>> \o path)
<1> DEFINE p == <<c>> \o path
           n == Len(path)
<1>1. n \in Nat /\ Len(p) = n + 1 /\ p[1] = c /\ \A i \in 1 .. n : p[i + 1] = path[i]
  BY ByteBefore
<1> HIDE DEF p
<1> SUFFICES ASSUME NEW i \in 1 .. Len(p) - 2, IsSlash(p[i]), p[i + 1] = Ch.dot, p[i + 2] = Ch.dot
             PROVE  FALSE
  BY DEF NoParent, p
<1>2. CASE i = 1
  <2>1. IsSlash(c) /\ n >= 2 /\ 1 \in 1 .. n /\ 2 \in 1 .. n
    BY <1>1, <1>2
  <2>2. path[1] = Ch.dot /\ path[1 + 1] = Ch.dot /\ 1 + 1 = 2
    BY <1>1, <1>2, <2>1
  <2> QED
    BY <1>1, <2>1, <2>2 DEF DotsAt
<1>3. CASE i # 1
  <2> DEFINE j == i - 1
  <2>1. j \in 1 .. n - 2 /\ j + 1 = i /\ j \in 1 .. n /\ j + 1 \in 1 .. n /\ j + 2 \in 1 .. n
    BY <1>1, <1>3
  <2> HIDE DEF j
  <2>2. path[j] = p[i] /\ path[j + 1] = p[i + 1] /\ path[j + 2] = p[i + 2]
    <3>1. i + 1 = (j + 1) + 1 /\ i + 2 = (j + 2) + 1
      BY <2>1
    <3> QED
      BY <1>1, <2>1, <3>1
  <2> QED
    BY <2>1, <2>2 DEF NoParent
<1> QED
  BY <1>2, <1>3

LEMMA NoParentLeft ==
  ASSUME NEW uri \in Seq(Byte)
  PROVE  NoParent(remove_double_dots_and_double_slashes(uri))
<1> DEFINE n == Len(uri)
           next == CleanNext(uri)
<1>1. PICK f : Cleans(f, uri)
  BY CleanRecursion
<1> DEFINE Begins(i) == \/ i = n + 1 /\ f[i] = <<>>
                        \/ i <= n /\ Len(f[i]) >= 1 /\ f[i][1] = uri[i]
           P == {i \in 1 .. n + 1 :
                   Begins(i) /\ NoParent(f[i])
                   /\ (i <= n /\ ~IsSlash(uri[i]) /\ DotsAt(f[i], 1) => DotsAt(uri, i))}
<1>2. /\ n \in Nat /\ f \in [1 .. n + 1 -> Seq(Byte)] /\ f[n + 1] = <<>>
      /\ \A i \in 1 .. n : f[i] = <<uri[i]>> \o f[next[i]]
  BY <1>1 DEF Cleans, Jumps, GoesOn, CleanPut
<1>3. \A i \in 1 .. n : next[i] \in i + 1 .. n + 1
  BY CleanTypes DEF Forward
<1>4. n + 1 \in P
  <2>1. NoParent(<<>>)
    BY DEF NoParent
  <2> QED
    BY <1>2, <2>1
<1>5. ASSUME NEW i \in 1 .. n, \A j \in i + 1 .. n + 1 : j \in P PROVE i \in P
  <2> DEFINE c == uri[i]
             k == next[i]
             s == f[k]
  <2>1. c \in Byte /\ k \in i + 1 .. n + 1 /\ s \in Seq(Byte) /\ f[i] = <<c>> \o s /\ k \in P
    BY <1>2, <1>3, <1>5
  <2>2. Begins(k) /\ NoParent(s) /\ (k <= n /\ ~IsSlash(uri[k]) /\ DotsAt(s, 1) => DotsAt(uri, k))
    BY <2>1
  <2>3. ~DotsAt(<<>>, 1)
    BY DEF DotsAt
  <2>4. IsSlash(c) => ~DotsAt(s, 1)
    <3> SUFFICES ASSUME IsSlash(c), DotsAt(s, 1) PROVE FALSE
      OBVIOUS
    <3> DEFINE m == AfterSlashes(uri, i + 1)
    <3>1. k = AfterDoubleDots(uri, m)
      BY DEF CleanNext
    <3>2. i + 1 \in 1 .. n + 1
      BY <1>2
    <3>3. m \in i + 1 .. n + 1
      BY <3>2, AfterSlashesPlace
    <3>4. m \in 1 .. n + 1
      BY <3>2, <3>3
    <3> HIDE DEF m
    <3>5. ~DotsAt(uri, k)
      BY <3>1, <3>4, AfterDoubleDotsPlace
    <3>6. k <= n /\ s[1] = uri[k] /\ s[1] = Ch.dot
      BY <2>2, <2>3 DEF DotsAt
    <3>7. ~IsSlash(uri[k])
      BY <3>6 DEF IsSlash, Ch
    <3> QED
      BY <2>2, <3>5, <3>6, <3>7
  <2>5. NoParent(f[i])
    BY <2>1, <2>2, <2>4, NoParentBefore
  <2>6. Len(f[i]) = Len(s) + 1 /\ f[i][1] = c /\ (Len(s) >= 1 => f[i][2] = s[1])
    <3>1. Len(s) \in Nat /\ c \in Byte /\ s \in Seq(Byte) /\ f[i] = <<c>> \o s
      BY <2>1
    <3> HIDE DEF s, c
    <3>2. /\ Len(<<c>> \o s) = Len(s) + 1 /\ (<<c>> \o s)[1] = c
          /\ \A j \in 1 .. Len(s) : (<<c>> \o s)[j + 1] = s[j]
      BY <3>1, ByteBefore
    <3>3. Len(s) >= 1 => 1 \in 1 .. Len(s) /\ 1 + 1 = 2
      BY <3>1
    <3> QED
      BY <3>1, <3>2, <3>3
  <2>7. ASSUME ~IsSlash(c), DotsAt(f[i], 1) PROVE DotsAt(uri, i)
    <3>1. k = i + 1
      BY <2>7 DEF CleanNext
    <3>2. Len(s) >= 1 /\ c = Ch.dot /\ s[1] = Ch.dot
      <4>1. Len(s) \in Nat
        BY <2>1
      <4> HIDE DEF s, c
      <4> QED
        BY <2>6, <2>7, <4>1 DEF DotsAt
    <3>3. k <= n /\ uri[k] = Ch.dot
      <4>1. Len(<<>>) = 0
        OBVIOUS
      <4> QED
        BY <2>2, <3>2, <4>1
    <3> QED
      BY <3>1, <3>2, <3>3 DEF DotsAt
  <2>8. Begins(i)
    <3>1. Len(s) \in Nat /\ i <= n
      BY <1>2, <2>1
    <3> HIDE DEF s
    <3> QED
      BY <2>6, <3>1
  <2> QED
    BY <1>2, <2>5, <2>7, <2>8
<1>6. 1 \in P
  <2>1. 1 .. n + 1 \subseteq P
    <3> HIDE DEF P, n
    <3> QED
      BY <1>2, <1>4, <1>5, BackwardInduction
  <2> QED
    BY <1>2, <2>1
<1>7. NoParent(f[1])
  BY <1>6
<1> QED
  BY <1>1, <1>7 DEF Cleans

-------------------------------------------------------------------------------
\* The URIs of an application.

LEMMA PartAt ==
  ASSUME NEW t \in Seq(Byte), NEW s \in Seq(Byte), NEW p \in Nat, HasAt(t, p, s)
  PROVE  SubSeq(t, p + 1, p + Len(s)) = s
<1> DEFINE u == SubSeq(t, p + 1, p + Len(s))
<1>1. Len(s) \in Nat /\ Len(t) \in Nat
  OBVIOUS
<1>2. /\ p + Len(s) <= Len(t) /\ \A k \in 1 .. Len(s) : t[p + k] = s[k]
      /\ p + 1 \in Int /\ p + Len(s) \in Int
  BY <1>1 DEF HasAt
<1>3. \A i \in p + 1 .. p + Len(s) : t[i] \in Byte
  BY <1>1, <1>2
<1>4. /\ u \in Seq(Byte)
      /\ Len(u) = IF p + 1 <= p + Len(s) THEN p + Len(s) - (p + 1) + 1 ELSE 0
      /\ \A i \in 1 .. p + Len(s) - (p + 1) + 1 : u[i] = t[p + 1 + i - 1]
  BY <1>2, <1>3, SubSeqProperties
<1> HIDE DEF u
<1>5. Len(u) = Len(s)
  BY <1>1, <1>4
<1>6. ASSUME NEW i \in 1 .. Len(u) PROVE u[i] = s[i]
  <2>1. i \in 1 .. Len(s) /\ i \in 1 .. p + Len(s) - (p + 1) + 1 /\ p + 1 + i - 1 = p + i
    BY <1>1, <1>5
  <2> QED
    BY <1>2, <1>4, <2>1
<1>7. u = s
  BY <1>4, <1>5, <1>6, SeqEqual
<1> QED
  BY <1>7 DEF u

LEMMA PrefixIsAt ==
  ASSUME NEW s \in Seq(Byte), NEW t \in Seq(Byte)
  PROVE  IsPrefix(s, t) <=> HasAt(t, 0, s)
<1>1. Len(s) \in Nat /\ Len(t) \in Nat /\ SubSeq(s, 1, Len(s)) = s
  BY SubSeqFull
<1>2. ASSUME HasAt(t, 0, s) PROVE IsPrefix(s, t)
  <2>1. SubSeq(t, 0 + 1, 0 + Len(s)) = s
    BY <1>2, PartAt
  <2> QED
    BY <1>1, <1>2, <2>1 DEF IsPrefix, HasAt
<1>3. ASSUME IsPrefix(s, t) PROVE HasAt(t, 0, s)
  <2>1. Len(s) <= Len(t) /\ s = SubSeq(t, 1, Len(s))
    BY <1>1, <1>3 DEF IsPrefix
  <2>2. \A i \in 1 .. Len(s) : t[i] \in Byte
    BY <1>1, <2>1
  <2>3. \A i \in 1 .. Len(s) - 1 + 1 : SubSeq(t, 1, Len(s))[i] = t[1 + i - 1]
    BY <1>1, <2>2, SubSeqProperties
  <2>4. \A i \in 1 .. Len(s) : i \in 1 .. Len(s) - 1 + 1 /\ 1 + i - 1 = i /\ 0 + i = i
    BY <1>1
  <2>5. \A i \in 1 .. Len(s) : t[0 + i] = s[i]
    BY <2>1, <2>3, <2>4
  <2> QED
    BY <1>1, <2>1, <2>5 DEF HasAt
<1> QED
  BY <1>2, <1>3

LEMMA SuffixIsAt ==
  ASSUME NEW s \in Seq(Byte), NEW t \in Seq(Byte), Len(s) <= Len(t)
  PROVE  IsSuffix(s, t) <=> HasAt(t, Len(t) - Len(s), s)
<1> DEFINE rs == Reverse(s)
           rt == Reverse(t)
           m == Len(s)
           n == Len(t)
<1>1. m \in Nat /\ n \in Nat /\ m <= n
  OBVIOUS
<1>2. /\ rs \in Seq(Byte) /\ Len(rs) = m /\ \A i \in 1 .. m : rs[i] = s[m - i + 1]
      /\ rt \in Seq(Byte) /\ Len(rt) = n /\ \A i \in 1 .. n : rt[i] = t[n - i + 1]
  BY ReverseProperties
<1> HIDE DEF rs, rt
<1>3. IsSuffix(s, t) <=> HasAt(rt, 0, rs)
  BY <1>2, PrefixIsAt DEF IsSuffix, rs, rt
<1> HIDE DEF m, n
<1>4. HasAt(rt, 0, rs) <=> \A k \in 1 .. m : rt[0 + k] = rs[k]
  BY <1>1, <1>2 DEF HasAt
<1>5. HasAt(t, n - m, s) <=> \A k \in 1 .. m : t[n - m + k] = s[k]
  BY <1>1 DEF HasAt, m, n
<1>6. ASSUME \A k \in 1 .. m : rt[0 + k] = rs[k], NEW k \in 1 .. m PROVE t[n - m + k] = s[k]
  <2> DEFINE j == m - k + 1
  <2>1. j \in 1 .. m /\ j \in 1 .. n /\ 0 + j = j /\ m - j + 1 = k /\ n - j + 1 = n - m + k
    BY <1>1
  <2> HIDE DEF j
  <2>2. rt[j] = rs[j]
    BY <1>6, <2>1
  <2>3. rt[j] = t[n - j + 1] /\ rs[j] = s[m - j + 1]
    BY <1>2, <2>1
  <2> QED
    BY <2>1, <2>2, <2>3
<1>7. ASSUME \A k \in 1 .. m : t[n - m + k] = s[k], NEW j \in 1 .. m PROVE rt[0 + j] = rs[j]
  <2> DEFINE k == m - j + 1
  <2>1. k \in 1 .. m /\ j \in 1 .. n /\ 0 + j = j /\ n - j + 1 = n - m + k
    BY <1>1
  <2>2. rs[j] = s[k]
    BY <1>2
  <2> HIDE DEF k
  <2>3. t[n - m + k] = s[k]
    BY <1>7, <2>1
  <2>4. rt[j] = t[n - j + 1]
    BY <1>2, <2>1
  <2> QED
    BY <2>1, <2>2, <2>3, <2>4
<1>8. (\A k \in 1 .. m : rt[0 + k] = rs[k]) <=> (\A k \in 1 .. m : t[n - m + k] = s[k])
  BY <1>6, <1>7
<1> QED
  BY <1>3, <1>4, <1>5, <1>8 DEF m, n

LEMMA UriLengths ==
  Len(APPS_URI) = 6 /\ Len(RUN_URI) = 4 /\ Len(HIDE_URI) = 5 /\ Len(DIAL_DATA_URI) = 10
BY DEF APPS_URI, RUN_URI, HIDE_URI, DIAL_DATA_URI

LEMMA UriTypes ==
  /\ APPS_URI \in Seq(Byte) /\ RUN_URI \in Seq(Byte)
  /\ HIDE_URI \in Seq(Byte) /\ DIAL_DATA_URI \in Seq(Byte)
<1>1. <<47, 97, 112, 112, 115, 47>> \in Seq(0 .. 255)
  OBVIOUS
<1>2. <<47, 114, 117, 110>> \in Seq(0 .. 255)
  OBVIOUS
<1>3. <<47, 104, 105, 100, 101>> \in Seq(0 .. 255)
  OBVIOUS
<1>4. <<47, 100, 105, 97, 108, 95, 100, 97, 116, 97>> \in Seq(0 .. 255)
  OBVIOUS
<1> QED
  BY <1>1, <1>2, <1>3, <1>4, Zenon DEF APPS_URI, RUN_URI, HIDE_URI, DIAL_DATA_URI, Byte

LEMMA UriBytes ==
  /\ APPS_URI[1] = 47 /\ APPS_URI[2] = 97 /\ APPS_URI[3] = 112
  /\ APPS_URI[4] = 112 /\ APPS_URI[5] = 115 /\ APPS_URI[6] = 47
  /\ RUN_URI[1] = 47 /\ RUN_URI[2] = 114 /\ RUN_URI[3] = 117 /\ RUN_URI[4] = 110
  /\ HIDE_URI[1] = 47 /\ HIDE_URI[2] = 104 /\ HIDE_URI[3] = 105
  /\ HIDE_URI[4] = 100 /\ HIDE_URI[5] = 101
BY DEF APPS_URI, RUN_URI, HIDE_URI

LEMMA DataUriBytes ==
  /\ DIAL_DATA_URI[1] = 47 /\ DIAL_DATA_URI[2] = 100 /\ DIAL_DATA_URI[3] = 105
  /\ DIAL_DATA_URI[4] = 97 /\ DIAL_DATA_URI[5] = 108 /\ DIAL_DATA_URI[6] = 95
  /\ DIAL_DATA_URI[7] = 100 /\ DIAL_DATA_URI[8] = 97 /\ DIAL_DATA_URI[9] = 116
  /\ DIAL_DATA_URI[10] = 97
BY DEF DIAL_DATA_URI

\* A path in which the cleaning finds nothing to remove.
IsClean(uri) ==
  \A i \in 1 .. Len(uri) - 1 :
    IsSlash(uri[i]) => ~IsSlash(uri[i + 1]) /\ ~DotsAt(uri, i + 1)

LEMMA CleanKept ==
  ASSUME NEW uri \in Seq(Byte), IsClean(uri)
  PROVE  remove_double_dots_and_double_slashes(uri) = uri
<1> DEFINE n == Len(uri)
           put == CleanPut(uri)
           next == CleanNext(uri)
           pos == [i \in 0 .. n |-> i]
<1>1. n \in Nat
  OBVIOUS
<1>2. PICK f : Cleans(f, uri)
  BY CleanRecursion
<1>3. ASSUME NEW i \in 1 .. n PROVE next[i] = i + 1
  <2> DEFINE j == AfterSlashes(uri, i + 1)
             k == AfterDoubleDots(uri, j)
  <2>1. i + 1 \in 1 .. n + 1 /\ (i + 1 > n => i + 1 = n + 1) /\ (i + 1 <= n => i \in 1 .. n - 1)
    BY <1>1
  <2>2. next[i] = IF IsSlash(uri[i]) THEN k ELSE i + 1
    BY DEF CleanNext
  <2>3. j \in i + 1 .. n + 1 /\ (i + 1 <= n /\ ~IsSlash(uri[i + 1]) => j = i + 1)
    BY <2>1, AfterSlashesPlace
  <2>4. j \in 1 .. n + 1
    BY <1>1, <2>3
  <2> HIDE DEF j, n
  <2>5. k \in j .. n + 1 /\ (~DotsAt(uri, j) => k = j)
    BY <2>4, AfterDoubleDotsPlace DEF n
  <2> HIDE DEF k
  <2>6. CASE i + 1 > n
    BY <1>1, <2>1, <2>2, <2>3, <2>5, <2>6
  <2>7. CASE i + 1 <= n
    <3>1. IsSlash(uri[i]) => ~IsSlash(uri[i + 1]) /\ ~DotsAt(uri, i + 1)
      BY <2>1, <2>7 DEF IsClean, n
    <3> QED
      BY <2>2, <2>3, <2>5, <2>7, <3>1
  <2> QED
    BY <1>1, <2>1, <2>6, <2>7
<1>4. Marks(pos, n, n)
  <2>1. pos \in [0 .. n -> 0 .. n] /\ pos[0] = 0 /\ pos[n] = n
    BY <1>1
  <2>2. \A i \in 1 .. n : pos[i - 1] < pos[i]
    BY <1>1
  <2> HIDE DEF pos, n
  <2> QED
    BY <2>1, <2>2 DEF Marks
<1>5. ReadsCodes(uri, pos, put, next)
  <2>1. ASSUME NEW i \in 1 .. n
        PROVE  put[pos[i - 1] + 1] = <<uri[i]>> /\ next[pos[i - 1] + 1] = pos[i] + 1
    <3>1. pos[i - 1] + 1 = i /\ pos[i] = i
      BY <1>1
    <3>2. put[i] = <<uri[i]>>
      BY DEF CleanPut
    <3> HIDE DEF pos, put, next
    <3> QED
      BY <1>3, <3>1, <3>2
  <2> HIDE DEF pos, put, next
  <2> QED
    BY <2>1 DEF ReadsCodes
<1> HIDE DEF pos
<1>6. f[1] = uri
  BY <1>2, <1>4, <1>5, DecodesBack DEF Cleans
<1> QED
  BY <1>2, <1>6 DEF Cleans

\* The path of the application name: /apps/, the name and a tail.
PathIs(p, name, tail) ==
  /\ p \in Seq(Byte) /\ Len(p) = 6 + Len(name) + Len(tail)
  /\ HasAt(p, 0, APPS_URI) /\ HasAt(p, 6, name) /\ HasAt(p, 6 + Len(name), tail)

LEMMA PathOf ==
  ASSUME NEW name \in Seq(Byte), NEW tail \in Seq(Byte)
  PROVE  PathIs(APPS_URI \o name \o tail, name, tail)
<1> DEFINE a == APPS_URI \o name
           p == a \o tail
<1>1. APPS_URI \in Seq(Byte) /\ Len(APPS_URI) = 6
  BY UriLengths, UriTypes
<1>2. a \in Seq(Byte) /\ Len(a) = 6 + Len(name) /\ HasAt(a, 0, APPS_URI) /\ HasAt(a, 6, name)
  <2>1. /\ a \in Seq(Byte) /\ Len(a) = Len(APPS_URI) + Len(name)
        /\ HasAt(a, 0, APPS_URI) /\ HasAt(a, Len(APPS_URI), name)
    BY <1>1, ConcatHas
  <2> QED
    BY <1>1, <2>1
<1> HIDE DEF a
<1>3. p \in Seq(Byte) /\ Len(p) = Len(a) + Len(tail) /\ HasAt(p, 0, a) /\ HasAt(p, Len(a), tail)
  BY <1>2, ConcatHas
<1> HIDE DEF p
<1>4. 0 \in Nat /\ 6 \in Nat
  OBVIOUS
<1>5. HasAt(p, 0, APPS_URI)
  BY <1>1, <1>2, <1>3, <1>4, HasAtWithin
<1>6. HasAt(p, 6, name)
  BY <1>2, <1>3, <1>4, HasAtWithin
<1>7. Len(p) = 6 + Len(name) + Len(tail) /\ HasAt(p, 6 + Len(name), tail)
  BY <1>2, <1>3
<1> QED
  BY <1>3, <1>5, <1>6, <1>7 DEF PathIs, p, a

LEMMA PathBytes ==
  ASSUME NEW name \in Seq(Byte), NEW tail \in Seq(Byte), NEW p, PathIs(p, name, tail)
  PROVE  /\ p[1] = 47 /\ p[2] = 97 /\ p[3] = 112 /\ p[4] = 112 /\ p[5] = 115 /\ p[6] = 47
         /\ \A i \in 1 .. Len(name) : p[6 + i] = name[i]
         /\ \A i \in 1 .. Len(tail) : p[6 + Len(name) + i] = tail[i]
<1>1. \A i \in 1 .. Len(APPS_URI) : p[0 + i] = APPS_URI[i]
  BY DEF PathIs, HasAt
<1>2. \A i \in 1 .. 6 : i \in 1 .. Len(APPS_URI) /\ 0 + i = i
  BY UriLengths
<1>3. \A i \in 1 .. 6 : p[i] = APPS_URI[i]
  BY <1>1, <1>2
<1>4. p[1] = 47 /\ p[2] = 97 /\ p[3] = 112 /\ p[4] = 112 /\ p[5] = 115 /\ p[6] = 47
  BY <1>3, UriBytes
<1> QED
  BY <1>4 DEF PathIs, HasAt

\* What a name may be that its URI reaches.
IsName(name) ==
  /\ name \in Seq(NameByte) /\ Len(name) \in 1 .. MaxName /\ ~DotsAt(name, 1)

LEMMA NameType ==
  ASSUME NEW name, IsName(name)
  PROVE  /\ name \in Seq(Byte) /\ Len(name) \in Nat \ {0} /\ ~DotsAt(name, 1)
         /\ \A i \in 1 .. Len(name) : /\ ~IsSlash(name[i]) /\ name[i] # 47
                                      /\ name[i] \in Byte \ {Ch.space} /\ name[i] # 0
<1>1. name \in Seq(NameByte) /\ NameByte \subseteq Byte
  BY DEF IsName, NameByte
<1>2. name \in Seq(Byte)
  BY <1>1, SeqMonotonic
<1>3. \A i \in 1 .. Len(name) : name[i] \in NameByte
  BY <1>1
<1>4. \A c \in NameByte : ~IsSlash(c) /\ c # 47 /\ c \in Byte \ {Ch.space} /\ c # 0
  BY DEF NameByte, IsSlash, Ch
<1>5. Len(name) \in Nat \ {0}
  <2>1. Len(name) \in 1 .. MaxName /\ MaxName \in Nat
    BY RoutesAssumption DEF IsName
  <2> QED
    BY <2>1
<1> QED
  BY <1>2, <1>3, <1>4, <1>5 DEF IsName

\* A tail begins with a slash and has nothing to remove.
IsTail(tail) ==
  /\ tail \in Seq(Byte) /\ IsClean(tail) /\ (tail # <<>> => tail[1] = 47)

LEMMA PathIsClean ==
  ASSUME NEW name, IsName(name), NEW tail, IsTail(tail), NEW p, PathIs(p, name, tail)
  PROVE  p \in Seq(Byte) /\ IsClean(p)
<1> DEFINE l == Len(name)
           m == Len(tail)
           n == Len(p)
<1>1. /\ name \in Seq(Byte) /\ l \in Nat \ {0} /\ ~DotsAt(name, 1)
      /\ \A i \in 1 .. l : ~IsSlash(name[i])
  BY NameType
<1>2. tail \in Seq(Byte) /\ m \in Nat /\ IsClean(tail) /\ (m > 0 => tail[1] = 47)
  <2>1. tail \in Seq(Byte)
    BY DEF IsTail
  <2>2. m > 0 => tail # <<>>
    OBVIOUS
  <2> QED
    BY <2>1, <2>2 DEF IsTail
<1>3. /\ p[1] = 47 /\ p[2] = 97 /\ p[3] = 112 /\ p[4] = 112 /\ p[5] = 115 /\ p[6] = 47
      /\ \A i \in 1 .. l : p[6 + i] = name[i]
      /\ \A i \in 1 .. m : p[6 + l + i] = tail[i]
  BY <1>1, <1>2, PathBytes
<1>4. p \in Seq(Byte) /\ n = 6 + l + m
  BY DEF PathIs
<1> HIDE DEF l, m, n
<1>5. IsSlash(47) /\ ~IsSlash(97) /\ ~IsSlash(112) /\ ~IsSlash(115) /\ 47 # Ch.dot /\ 97 # Ch.dot
  BY DEF IsSlash, Ch
<1>6. ASSUME NEW i \in 1 .. n - 1, IsSlash(p[i]) PROVE ~IsSlash(p[i + 1]) /\ ~DotsAt(p, i + 1)
  <2>1. i = 1 \/ i \in 2 .. 5 \/ i = 6 \/ i \in 7 .. 6 + l \/ i \in 7 + l .. n - 1
    BY <1>1, <1>2, <1>4
  <2>2. CASE i = 1
    BY <1>3, <1>5, <2>2 DEF DotsAt
  <2>3. CASE i \in 2 .. 5
    <3>1. i = 2 \/ i = 3 \/ i = 4 \/ i = 5
      BY <2>3
    <3> QED
      BY <1>3, <1>5, <1>6, <3>1
  <2>4. CASE i = 6
    <3>1. 1 \in 1 .. l /\ i + 1 = 6 + 1
      BY <1>1, <2>4
    <3>2. p[i + 1] = name[1]
      BY <1>3, <3>1
    <3>3. ASSUME DotsAt(p, i + 1) PROVE FALSE
      <4>1. p[7] = Ch.dot /\ p[8] = Ch.dot /\ 8 <= n
        <5>1. i + 1 = 7 /\ i + 1 + 1 = 8
          BY <2>4
        <5> QED
          BY <3>3, <5>1 DEF DotsAt, n
      <4>2. CASE l >= 2
        <5>1. 1 \in 1 .. l /\ 2 \in 1 .. l /\ 6 + 1 = 7 /\ 6 + 2 = 8
          BY <1>1, <4>2
        <5>2. name[1] = Ch.dot /\ name[2] = Ch.dot
          BY <1>3, <4>1, <5>1
        <5>3. 1 + 1 = 2 /\ 1 + 1 <= l
          BY <4>2
        <5> QED
          BY <1>1, <5>2, <5>3 DEF DotsAt, l
      <4>3. CASE l = 1
        <5>1. m > 0 /\ 1 \in 1 .. m /\ 6 + l + 1 = 8
          BY <1>2, <1>4, <4>1, <4>3
        <5>2. p[8] = 47
          BY <1>2, <1>3, <5>1
        <5> QED
          BY <1>5, <4>1, <5>2
      <4> QED
        BY <1>1, <4>2, <4>3
    <3> QED
      BY <1>1, <3>1, <3>2, <3>3
  <2>5. CASE i \in 7 .. 6 + l
    <3> DEFINE j == i - 6
    <3>1. j \in 1 .. l /\ i = 6 + j
      BY <1>1, <2>5
    <3> HIDE DEF j
    <3>2. p[i] = name[j]
      BY <1>3, <3>1
    <3> QED
      BY <1>1, <1>6, <3>1, <3>2
  <2>6. CASE i \in 7 + l .. n - 1
    <3> DEFINE j == i - (6 + l)
    <3>1. /\ j \in 1 .. m - 1 /\ j \in 1 .. m /\ j + 1 \in 1 .. m /\ i = 6 + l + j
          /\ i + 1 = 6 + l + (j + 1) /\ i + 1 + 1 = 6 + l + (j + 1 + 1)
      BY <1>1, <1>2, <1>4, <2>6
    <3> HIDE DEF j
    <3>2. p[i] = tail[j] /\ p[i + 1] = tail[j + 1]
      BY <1>3, <3>1
    <3>3. ~IsSlash(tail[j + 1]) /\ ~DotsAt(tail, j + 1)
      BY <1>2, <1>6, <3>1, <3>2 DEF IsClean, m
    <3>4. ASSUME DotsAt(p, i + 1) PROVE FALSE
      <4>1. i + 1 + 1 <= n /\ p[i + 1] = Ch.dot /\ p[i + 1 + 1] = Ch.dot
        BY <3>4 DEF DotsAt, n
      <4>2. j + 1 + 1 \in 1 .. m
        BY <1>1, <1>2, <1>4, <3>1, <4>1
      <4>3. p[i + 1 + 1] = tail[j + 1 + 1]
        BY <1>3, <3>1, <4>2
      <4>4. j + 1 + 1 <= m
        BY <1>2, <4>2
      <4> QED
        BY <3>2, <3>3, <4>1, <4>3, <4>4 DEF DotsAt, m
    <3> QED
      BY <3>2, <3>3, <3>4
  <2> QED
    BY <2>1, <2>2, <2>3, <2>4, <2>5, <2>6
<1> QED
  BY <1>4, <1>6 DEF IsClean, n

LEMMA NameOfPath ==
  ASSUME NEW name \in Seq(Byte), NEW tail \in Seq(Byte), NEW p, PathIs(p, name, tail)
  PROVE  SubSeq(p, 7, 6 + Len(name)) = name
<1>1. p \in Seq(Byte) /\ HasAt(p, 6, name) /\ 6 \in Nat /\ 6 + 1 = 7
  BY DEF PathIs
<1>2. SubSeq(p, 6 + 1, 6 + Len(name)) = name
  BY <1>1, PartAt
<1> QED
  BY <1>1, <1>2

\* The name is what is between the last two slashes.
LEMMA AppNameOfPath ==
  ASSUME NEW name, IsName(name), NEW tail \in Seq(Byte), tail # <<>>, tail[1] = 47,
         \A i \in 2 .. Len(tail) : tail[i] # 47,
         NEW p, PathIs(p, name, tail)
  PROVE  parse_app_name(p) = name
<1> DEFINE l == Len(name)
           m == Len(tail)
           n == Len(p)
           q == 6 + l + 1
<1>1. /\ name \in Seq(Byte) /\ l \in Nat \ {0} /\ \A i \in 1 .. l : name[i] # 47
      /\ m \in Nat \ {0} /\ \A i \in 2 .. m : tail[i] # 47
  BY NameType
<1>2. /\ p[6] = 47 /\ \A i \in 1 .. l : p[6 + i] = name[i]
      /\ \A i \in 1 .. m : p[6 + l + i] = tail[i]
  BY <1>1, PathBytes
<1>3. n = 6 + l + m /\ Ch.slash = 47
  BY DEF PathIs, Ch
<1>4. SubSeq(p, 7, 6 + l) = name
  BY <1>1, NameOfPath
<1> HIDE DEF l, m, n, q
<1>5. q \in 8 .. n /\ q = 7 + l /\ p[q] = 47
  <2>1. q = 6 + l + 1 /\ 1 \in 1 .. m
    BY <1>1 DEF q
  <2> QED
    BY <1>1, <1>2, <1>3, <2>1
<1>6. \A i \in 7 .. q - 1 : p[i] # 47
  <2> SUFFICES ASSUME NEW i \in 7 .. q - 1 PROVE p[i] # 47
    OBVIOUS
  <2> DEFINE j == i - 6
  <2>1. j \in 1 .. l /\ i = 6 + j
    BY <1>1, <1>5
  <2> HIDE DEF j
  <2> QED
    BY <1>1, <1>2, <2>1, ZenonT(30)
<1>7. \A i \in q + 1 .. n : p[i] # 47
  <2> SUFFICES ASSUME NEW i \in q + 1 .. n PROVE p[i] # 47
    OBVIOUS
  <2> DEFINE j == i - (6 + l)
  <2>1. j \in 2 .. m /\ j \in 1 .. m /\ i = 6 + l + j
    BY <1>1, <1>3, <1>5
  <2> HIDE DEF j
  <2>2. tail[j] # 47
    BY <1>1, <2>1
  <2>3. p[6 + l + j] = tail[j]
    BY <1>2, <2>1
  <2> QED
    BY <2>1, <2>2, <2>3
<1> DEFINE I == {i \in 1 .. n : p[i] = Ch.slash}
           J == {i \in 1 .. q - 1 : p[i] = Ch.slash}
<1>8. q \in I /\ \A i \in I : i <= q
  BY <1>1, <1>3, <1>5, <1>7
<1>9. 6 \in J /\ \A i \in J : i <= 6
  BY <1>1, <1>2, <1>3, <1>5, <1>6
<1>10. SelectLastInSeq(p, LAMBDA c : c = Ch.slash) = IF I # {} THEN Max(I) ELSE 0
  BY DEF SelectLastInSeq, n
<1>11. PreviousSlash(p, q) = IF J # {} THEN Max(J) ELSE 0
  BY DEF PreviousSlash, SelectLastInSubSeq
<1>12. n \in Nat /\ I \subseteq 0 .. n /\ J \subseteq 0 .. n
  BY <1>1, <1>3, <1>5
<1> HIDE DEF I, J
<1>13. Max(I) = q
  <2>1. Max(I) \in I /\ \A y \in I : y <= Max(I)
    BY <1>8, <1>12, MaxProperties
  <2>2. Max(I) \in 0 .. n
    BY <1>12, <2>1
  <2>3. Max(I) <= q
    BY <1>8, <2>1
  <2>4. q <= Max(I)
    BY <1>8, <2>1
  <2>5. q \in Nat
    BY <1>1, <1>5
  <2> QED
    BY <1>12, <2>2, <2>3, <2>4, <2>5
<1>14. Max(J) = 6
  <2>1. Max(J) \in J /\ \A y \in J : y <= Max(J)
    BY <1>9, <1>12, MaxProperties
  <2>2. Max(J) \in 0 .. n /\ Max(J) <= 6 /\ 6 <= Max(J)
    BY <1>9, <1>12, <2>1
  <2> QED
    BY <1>12, <2>2
<1>15. SelectLastInSeq(p, LAMBDA c : c = Ch.slash) = q
  BY <1>8, <1>10, <1>13
<1>16. PreviousSlash(p, q) = 6
  BY <1>9, <1>11, <1>14
<1>17. parse_app_name(p) = SubSeq(p, 6 + 1, q - 1)
  <2>1. ~(q <= 1)
    BY <1>5
  <2> QED
    BY <1>15, <1>16, <2>1 DEF parse_app_name
<1>18. 6 + 1 = 7 /\ q - 1 = 6 + l
  BY <1>1, <1>5
<1> QED
  BY <1>4, <1>17, <1>18

\* What NameBefore cuts out of the path is the name.
LEMMA NameBeforeTail ==
  ASSUME NEW name, IsName(name), NEW tail \in Seq(Byte), NEW p, PathIs(p, name, tail)
  PROVE  NameBefore(p, Len(tail)) = name
<1> DEFINE l == Len(name)
           m == Len(tail)
<1>1. name \in Seq(Byte) /\ l \in Nat \ {0} /\ l <= MaxName /\ m \in Nat
  <2>1. l \in 1 .. MaxName /\ MaxName \in Nat
    BY RoutesAssumption DEF IsName
  <2> QED
    BY <2>1, NameType
<1>2. SubSeq(p, 7, 6 + l) = name
  BY <1>1, NameOfPath
<1>3. Len(p) = 6 + l + m /\ Len(APPS_URI) = 6
  BY UriLengths DEF PathIs
<1> HIDE DEF l, m
<1>4. Len(p) - m - Len(APPS_URI) = l /\ Len(APPS_URI) + 1 = 7 /\ MaxName \in Nat
  BY <1>1, <1>3, RoutesAssumption
<1>5. NameBefore(p, m) = SubSeq(p, 7, 6 + (IF l > MaxName THEN MaxName ELSE l))
  BY <1>3, <1>4 DEF NameBefore
<1>6. (IF l > MaxName THEN MaxName ELSE l) = l
  BY <1>1, <1>4
<1> QED
  BY <1>2, <1>5, <1>6 DEF m

\* Which of the tails is there.
LEMMA SuffixOfPath ==
  ASSUME NEW name \in Seq(Byte), NEW tail \in Seq(Byte), NEW s \in Seq(Byte), NEW p,
         PathIs(p, name, tail), Len(s) <= Len(tail)
  PROVE  IsSuffix(s, p) <=> HasAt(tail, Len(tail) - Len(s), s)
<1> DEFINE l == Len(name)
           m == Len(tail)
           k == Len(s)
<1>1. l \in Nat /\ m \in Nat /\ k \in Nat /\ k <= m
  OBVIOUS
<1>2. p \in Seq(Byte) /\ Len(p) = 6 + l + m /\ \A i \in 1 .. m : p[6 + l + i] = tail[i]
  BY PathBytes DEF PathIs
<1>3. Len(s) <= Len(p)
  BY <1>1, <1>2
<1>4. IsSuffix(s, p) <=> HasAt(p, Len(p) - Len(s), s)
  BY <1>2, <1>3, SuffixIsAt
<1>5. HasAt(p, Len(p) - Len(s), s) <=> \A i \in 1 .. k : p[Len(p) - k + i] = s[i]
  BY <1>1, <1>2 DEF HasAt
<1>6. HasAt(tail, m - k, s) <=> \A i \in 1 .. k : tail[m - k + i] = s[i]
  BY <1>1 DEF HasAt
<1> HIDE DEF l, m, k
<1>7. ASSUME NEW i \in 1 .. k PROVE p[Len(p) - k + i] = tail[m - k + i]
  <2> DEFINE j == m - k + i
  <2>1. j \in 1 .. m /\ Len(p) - k + i = 6 + l + j
    BY <1>1, <1>2
  <2> HIDE DEF j
  <2>2. p[Len(p) - k + i] = tail[j]
    BY <1>2, <2>1
  <2> QED
    BY <2>2 DEF j
<1>8. (\A i \in 1 .. k : p[Len(p) - k + i] = s[i]) <=> (\A i \in 1 .. k : tail[m - k + i] = s[i])
  BY <1>7
<1> QED
  BY <1>4, <1>5, <1>6, <1>8 DEF m, k

LEMMA NoSlashInName ==
  ASSUME NEW name, IsName(name)
  PROVE  SelectInSeq(name, LAMBDA c : c = Ch.slash) = 0
<1> DEFINE I == {i \in 1 .. Len(name) : name[i] = Ch.slash}
<1>1. \A i \in 1 .. Len(name) : name[i] # Ch.slash
  BY NameType DEF Ch
<1>2. I = {}
  BY <1>1
<1>3. SelectInSeq(name, LAMBDA c : c = Ch.slash) = IF I # {} THEN Min(I) ELSE 0
  BY DEF SelectInSeq
<1> QED
  BY <1>2, <1>3

LEMMA SelectsSome ==
  ASSUME NEW S, S \subseteq Nat \ {0}, S # {}
  PROVE  (IF S # {} THEN Min(S) ELSE 0) # 0
<1>1. S \subseteq Nat
  OBVIOUS
<1> QED
  BY <1>1, MinProperties

\* What IsAppUri looks at is the rest of the path.
LEMMA RestOfPath ==
  ASSUME NEW name, IsName(name), NEW tail \in Seq(Byte), NEW p, PathIs(p, name, tail)
  PROVE  /\ From(p, Len(APPS_URI)) \in Seq(Byte)
         /\ Len(From(p, Len(APPS_URI))) = Len(name) + Len(tail)
         /\ \A i \in 1 .. Len(name) + Len(tail) : From(p, Len(APPS_URI))[i] = p[6 + i]
<1> DEFINE l == Len(name)
           m == Len(tail)
           n == Len(p)
<1>1. name \in Seq(Byte) /\ l \in Nat \ {0} /\ m \in Nat
  BY NameType
<1>2. p \in Seq(Byte) /\ n = 6 + l + m
  BY DEF PathIs
<1>3. From(p, Len(APPS_URI)) = SubSeq(p, 7, n)
  <2>1. 6 + 1 = 7
    OBVIOUS
  <2> QED
    BY <2>1, UriLengths DEF From
<1>4. \A i \in 7 .. n : p[i] \in Byte
  BY <1>2
<1> DEFINE r == SubSeq(p, 7, n)
<1> HIDE DEF l, m, n
<1>5. /\ r \in Seq(Byte) /\ Len(r) = IF 7 <= n THEN n - 7 + 1 ELSE 0
      /\ \A i \in 1 .. n - 7 + 1 : r[i] = p[7 + i - 1]
  <2>1. 7 \in Int /\ n \in Int
    BY <1>1, <1>2
  <2> QED
    BY <1>4, <2>1, SubSeqProperties
<1> HIDE DEF r
<1>6. Len(r) = l + m
  BY <1>1, <1>2, <1>5
<1>7. ASSUME NEW i \in 1 .. l + m PROVE r[i] = p[6 + i]
  <2>1. i \in 1 .. n - 7 + 1 /\ 7 + i - 1 = 6 + i
    BY <1>1, <1>2
  <2> QED
    BY <1>5, <2>1
<1> QED
  BY <1>3, <1>5, <1>6, <1>7 DEF l, m, n, r

LEMMA PathIsAppUri ==
  ASSUME NEW name, IsName(name), NEW tail \in Seq(Byte), tail # <<>> => tail[1] = 47,
         NEW p, PathIs(p, name, tail)
  PROVE  /\ IsAppUri(p) <=> tail = <<>>
         /\ tail = <<>> => From(p, Len(APPS_URI)) = name
<1> DEFINE l == Len(name)
           m == Len(tail)
           r == From(p, Len(APPS_URI))
<1>1. name \in Seq(Byte) /\ l \in Nat \ {0} /\ m \in Nat /\ (tail = <<>> <=> m = 0)
  BY NameType
<1>2. /\ \A i \in 1 .. l : p[6 + i] = name[i]
      /\ \A i \in 1 .. m : p[6 + l + i] = tail[i]
  BY <1>1, PathBytes
<1>3. r \in Seq(Byte) /\ Len(r) = l + m /\ \A i \in 1 .. l + m : r[i] = p[6 + i]
  BY RestOfPath
<1>4. Len(p) > Len(APPS_URI) /\ IsPrefix(APPS_URI, p)
  <2>1. p \in Seq(Byte) /\ HasAt(p, 0, APPS_URI) /\ Len(p) = 6 + l + m
    BY DEF PathIs
  <2>2. IsPrefix(APPS_URI, p)
    BY <2>1, UriTypes, PrefixIsAt
  <2> QED
    BY <1>1, <2>1, <2>2, UriLengths
<1> DEFINE J == {i \in 1 .. Len(r) : r[i] = Ch.slash}
<1>5. SelectInSeq(r, LAMBDA c : c = Ch.slash) = IF J # {} THEN Min(J) ELSE 0
  BY DEF SelectInSeq
<1>6. IsAppUri(p) <=> (IF J # {} THEN Min(J) ELSE 0) = 0
  BY <1>4, <1>5 DEF IsAppUri
<1> HIDE DEF r, l, m
<1>7. CASE m = 0
  <2>1. \A i \in 1 .. Len(r) : r[i] = name[i]
    BY <1>1, <1>2, <1>3, <1>7
  <2>2. r = name
    <3>1. Len(r) = Len(name)
      BY <1>1, <1>3, <1>7 DEF l
    <3> QED
      BY <1>1, <1>3, <2>1, <3>1, SeqEqual
  <2>3. SelectInSeq(r, LAMBDA c : c = Ch.slash) = 0
    BY <2>2, NoSlashInName
  <2> QED
    BY <1>1, <1>5, <1>6, <1>7, <2>2, <2>3 DEF r
<1>8. CASE m # 0
  <2>1. 1 \in 1 .. m /\ l + 1 \in 1 .. l + m /\ 6 + (l + 1) = 6 + l + 1
    BY <1>1, <1>8
  <2>2. p[6 + l + 1] = tail[1]
    BY <1>2, <2>1
  <2>3. r[l + 1] = p[6 + l + 1]
    BY <1>3, <2>1
  <2>4. tail[1] = Ch.slash
    BY <1>1, <1>8 DEF Ch
  <2>5. l + 1 \in J
    BY <1>3, <2>1, <2>2, <2>3, <2>4
  <2>6. J \subseteq Nat \ {0}
    BY <1>3
  <2> HIDE DEF J
  <2>7. J # {}
    BY <2>5
  <2> QED
    BY <1>1, <1>6, <1>8, <2>6, <2>7, SelectsSome
<1> QED
  BY <1>7, <1>8

LEMMA RunTail == IsTail(RUN_URI)
<1>1. RUN_URI \in Seq(Byte) /\ Len(RUN_URI) = 4 /\ RUN_URI[1] = 47
  BY UriLengths, UriTypes, UriBytes
<1>2. RUN_URI # <<>>
  BY <1>1, SMTT(30)
<1>3. ASSUME NEW i \in 1 .. 3, IsSlash(RUN_URI[i])
      PROVE  ~IsSlash(RUN_URI[i + 1]) /\ ~DotsAt(RUN_URI, i + 1)
  <2>1. i = 1 \/ i = 2 \/ i = 3
    OBVIOUS
  <2> QED
    BY <1>3, <2>1, UriBytes DEF IsSlash, DotsAt, Ch
<1>4. IsClean(RUN_URI)
  BY <1>1, <1>3 DEF IsClean
<1> QED
  BY <1>1, <1>2, <1>4 DEF IsTail

LEMMA DataTail ==
  /\ IsTail(DIAL_DATA_URI) /\ DIAL_DATA_URI # <<>>
  /\ \A i \in 2 .. Len(DIAL_DATA_URI) : DIAL_DATA_URI[i] # 47
<1>1. DIAL_DATA_URI \in Seq(Byte) /\ Len(DIAL_DATA_URI) = 10 /\ DIAL_DATA_URI[1] = 47
  BY UriLengths, UriTypes, DataUriBytes
<1>2. DIAL_DATA_URI # <<>>
  <2>1. Len(DIAL_DATA_URI) # 0 /\ Len(<<>>) = 0
    BY <1>1
  <2> QED
    BY <2>1, Zenon
<1>3. ASSUME NEW i \in 2 .. 10 PROVE DIAL_DATA_URI[i] \notin {46, 47, 92}
  <2>1. i = 2 \/ i = 3 \/ i = 4 \/ i = 5 \/ i = 6 \/ i = 7 \/ i = 8 \/ i = 9 \/ i = 10
    OBVIOUS
  <2> QED
    BY <2>1, DataUriBytes
<1>4. ASSUME NEW i \in 1 .. 9, IsSlash(DIAL_DATA_URI[i])
      PROVE  ~IsSlash(DIAL_DATA_URI[i + 1]) /\ ~DotsAt(DIAL_DATA_URI, i + 1)
  <2>1. DIAL_DATA_URI[i + 1] \notin {46, 47, 92}
    BY <1>3
  <2> QED
    BY <2>1 DEF IsSlash, DotsAt, Ch
<1>5. IsClean(DIAL_DATA_URI)
  BY <1>1, <1>4 DEF IsClean
<1> QED
  BY <1>1, <1>2, <1>3, <1>5 DEF IsTail

LEMMA HideTail ==
  /\ IsTail(RUN_URI \o HIDE_URI) /\ Len(RUN_URI \o HIDE_URI) = 9
  /\ HasAt(RUN_URI \o HIDE_URI, 4, HIDE_URI)
  /\ (RUN_URI \o HIDE_URI)[6] = 104
<1> DEFINE t == RUN_URI \o HIDE_URI
<1>1. /\ RUN_URI \in Seq(Byte) /\ HIDE_URI \in Seq(Byte) /\ Len(RUN_URI) = 4 /\ Len(HIDE_URI) = 5
  BY UriLengths, UriTypes
<1>2. /\ t \in Seq(Byte) /\ Len(t) = Len(RUN_URI) + Len(HIDE_URI)
      /\ HasAt(t, 0, RUN_URI) /\ HasAt(t, Len(RUN_URI), HIDE_URI)
  BY <1>1, ConcatHas
<1> HIDE DEF t
<1>3. Len(t) = 9 /\ HasAt(t, 4, HIDE_URI)
  BY <1>1, <1>2
<1>4. \A i \in 1 .. 4 : t[0 + i] = RUN_URI[i]
  BY <1>1, <1>2 DEF HasAt
<1>5. \A i \in 1 .. 5 : t[4 + i] = HIDE_URI[i]
  BY <1>1, <1>3 DEF HasAt
<1>6. /\ t[1] = 47 /\ t[2] = 114 /\ t[3] = 117 /\ t[4] = 110 /\ t[5] = 47
      /\ t[6] = 104 /\ t[7] = 105 /\ t[8] = 100 /\ t[9] = 101
  <2>1. /\ t[0 + 1] = 47 /\ t[0 + 2] = 114 /\ t[0 + 3] = 117 /\ t[0 + 4] = 110
    BY <1>4, UriBytes
  <2>2. /\ t[4 + 1] = 47 /\ t[4 + 2] = 104 /\ t[4 + 3] = 105 /\ t[4 + 4] = 100 /\ t[4 + 5] = 101
    BY <1>5, UriBytes
  <2> QED
    BY <2>1, <2>2
<1>7. ASSUME NEW i \in 1 .. 8, IsSlash(t[i]) PROVE ~IsSlash(t[i + 1]) /\ ~DotsAt(t, i + 1)
  <2>1. i = 1 \/ i = 2 \/ i = 3 \/ i = 4 \/ i = 5 \/ i = 6 \/ i = 7 \/ i = 8
    OBVIOUS
  <2>2. i = 1 \/ i = 5
    BY <1>6, <1>7, <2>1 DEF IsSlash, Ch
  <2> QED
    BY <1>6, <2>2 DEF IsSlash, DotsAt, Ch
<1>8. IsClean(t)
  BY <1>3, <1>7 DEF IsClean
<1>9. t # <<>>
  BY <1>3
<1>10. IsTail(t)
  BY <1>2, <1>6, <1>8, <1>9 DEF IsTail
<1> QED
  BY <1>3, <1>6, <1>10 DEF t

LEMMA NoTail == IsTail(<<>>)
<1>1. <<>> \in Seq(Byte) /\ Len(<<>>) = 0
  OBVIOUS
<1>2. IsClean(<<>>)
  BY <1>1 DEF IsClean
<1> QED
  BY <1>1, <1>2 DEF IsTail

LEMMA ResourceOfApp ==
  ASSUME NEW name, IsName(name), NEW p, PathIs(p, name, <<>>)
  PROVE  Resource(p) = [path |-> "app", app |-> name]
<1> DEFINE l == Len(name)
           n == Len(p)
<1>1. /\ name \in Seq(Byte) /\ l \in Nat \ {0} /\ \A i \in 1 .. l : name[i] # 47
      /\ <<>> \in Seq(Byte) /\ Len(<<>>) = 0
  BY NameType
<1>2. p \in Seq(Byte) /\ n = 6 + l /\ \A i \in 1 .. l : p[6 + i] = name[i]
  <2> DEFINE none == <<>>
  <2>1. none \in Seq(Byte) /\ PathIs(p, name, none)
    OBVIOUS
  <2> HIDE DEF none
  <2>2. \A i \in 1 .. l : p[6 + i] = name[i]
    BY <1>1, <2>1, PathBytes
  <2> QED
    BY <1>1, <2>2 DEF PathIs
<1>3. IsAppUri(p) /\ From(p, Len(APPS_URI)) = name
  BY <1>1, PathIsAppUri
<1>4. ASSUME IsRunUri(p) PROVE FALSE
  <2>1. n > 10 /\ IsSuffix(RUN_URI, p)
    BY <1>4, UriLengths DEF IsRunUri
  <2>2. HasAt(p, n - 4, RUN_URI)
    <3>1. Len(RUN_URI) <= Len(p) /\ Len(RUN_URI) = 4
      BY <1>1, <1>2, <2>1, UriLengths
    <3>2. HasAt(p, Len(p) - Len(RUN_URI), RUN_URI)
      BY <1>2, <2>1, <3>1, UriTypes, SuffixIsAt
    <3> QED
      BY <3>1, <3>2
  <2>3. p[n - 4 + 1] = 47
    <3>1. 1 \in 1 .. Len(RUN_URI)
      BY UriLengths
    <3> QED
      BY <2>2, <3>1, UriBytes DEF HasAt
  <2> DEFINE j == l - 3
  <2> HIDE DEF l, n
  <2>4. j \in 1 .. l /\ n - 4 + 1 = 6 + j
    BY <1>1, <1>2, <2>1
  <2> HIDE DEF j
  <2>5. name[j] # 47
    BY <1>1, <2>4
  <2>6. p[6 + j] = name[j]
    BY <1>2, <2>4
  <2> QED
    BY <2>3, <2>4, <2>5, <2>6
<1> QED
  BY <1>3, <1>4, Zenon DEF Resource

LEMMA ResourceOfRun ==
  ASSUME NEW name, IsName(name), NEW p, PathIs(p, name, RUN_URI)
  PROVE  Resource(p) = [path |-> "run", app |-> name]
<1>1. RUN_URI \in Seq(Byte) /\ Len(RUN_URI) = 4 /\ name \in Seq(Byte) /\ Len(name) \in Nat \ {0}
  BY UriLengths, UriTypes, NameType
<1>2. NameBefore(p, Len(RUN_URI)) = name
  BY <1>1, NameBeforeTail
<1>3. IsRunUri(p)
  <2>1. HasAt(RUN_URI, Len(RUN_URI) - Len(RUN_URI), RUN_URI)
    BY <1>1 DEF HasAt
  <2>2. IsSuffix(RUN_URI, p)
    <3>1. Len(RUN_URI) <= Len(RUN_URI)
      BY <1>1
    <3> QED
      BY <1>1, <2>1, <3>1, SuffixOfPath
  <2>3. Len(p) = 6 + Len(name) + Len(RUN_URI)
    BY DEF PathIs
  <2> QED
    BY <1>1, <2>2, <2>3, UriLengths DEF IsRunUri
<1> QED
  BY <1>2, <1>3, Zenon DEF Resource

LEMMA ResourceOfHide ==
  ASSUME NEW name, IsName(name), NEW p, PathIs(p, name, RUN_URI \o HIDE_URI)
  PROVE  Resource(p) = [path |-> "hide", app |-> name]
<1> DEFINE t == RUN_URI \o HIDE_URI
<1>1. /\ t \in Seq(Byte) /\ t # <<>> /\ t[1] = 47 /\ Len(t) = 9 /\ HasAt(t, 4, HIDE_URI) /\ t[6] = 104
      /\ PathIs(p, name, t)
  <2>1. IsTail(t) /\ Len(t) = 9 /\ HasAt(t, 4, HIDE_URI) /\ t[6] = 104
    BY HideTail
  <2>2. t # <<>>
    BY <2>1
  <2> HIDE DEF t
  <2> QED
    BY <2>1, <2>2 DEF IsTail, t
<1>2. name \in Seq(Byte) /\ Len(name) \in Nat \ {0}
  BY NameType
<1> HIDE DEF t
<1>3. NameBefore(p, Len(HIDE_URI) + Len(RUN_URI)) = name
  <2>1. NameBefore(p, Len(t)) = name
    BY <1>1, NameBeforeTail
  <2>2. Len(HIDE_URI) + Len(RUN_URI) = Len(t)
    BY <1>1, UriLengths
  <2> QED
    BY <2>1, <2>2
<1>4. ~IsAppUri(p)
  BY <1>1, PathIsAppUri
<1>5. ~IsRunUri(p)
  <2>1. Len(RUN_URI) <= Len(t) /\ Len(t) - Len(RUN_URI) = 5 /\ 1 \in 1 .. Len(RUN_URI)
    BY <1>1, UriLengths
  <2>2. ~HasAt(t, 5, RUN_URI)
    <3>1. t[5 + 1] # RUN_URI[1]
      BY <1>1, UriBytes
    <3> QED
      BY <2>1, <3>1 DEF HasAt
  <2>3. IsSuffix(RUN_URI, p) <=> HasAt(t, Len(t) - Len(RUN_URI), RUN_URI)
    BY <1>1, <1>2, <2>1, UriTypes, SuffixOfPath, ZenonT(30)
  <2> QED
    BY <2>1, <2>2, <2>3 DEF IsRunUri
<1>6. IsHideUri(p)
  <2>1. Len(HIDE_URI) <= Len(t) /\ Len(t) - Len(HIDE_URI) = 4
    BY <1>1, UriLengths
  <2>2. IsSuffix(HIDE_URI, p) <=> HasAt(t, Len(t) - Len(HIDE_URI), HIDE_URI)
    BY <1>1, <1>2, <2>1, UriTypes, SuffixOfPath, ZenonT(30)
  <2>3. Len(p) = 6 + Len(name) + Len(t)
    BY <1>1 DEF PathIs
  <2>4. Len(p) > Len(HIDE_URI) + Len(RUN_URI) + Len(APPS_URI)
    BY <1>1, <1>2, <2>3, UriLengths
  <2> QED
    BY <1>1, <2>1, <2>2, <2>4 DEF IsHideUri
<1> QED
  BY <1>3, <1>4, <1>5, <1>6, Zenon DEF Resource

LEMMA ResourceOfData ==
  ASSUME NEW name, IsName(name), NEW p, PathIs(p, name, DIAL_DATA_URI)
  PROVE  Resource(p) = [path |-> "data", app |-> name]
<1> DEFINE t == DIAL_DATA_URI
           n == Len(p)
<1>1. /\ t \in Seq(Byte) /\ t # <<>> /\ t[1] = 47 /\ Len(t) = 10 /\ t[6] = 95 /\ t[7] = 100
      /\ \A i \in 2 .. Len(t) : t[i] # 47
  BY DataTail, DataUriBytes, UriLengths DEF IsTail
<1>2. name \in Seq(Byte) /\ Len(name) \in Nat \ {0}
  BY NameType
<1>3. parse_app_name(p) = name
  BY <1>1, AppNameOfPath
<1>4. ~IsAppUri(p)
  BY <1>1, PathIsAppUri
<1> HIDE DEF t
<1>5. ~IsRunUri(p)
  <2>1. Len(RUN_URI) <= Len(t) /\ Len(t) - Len(RUN_URI) = 6 /\ 1 \in 1 .. Len(RUN_URI)
    BY <1>1, UriLengths
  <2>2. ~HasAt(t, 6, RUN_URI)
    <3>1. t[6 + 1] # RUN_URI[1]
      BY <1>1, UriBytes
    <3> QED
      BY <2>1, <3>1 DEF HasAt
  <2>3. IsSuffix(RUN_URI, p) <=> HasAt(t, Len(t) - Len(RUN_URI), RUN_URI)
    BY <1>1, <1>2, <2>1, UriTypes, SuffixOfPath, ZenonT(30) DEF t
  <2> QED
    BY <2>1, <2>2, <2>3 DEF IsRunUri
<1>6. ~IsHideUri(p)
  <2>1. Len(HIDE_URI) <= Len(t) /\ Len(t) - Len(HIDE_URI) = 5 /\ 1 \in 1 .. Len(HIDE_URI)
    BY <1>1, UriLengths
  <2>2. ~HasAt(t, 5, HIDE_URI)
    <3>1. t[5 + 1] # HIDE_URI[1]
      BY <1>1, UriBytes
    <3> QED
      BY <2>1, <3>1 DEF HasAt
  <2>3. IsSuffix(HIDE_URI, p) <=> HasAt(t, Len(t) - Len(HIDE_URI), HIDE_URI)
    BY <1>1, <1>2, <2>1, UriTypes, SuffixOfPath, ZenonT(30) DEF t
  <2> QED
    BY <2>1, <2>2, <2>3 DEF IsHideUri
<1>7. IsDataUri(p)
  <2> DEFINE k == 6 + Len(name)
             at == {i \in 1 .. n - Len(t) + 1 : SubSeq(p, i, i + Len(t) - 1) = t}
  <2>1. p \in Seq(Byte) /\ n = 6 + Len(name) + Len(t) /\ HasAt(p, k, t)
    BY DEF PathIs, t
  <2>2. k \in Nat /\ k + 1 \in 1 .. n - Len(t) + 1 /\ k + 1 + Len(t) - 1 = k + Len(t)
    BY <1>1, <1>2, <2>1
  <2> HIDE DEF k
  <2>3. SubSeq(p, k + 1, k + Len(t)) = t
    <3>1. p \in Seq(Byte) /\ HasAt(p, k, t)
      BY <2>1
    <3>2. t \in Seq(Byte) /\ k \in Nat
      BY <1>1, <2>2
    <3> QED
      BY <3>1, <3>2, PartAt
  <2>4. k + 1 \in at
    BY <2>2, <2>3
  <2>5. FirstAt(t, p) = IF at = {} THEN 0 ELSE Min(at)
    BY DEF FirstAt
  <2>6. at \subseteq Nat \ {0}
    <3>1. \A i \in 1 .. n - Len(t) + 1 : i \in Nat \ {0}
      BY <1>1, <2>1
    <3> QED
      BY <3>1
  <2> HIDE DEF at
  <2>7. FirstAt(t, p) # 0
    <3>1. at # {}
      BY <2>4
    <3>2. (IF at # {} THEN Min(at) ELSE 0) # 0
      BY <2>6, <3>1, SelectsSome
    <3> QED
      BY <2>5, <3>1, <3>2
  <2> QED
    BY <2>7 DEF IsDataUri, t
<1> QED
  BY <1>3, <1>4, <1>5, <1>6, <1>7, Zenon DEF Resource

LEMMA HandlerOf ==
  ASSUME NEW name, IsName(name), NEW tail, IsTail(tail), NEW p, PathIs(p, name, tail),
         NEW path, Resource(p) = [path |-> path, app |-> name], NEW method, NEW op,
         Operation(method, [path |-> path, app |-> name]) = op
  PROVE  request_handler(method, p) = [op |-> op, app |-> name]
<1>1. p \in Seq(Byte) /\ IsClean(p)
  BY PathIsClean
<1>2. remove_double_dots_and_double_slashes(p) = p
  BY <1>1, CleanKept
<1>3. [path |-> path, app |-> name].app = name
  OBVIOUS
<1> QED
  BY <1>2, <1>3, Zenon DEF request_handler

LEMMA HandlersOfName ==
  ASSUME NEW name, IsName(name)
  PROVE  /\ request_handler("POST", APPS_URI \o name) = [op |-> "start", app |-> name]
         /\ request_handler("GET", APPS_URI \o name) = [op |-> "status", app |-> name]
         /\ request_handler("DELETE", APPS_URI \o name \o RUN_URI) = [op |-> "stop", app |-> name]
         /\ request_handler("POST", APPS_URI \o name \o RUN_URI \o HIDE_URI)
              = [op |-> "hide", app |-> name]
         /\ request_handler("POST", APPS_URI \o name \o DIAL_DATA_URI)
              = [op |-> "data", app |-> name]
<1> DEFINE app == APPS_URI \o name
           res(path) == [path |-> path, app |-> name]
<1>1. name \in Seq(Byte) /\ name # <<>>
  <2>1. name \in Seq(Byte) /\ Len(name) # 0
    BY NameType
  <2> QED
    BY <2>1
<1>2. APPS_URI \in Seq(Byte) /\ RUN_URI \in Seq(Byte) /\ HIDE_URI \in Seq(Byte)
  BY UriTypes
<1>3. app \in Seq(Byte)
  BY <1>1, <1>2, ConcatProperties
<1>4. \A path : res(path).path = path /\ res(path).app = name
  OBVIOUS
<1> HIDE DEF res
<1>5. Operation("POST", res("app")) = "start" /\ Operation("GET", res("app")) = "status"
  BY <1>4 DEF Operation
<1>6. Operation("DELETE", res("run")) = "stop" /\ Operation("POST", res("hide")) = "hide"
  BY <1>1, <1>4 DEF Operation
<1>7. Operation("POST", res("data")) = "data"
  BY <1>4 DEF Operation
<1>8. /\ request_handler("POST", app) = [op |-> "start", app |-> name]
      /\ request_handler("GET", app) = [op |-> "status", app |-> name]
  <2> DEFINE none == <<>>
  <2>1. none \in Seq(Byte) /\ app \o none = app /\ IsTail(none)
    BY <1>3, ConcatEmptySeq, NoTail
  <2>2. PathIs(app \o none, name, none)
    <3> HIDE DEF none
    <3> QED
      BY <1>1, <2>1, PathOf
  <2> HIDE DEF app
  <2>3. PathIs(app, name, <<>>) /\ IsTail(<<>>)
    BY <2>1, <2>2
  <2>4. Resource(app) = res("app")
    BY <2>3, ResourceOfApp DEF res
  <2> QED
    BY <1>5, <2>3, <2>4, HandlerOf DEF res
<1>9. request_handler("DELETE", app \o RUN_URI) = [op |-> "stop", app |-> name]
  <2>1. PathIs(app \o RUN_URI, name, RUN_URI)
    BY <1>1, <1>2, PathOf
  <2> HIDE DEF app
  <2>2. Resource(app \o RUN_URI) = res("run")
    BY <2>1, ResourceOfRun DEF res
  <2> QED
    BY <1>6, <2>1, <2>2, RunTail, HandlerOf DEF res
<1>10. request_handler("POST", app \o RUN_URI \o HIDE_URI) = [op |-> "hide", app |-> name]
  <2> DEFINE t == RUN_URI \o HIDE_URI
             p == app \o t
  <2>1. t \in Seq(Byte) /\ IsTail(t)
    BY HideTail DEF IsTail
  <2>2. PathIs(p, name, t)
    BY <1>1, <2>1, PathOf
  <2>3. app \o RUN_URI \o HIDE_URI = p
    BY <1>2, <1>3, ConcatAssociative, SMTT(30)
  <2> HIDE DEF app, p
  <2>4. Resource(p) = res("hide")
    BY <2>2, ResourceOfHide DEF res
  <2> HIDE DEF t
  <2>5. request_handler("POST", p) = [op |-> "hide", app |-> name]
    BY <1>6, <2>1, <2>2, <2>4, HandlerOf DEF res
  <2> QED
    BY <2>3, <2>5
<1>11. request_handler("POST", app \o DIAL_DATA_URI) = [op |-> "data", app |-> name]
  <2>1. PathIs(app \o DIAL_DATA_URI, name, DIAL_DATA_URI)
    BY <1>1, UriTypes, PathOf
  <2> HIDE DEF app
  <2>2. Resource(app \o DIAL_DATA_URI) = res("data")
    BY <2>1, ResourceOfData DEF res
  <2> QED
    BY <1>7, <2>1, <2>2, DataTail, HandlerOf DEF res
<1> QED
  BY <1>8, <1>9, <1>10, <1>11

\* A name that does not begin with two dots is one that IsName describes.
LEMMA NameUnlessDots ==
  ASSUME NEW name \in Seq(NameByte), Len(name) \in 1 .. MaxName,
         ~IsPrefix(<<Ch.dot, Ch.dot>>, name)
  PROVE  IsName(name)
<1> DEFINE d == <<Ch.dot, Ch.dot>>
<1>1. NameByte \subseteq Byte
  BY DEF NameByte
<1>2. name \in Seq(Byte)
  BY <1>1, SeqMonotonic
<1>3. d \in Seq(Byte) /\ Len(d) = 2 /\ d[1] = Ch.dot /\ d[2] = Ch.dot
  BY DEF Ch, Byte
<1> HIDE DEF d
<1>4. ~HasAt(name, 0, d)
  BY <1>2, <1>3, PrefixIsAt DEF d
<1>5. ASSUME DotsAt(name, 1) PROVE HasAt(name, 0, d)
  <2>1. 2 <= Len(name) /\ name[1] = Ch.dot /\ name[2] = Ch.dot
    BY <1>5 DEF DotsAt
  <2>2. \A k \in 1 .. 2 : name[0 + k] = d[k]
    BY <1>3, <2>1
  <2> QED
    BY <1>3, <2>1, <2>2 DEF HasAt
<1> QED
  BY <1>4, <1>5 DEF IsName
===============================================================================
