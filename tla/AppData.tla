------------------------------- MODULE AppData -------------------------------
(***************************************************************************)
(* server/dial_data.c: the key/value pairs of an application, in memory    *)
(* (app->dial_data) and in the file that a restarted server reads them     *)
(* from.  What the file holds is a text.                                   *)
(***************************************************************************)
EXTENDS UrlLib

CONSTANT MaxWord         \* DIAL_KEY_OR_VALUE_MAX_LEN

ASSUME WordAssumption == MaxWord \in Nat \ {0}

VARIABLES
  dial_data,     \* app->dial_data: a sequence of pairs
  file           \* what the application's file holds, NoFile if there is none

NoFile == <<0>>

Cut(word) == SubSeq(word, 1, IF Len(word) < MaxWord THEN Len(word) ELSE MaxWord)

\* A line that store_dial_data writes.
Line(pair) == Cut(pair.key) \o <<Ch.space>> \o Cut(pair.value) \o <<Ch.lf>>

FileText(data) == FlattenSeq([i \in DOMAIN data |-> Line(data[i])])

\* The i-th pair that fscanf reads: if the file ends after its key, the value
\* is what the buffer still holds from the pair before.
PairRead(words, i) ==
  [key |-> words[2 * i - 1],
   value |-> IF 2 * i <= Len(words) THEN words[2 * i]
             ELSE IF i > 1 THEN words[2 * i - 2] ELSE <<>>]

\* retrieve_dial_data: the last pair of the file comes first.
retrieve_dial_data(text) ==
  LET words == Fields(text, Blanks)
  IN  IF text = NoFile THEN <<>>
      ELSE Reverse([i \in 1 .. (Len(words) + 1) \div 2 |-> PairRead(words, i)])

\* fopen(name, "w"): the old contents are gone.
Truncate == file' = <<>>

\* The lines are written out when the file is closed: fprintf leaves them in the
\* buffer of stdio until then, as long as they fit into it (assumed of the platform).
WriteOut == file' = FileText(dial_data)

\* The disk is full: a part is written, and nobody looks at the error.
WriteOutPart ==
  \E n \in 0 .. Len(FileText(dial_data)) - 1 : file' = SubSeq(FileText(dial_data), 1, n)
===============================================================================
