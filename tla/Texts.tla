------------------------------ MODULE Texts ---------------------------------
(***************************************************************************)
(* What the crate does with strings: a text is a sequence of characters    *)
(* or, where nothing depends on single characters, of words and numerals;  *)
(* and crates/vobject-core/src/escape.rs, the escapes of TEXT values and   *)
(* of parameter values.  "LF", "CR" and "BEL" are a line feed, a carriage  *)
(* return and some control character.                                      *)
(***************************************************************************)
EXTENDS Integers, Sequences, SequencesExt

Within(s, S) == s # <<>> /\ \A i \in DOMAIN s : s[i] \in S
Without(s, S) == \A i \in DOMAIN s : s[i] \notin S
Has(s, S) == ~Without(s, S)
StartsWith(s, S) == s # <<>> /\ Head(s) \in S
Dropping(s, S) == SelectSeq(s, LAMBDA c : c \notin S)

\* What comes before the first of some characters, from there on, and after it.
UpTo(s, stop) ==
  LET ends == {i \in DOMAIN s : s[i] \in stop} \cup {Len(s) + 1}
  IN  SubSeq(s, 1, (CHOOSE i \in ends : \A j \in ends : i <= j) - 1)
From(s, stop) == SubSeq(s, Len(UpTo(s, stop)) + 1, Len(s))
After(s, stop) == SubSeq(s, Len(UpTo(s, stop)) + 2, Len(s))

Trim(s) ==
  LET solid == {i \in DOMAIN s : s[i] # " "}
  IN  IF solid = {} THEN <<>>
      ELSE SubSeq(s, CHOOSE i \in solid : \A j \in solid : i <= j,
                     CHOOSE i \in solid : \A j \in solid : j <= i)

\* The pieces of a text between some of its positions.
CutAt(s, cuts) ==
  LET ends == SelectSeq([i \in 1..(Len(s) + 1) |-> i], LAMBDA i : i \in cuts \/ i > Len(s))
  IN  [k \in DOMAIN ends |-> SubSeq(s, IF k = 1 THEN 1 ELSE ends[k - 1] + 1, ends[k] - 1)]
SplitOn(s, sep) == CutAt(s, {i \in DOMAIN s : s[i] = sep})

JoinWith(parts, sep) ==
  FlattenSeq([i \in DOMAIN parts |-> (IF i = 1 THEN <<>> ELSE <<sep>>) \o parts[i]])

Quote == "\""
Backslash == "\\"

-----------------------------------------------------------------------------
(* TEXT values. *)

EscapeText(s) ==
  FlattenSeq([i \in DOMAIN s |->
    CASE s[i] \in {Backslash, ";", ","} -> <<Backslash, s[i]>>
      [] s[i] \in {"LF", "CR"} -> <<Backslash, "n">>
      [] OTHER -> <<s[i]>>])

\* The text, and how many invalid escapes were kept: strict mode refuses any.
UnescapeText(s) ==
  LET Keep(c, r) == [text |-> <<c>> \o r.text, invalid |-> r.invalid]
      from[i \in 1..(Len(s) + 1)] ==
        IF i > Len(s) THEN [text |-> <<>>, invalid |-> 0]
        ELSE IF s[i] # Backslash THEN Keep(s[i], from[i + 1])
        ELSE IF i = Len(s) THEN [text |-> <<Backslash>>, invalid |-> 1]
        ELSE LET c == s[i + 1]
                 r == from[i + 2]
             IN  IF c \in {Backslash, ";", ","} THEN Keep(c, r)
                 ELSE IF c \in {"n", "N"} THEN Keep("LF", r)
                 ELSE [text |-> <<Backslash, c>> \o r.text, invalid |-> r.invalid + 1]
  IN  from[1]

\* split_unescaped: the pieces between separators that no backslash escapes.
SplitUnescaped(s, sep) ==
  LET escaped[i \in DOMAIN s] == i > 1 /\ s[i - 1] = Backslash /\ ~escaped[i - 1]
  IN  CutAt(s, {i \in DOMAIN s : s[i] = sep /\ ~escaped[i]})

-----------------------------------------------------------------------------
(* Parameter values: RFC 6868. *)

CaretFor == [c \in {"^", "LF", "CR", Quote} |->
               CASE c = "^" -> "^" [] c = Quote -> "'" [] OTHER -> "n"]

CaretEncode(s) ==
  FlattenSeq([i \in DOMAIN s |->
    IF s[i] \in DOMAIN CaretFor THEN <<"^", CaretFor[s[i]]>> ELSE <<s[i]>>])

Careted == [c \in {"^", "n", "'"} |->
              CASE c = "^" -> "^" [] c = "n" -> "LF" [] c = "'" -> Quote]

\* Undefined sequences are kept.
CaretDecode(s) ==
  LET from[i \in 1..(Len(s) + 1)] ==
        IF i > Len(s) THEN <<>>
        ELSE IF s[i] = "^" /\ i < Len(s) /\ s[i + 1] \in DOMAIN Careted
          THEN <<Careted[s[i + 1]]>> \o from[i + 2]
        ELSE <<s[i]>> \o from[i + 1]
  IN  from[1]

\* param_quoting
NeedsQuotes(encoded) == \E i \in DOMAIN encoded : encoded[i] \in {":", ";", ","}
=============================================================================
