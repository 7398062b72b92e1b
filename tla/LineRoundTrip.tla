--------------------------- MODULE LineRoundTrip ---------------------------
(***************************************************************************)
(* Content lines read, written (write.rs: property_line) and read again;   *)
(* and properties built by a program, written and read.                    *)
(***************************************************************************)
EXTENDS ContentLine

CONSTANTS
  Inputs,     \* lines to read
  Models      \* properties to write, their value as a list of texts

VARIABLES
  trip,       \* 1 while a line is read, 2 once one has been written
  model,      \* the property that was written
  texts       \* the texts of its value, when it was built from some
vars == <<lineVars, trip, model, texts>>

NoModel == [group |-> NoGroup, name |-> <<>>, params |-> <<>>, value |-> <<>>]
NoTexts == <<>>

-----------------------------------------------------------------------------
(* The writer. *)

\* check_property
Writable(p) ==
  /\ IsLenientName(p.name)
  /\ p.group # NoGroup => IsLenientName(p.group)
  /\ \A i \in DOMAIN p.params : IsLenientName(p.params[i].name)
  /\ Without(p.value, {"LF", "CR"})

WriteParam(p) ==
  LET Wire(v) == IF NeedsQuotes(v) THEN <<Quote>> \o v \o <<Quote>> ELSE v
  IN  IF p.values = <<>> THEN p.name
      ELSE p.name \o <<"=">> \o
             JoinWith([i \in DOMAIN p.values |-> Wire(CaretEncode(p.values[i]))], ",")

NameSection(p) == (IF p.group = NoGroup THEN <<>> ELSE p.group \o <<".">>) \o p.name
PropertyLine(p) ==
  NameSection(p)
    \o FlattenSeq([i \in DOMAIN p.params |-> <<";">> \o WriteParam(p.params[i])])
    \o <<":">> \o p.value

\* The value of a TEXT list, and back.
WriteTexts(ts) == JoinWith([i \in DOMAIN ts |-> EscapeText(ts[i])], ",")
ReadTexts(v) ==
  LET parts == SplitUnescaped(v, ",")
  IN  [i \in DOMAIN parts |-> UnescapeText(parts[i])]

-----------------------------------------------------------------------------
Init ==
  /\ lenient \in BOOLEAN
  /\ \/ /\ \E l \in Inputs : Start(l)
        /\ trip = 1 /\ model = NoModel /\ texts = NoTexts
     \/ /\ trip = 2
        /\ \E m \in Models :
             /\ texts = m.texts
             /\ model = [group |-> m.group, name |-> m.name, params |-> m.params,
                         value |-> WriteTexts(m.texts)]
        /\ Writable(model)
        /\ Start(PropertyLine(model))

Read == ParseStep /\ UNCHANGED <<trip, model, texts>>

\* Any reader may get what was written.
Write ==
  /\ trip = 1 /\ phase = "done"
  /\ trip' = 2 /\ model' = Property /\ texts' = NoTexts
  /\ lenient' \in BOOLEAN
  /\ line' = PropertyLine(Property) /\ rest' = PropertyLine(Property)
  /\ phase' = IF Writable(Property) THEN "name" ELSE "unwritable"
  /\ group' = NoGroup /\ name' = <<>> /\ params' = <<>> /\ value' = <<>>
  /\ repairs' = <<>> /\ error' = "none"

Next == Read \/ Write

Spec == Init /\ [][Next]_vars

-----------------------------------------------------------------------------
(* The grammar of RFC 5545 3.1, by splitting at the delimiters outside of   *)
(* quotes.                                                                   *)

InQuotes(s, i) == Cardinality({j \in 1..(i - 1) : s[j] = Quote}) % 2 = 1

Cuts(s, c) == {i \in DOMAIN s : s[i] = c /\ ~InQuotes(s, i)}

Split(s, c) ==
  LET cuts == SetToSortSeq(Cuts(s, c) \cup {0, Len(s) + 1}, LAMBDA a, b : a < b)
  IN  [i \in 1..(Len(cuts) - 1) |-> SubSeq(s, cuts[i] + 1, cuts[i + 1] - 1)]

\* The line's value is what follows its first colon outside of quotes.
Colon(s) ==
  CHOOSE i \in Cuts(s, ":") : \A j \in Cuts(s, ":") : i <= j
Sections(s) == Split(SubSeq(s, 1, Colon(s) - 1), ";")

IsQuoted(v) == Len(v) >= 2 /\ Head(v) = Quote /\ Last(v) = Quote
ParamValueOk(v) ==
  Without(IF IsQuoted(v) THEN SubSeq(v, 2, Len(v) - 1) ELSE v, {Quote})

ValuesOf(section) == Split(Tail(From(section, {"="})), ",")
ParamOk(section) ==
  /\ \E i \in DOMAIN section : section[i] = "="
  /\ IsStrictName(UpTo(section, {"="}))
  /\ \A k \in DOMAIN ValuesOf(section) : ParamValueOk(ValuesOf(section)[k])

NameOk(section) ==
  LET parts == Split(section, ".")
  IN  Len(parts) \in {1, 2} /\ \A i \in DOMAIN parts : IsStrictName(parts[i])

InGrammar(s) ==
  /\ Without(s, Controls)
  /\ Cuts(s, ":") # {}
  /\ NameOk(Sections(s)[1])
  /\ \A i \in 2..Len(Sections(s)) : ParamOk(Sections(s)[i])

\* The property that a line of the grammar stands for.
Meaning(s) ==
  LET parts == Split(Sections(s)[1], ".")
      Decoded(v) == CaretDecode(IF IsQuoted(v) THEN SubSeq(v, 2, Len(v) - 1) ELSE v)
      Values(section) ==
        [k \in DOMAIN ValuesOf(section) |-> Decoded(ValuesOf(section)[k])]
  IN  [group |-> IF Len(parts) = 2 THEN parts[1] ELSE NoGroup,
       name |-> parts[Len(parts)],
       params |-> [i \in 1..(Len(Sections(s)) - 1) |->
                     [name |-> UpTo(Sections(s)[i + 1], {"="}),
                      values |-> Values(Sections(s)[i + 1])]],
       value |-> SubSeq(s, Colon(s) + 1, Len(s))]

-----------------------------------------------------------------------------
(* Properties. *)

\* error.rs: "the set of repairs is empty if and only if the input would also
\* have parsed cleanly in strict mode".  Both mean that the line is in the
\* grammar, and then either mode reads the property it stands for.
CleanIffGrammar ==
  phase \in {"done", "failed"} =>
    /\ (phase = "done" /\ repairs = <<>>) = InGrammar(line)
    /\ InGrammar(line) => Property = Meaning(line)
    /\ ~lenient => repairs = <<>>

\* What the writer lets through although it cannot write it: a group or name with
\* a dot reads as the group before the first dot and the name after it, or not at
\* all when one of them is empty (check_name refuses what "cannot be written
\* unambiguously", but not that); and CR can only be written as a line break.
LineBreaks(s) == [i \in DOMAIN s |-> IF s[i] = "CR" THEN "LF" ELSE s[i]]
Dotted(p) == Has(NameSection(p), {"."})
AsWritten(p) ==
  [group |-> IF Dotted(p) THEN UpTo(NameSection(p), {"."}) ELSE NoGroup,
   name |-> IF Dotted(p) THEN After(NameSection(p), {"."}) ELSE p.name,
   params |-> [i \in DOMAIN p.params |->
                 [p.params[i] EXCEPT !.values = [k \in DOMAIN @ |-> LineBreaks(@[k])]]],
   value |-> p.value]
Nameless(p) == p.name = <<>> \/ (Dotted(p) /\ p.group = <<>>)

\* What calls for a repair by itself: a name, a bare parameter or a control
\* character that no line of the grammar can have.
NeedsRepair(p) ==
  \/ p.group # NoGroup /\ ~IsStrictName(p.group)
  \/ ~IsStrictName(p.name)
  \/ \E i \in DOMAIN p.params :
       \/ ~IsStrictName(p.params[i].name) \/ p.params[i].values = <<>>
       \/ \E k \in DOMAIN p.params[i].values : ~Without(p.params[i].values[k], Controls)
  \/ ~Without(p.value, Controls)

Parsed == texts = NoTexts


\* Lenient reading keeps every character, stray quotes and all, in its place:
\* but for the quotes themselves, which may come out moved or encoded, writing
\* the property gives the line again, unless an empty parameter was dropped.
NothingLost ==
  (phase = "done" /\ Without(line, {"^", "'"})
     /\ \A i \in DOMAIN repairs : repairs[i] # "DroppedLine") =>
    LET Plain(s) == SelectSeq(s, LAMBDA c : c \notin {Quote, "^", "'"})
    IN  /\ Plain(PropertyLine(Property)) = Plain(line)
        /\ Without(line, {Quote}) => PropertyLine(Property) = line
=============================================================================
