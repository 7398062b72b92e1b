---------------------------- MODULE ContentLine ----------------------------
(***************************************************************************)
(* LineParser::parse (crates/vobject-core/src/contentline.rs): one logical *)
(* line read from left to right into a property, in strict or lenient mode.*)
(***************************************************************************)
EXTENDS Texts, FiniteSets

CONSTANT Letters     \* the characters of strict names

VARIABLES
  lenient,
  line,        \* the whole line
  rest,        \* what is left to read
  phase,       \* where in the line: the next thing to read, "done" or "failed"
  group, name, params, value,   \* the property
  repairs,     \* the kinds of the repairs made
  error        \* the ErrorKind, when failed
propVars == <<group, name, params, value>>
lineVars == <<lenient, line, rest, phase, propVars, repairs, error>>

NoGroup == <<>>      \* Option::None; a group cannot be empty
Controls == {"BEL"}

IsStrictName(s) == Within(s, Letters)
IsLenientName(s) ==
  s # <<>> /\ Without(s, Controls \cup {"LF", "CR", ";", ":", "=", ",", Quote})

Peek(s) == IF s = <<>> THEN "end" ELSE Head(s)

-----------------------------------------------------------------------------
Start(l) ==
  /\ line = l /\ rest = l /\ phase = "name"
  /\ group = NoGroup /\ name = <<>> /\ params = <<>> /\ value = <<>>
  /\ repairs = <<>> /\ error = "none"

Keep == UNCHANGED <<lenient, line>>

Fail(kind) ==
  /\ phase' = "failed" /\ error' = kind
  /\ UNCHANGED <<rest, propVars, repairs>> /\ Keep

\* Make a repair if lenient; the caller fails otherwise.
Repaired(kinds) == repairs' = repairs \o kinds

\* check_text: a repair for each control character.
ControlRepairs(s) ==
  LET controls == SelectSeq(s, LAMBDA c : c \in Controls)
  IN  [i \in DOMAIN controls |-> "KeptControlCharacter"]

TextOk(s) == lenient \/ Without(s, Controls)

-----------------------------------------------------------------------------
(* The name section. *)

ReadName ==
  LET section == UpTo(rest, {";", ":"})
      dotted == \E i \in DOMAIN section : section[i] = "."
      g == IF dotted THEN UpTo(section, {"."}) ELSE NoGroup
      n == IF dotted THEN Tail(From(section, {"."})) ELSE section
      strict == IsStrictName(n) /\ (dotted => IsStrictName(g))
      allowed == IsLenientName(n) /\ (dotted => IsLenientName(g))
  IN
  /\ phase = "name"
  /\ IF strict \/ (lenient /\ allowed)
       THEN /\ group' = g /\ name' = n
            /\ rest' = From(rest, {";", ":"}) /\ phase' = "params"
            /\ Repaired(IF strict THEN <<>> ELSE <<"NonstandardName">>)
            /\ UNCHANGED <<params, value, error>> /\ Keep
       ELSE Fail("InvalidName")

NextParam ==
  /\ phase = "params" /\ Peek(rest) = ";"
  /\ rest' = Tail(rest) /\ phase' = "param"
  /\ UNCHANGED <<propVars, repairs, error>> /\ Keep

ReadValue ==
  /\ phase = "params" /\ Peek(rest) = ":"
  /\ IF TextOk(Tail(rest))
       THEN /\ value' = Tail(rest) /\ rest' = <<>> /\ phase' = "done"
            /\ Repaired(ControlRepairs(Tail(rest)))
            /\ UNCHANGED <<group, name, params, error>> /\ Keep
       ELSE Fail("ControlCharacter")

NoColon ==
  /\ phase = "params" /\ rest = <<>>
  /\ Fail("MissingColon")

-----------------------------------------------------------------------------
(* parse_param. *)

ParamName == UpTo(rest, {"=", ";", ":", Quote})
AfterName == From(rest, {"=", ";", ":", Quote})

AddParam(p, r) == params' = Append(params, p) /\ rest' = r

\* A parameter without "=", as in vCard 2.1; an empty one is dropped.
BareParam ==
  /\ phase = "param" /\ Peek(AfterName) \in {";", ":"}
  /\ IF ~lenient \/ (ParamName # <<>> /\ ~IsLenientName(ParamName))
       THEN Fail("InvalidParamName")
       ELSE /\ IF ParamName = <<>>
                 THEN rest' = AfterName /\ Repaired(<<"DroppedLine">>) /\ UNCHANGED params
                 ELSE /\ AddParam([name |-> ParamName, values |-> <<>>], AfterName)
                      /\ Repaired(<<"BareParameter">>)
            /\ phase' = "params"
            /\ UNCHANGED <<group, name, value, error>> /\ Keep

NamedParam ==
  /\ phase = "param" /\ Peek(AfterName) = "="
  /\ IF IsStrictName(ParamName) \/ (lenient /\ IsLenientName(ParamName))
       THEN /\ AddParam([name |-> ParamName, values |-> <<>>], Tail(AfterName))
            /\ Repaired(IF IsStrictName(ParamName) THEN <<>> ELSE <<"NonstandardName">>)
            /\ phase' = "values"
            /\ UNCHANGED <<group, name, value, error>> /\ Keep
       ELSE Fail("InvalidParamName")

BrokenParam ==
  /\ phase = "param" /\ Peek(AfterName) \in {Quote, "end"}
  /\ Fail(IF AfterName = <<>> THEN "MissingColon" ELSE "InvalidParamName")

-----------------------------------------------------------------------------
(* parse_param_value. *)

Delimiters == {",", ";", ":"}

\* The value goes to the last parameter; a comma asks for another one.
AddValue(v, r) ==
  /\ params' = [params EXCEPT ![Len(params)].values = Append(@, v)]
  /\ IF Peek(r) = "," THEN rest' = Tail(r) /\ phase' = "values"
                      ELSE rest' = r /\ phase' = "params"
  /\ UNCHANGED <<group, name, value, error>> /\ Keep

\* A value that is not quoted, up to the next delimiter, with the repair that
\* its quotes call for.
Raw == UpTo(rest, Delimiters)
RawValue(kinds) ==
  /\ AddValue(CaretDecode(Raw), From(rest, Delimiters))
  /\ Repaired(kinds \o ControlRepairs(Raw))

PlainValue ==
  /\ phase = "values" /\ Peek(rest) # Quote
  /\ IF ~lenient /\ ~Without(Raw, {Quote}) THEN Fail("InvalidParamValue")
     ELSE IF ~TextOk(Raw) THEN Fail("ControlCharacter")
     ELSE RawValue(IF Without(Raw, {Quote}) THEN <<>> ELSE <<"KeptStrayQuote">>)

UnterminatedQuote ==
  /\ phase = "values" /\ Peek(rest) = Quote /\ Without(Tail(rest), {Quote})
  /\ IF lenient THEN RawValue(<<"KeptUnterminatedQuote">>) ELSE Fail("UnterminatedQuote")

\* What follows the closing quote, up to a delimiter, is kept as well.
QuotedValue_DropsExtra ==
  LET inner == UpTo(Tail(rest), {Quote})
      after == Tail(From(Tail(rest), {Quote}))
      extra == UpTo(after, Delimiters)
  IN
  /\ phase = "values" /\ Peek(rest) = Quote /\ ~Without(Tail(rest), {Quote})
  /\ IF ~TextOk(inner) THEN Fail("ControlCharacter")
     ELSE IF extra # <<>> /\ ~lenient THEN Fail("InvalidParamValue")
     ELSE /\ AddValue(CaretDecode(inner), From(after, Delimiters))
          /\ Repaired(ControlRepairs(inner) \o
                      IF extra = <<>> THEN <<>> ELSE <<"KeptStrayQuote">>)
QuotedValue_ExtraSilent ==
  LET inner == UpTo(Tail(rest), {Quote})
      after == Tail(From(Tail(rest), {Quote}))
      extra == UpTo(after, Delimiters)
  IN
  /\ phase = "values" /\ Peek(rest) = Quote /\ ~Without(Tail(rest), {Quote})
  /\ IF ~TextOk(inner) THEN Fail("ControlCharacter")
     ELSE IF extra # <<>> /\ ~lenient THEN Fail("InvalidParamValue")
     ELSE /\ AddValue(CaretDecode(inner) \o CaretDecode(extra), From(after, Delimiters))
          /\ Repaired(ControlRepairs(inner) \o ControlRepairs(extra))
QuotedValue ==
  LET inner == UpTo(Tail(rest), {Quote})
      after == Tail(From(Tail(rest), {Quote}))
      extra == UpTo(after, Delimiters)
  IN
  /\ phase = "values" /\ Peek(rest) = Quote /\ ~Without(Tail(rest), {Quote})
  /\ IF ~TextOk(inner) THEN Fail("ControlCharacter")
     ELSE IF extra # <<>> /\ ~lenient THEN Fail("InvalidParamValue")
     ELSE /\ AddValue(CaretDecode(inner) \o CaretDecode(extra), From(after, Delimiters))
          /\ Repaired(ControlRepairs(inner) \o
                      (IF extra = <<>> THEN <<>> ELSE <<"KeptStrayQuote">>) \o
                      ControlRepairs(extra))

-----------------------------------------------------------------------------
ParseStep ==
  \/ ReadName \/ NextParam \/ ReadValue \/ NoColon
  \/ BareParam \/ NamedParam \/ BrokenParam
  \/ PlainValue \/ UnterminatedQuote \/ QuotedValue

Property == [group |-> group, name |-> name, params |-> params, value |-> value]
=============================================================================
