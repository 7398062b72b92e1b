------------------------------ MODULE Scalars -------------------------------
(***************************************************************************)
(* Dates, times, offsets, durations, periods and numbers as text           *)
(* (crates/vobject-core/src/value).  A parser answers with the set of its  *)
(* results, empty when it refuses; a result is the text in which the value *)
(* is displayed, which tells as much as the value.                         *)
(*                                                                         *)
(* The digits of dates, times and offsets are cut into the fields of two   *)
(* and four digits that they stand for; other runs of digits are one       *)
(* numeral, with its sign.                                                 *)
(***************************************************************************)
EXTENDS Texts, Gregorian, FiniteSets, TLC

CONSTANTS
  Year,         \* the fields of four digits, with their numbers
  TwoDigits,    \* the fields of two digits, with their numbers
  Numeral,      \* the numerals, with their numbers
  Float,        \* the finite decimal numbers, as format_float writes them
  Base64,       \* the base64 data, as it is encoded again
  Cased         \* the words that have two cases: <<upper, lower>>

UpperOf == [w \in {c[2] : c \in Cased} |-> (CHOOSE c \in Cased : c[2] = w)[1]]
LowerOf == [w \in {c[1] : c \in Cased} |-> (CHOOSE c \in Cased : c[1] = w)[2]]

Upper(w) == IF w \in DOMAIN UpperOf THEN UpperOf[w] ELSE w
Lower(w) == IF w \in DOMAIN LowerOf THEN LowerOf[w] ELSE w
UpperText(s) == [i \in DOMAIN s |-> Upper(s[i])]
LowerText(s) == [i \in DOMAIN s |-> Lower(s[i])]

TheOnly(S) == CHOOSE x \in S : TRUE

\* All the results of a sequence of parses, or nothing if one of them failed.
Every(parses) ==
  IF \E i \in DOMAIN parses : parses[i] = {} THEN {}
  ELSE {[i \in DOMAIN parses |-> TheOnly(parses[i])]}

Ts == {"T", "t"}
Fields(s, n) == Len(s) = n /\ \A i \in DOMAIN s : s[i] \in DOMAIN TwoDigits

-----------------------------------------------------------------------------
ParseDate(s) ==
  IF /\ Len(s) = 3 /\ s[1] \in DOMAIN Year /\ Fields(Tail(s), 2)
     /\ IsDate(Date(Year[s[1]], TwoDigits[s[2]], TwoDigits[s[3]]))
    THEN {s} ELSE {}

ParseTime(s) ==
  LET utc == s # <<>> /\ Last(s) \in {"Z", "z"}
      digits == IF utc THEN Front(s) ELSE s
  IN  IF /\ Fields(digits, 3)
         /\ TwoDigits[digits[1]] <= 23 /\ TwoDigits[digits[2]] <= 59 /\ TwoDigits[digits[3]] <= 60
        THEN {IF utc THEN Append(digits, "Z") ELSE digits} ELSE {}

ParseDateTime(s) ==
  {d \o <<"T">> \o t : d \in ParseDate(UpTo(s, Ts)), t \in ParseTime(After(s, Ts))}

ParseDateOrDateTime(s) == IF Has(s, Ts) THEN ParseDateTime(s) ELSE ParseDate(s)

\* -0000 is forbidden; seconds are displayed unless they are 00.
ParseOffset(s) ==
  LET fields == IF s = <<>> THEN <<>> ELSE Tail(s)
      number == [i \in DOMAIN fields |-> TwoDigits[fields[i]]]
  IN  IF /\ StartsWith(s, {"+", "-"})
         /\ Fields(fields, 2) \/ Fields(fields, 3)
         /\ \A i \in 2..Len(fields) : number[i] <= 59
         /\ s[1] = "-" => \E i \in DOMAIN number : number[i] # 0
        THEN {IF number[Len(number)] = 0 THEN SubSeq(s, 1, 3) ELSE s} ELSE {}

-----------------------------------------------------------------------------
ParseFloat(s) == IF Len(s) = 1 /\ s[1] \in DOMAIN Float THEN {<<Float[s[1]]>>} ELSE {}
Number(s) == IF Len(s) = 1 /\ s[1] \in DOMAIN Numeral THEN {Numeral[s[1]]} ELSE {}

\* Each unit after its number, those of the time after a "T"; of a unit that
\* is repeated the last number counts.  Limits on the size are left out.
DateUnits == <<"W", "D">>
TimeUnits == <<"H", "M", "S">>
IsUnit(c, units) == \E u \in DOMAIN units : Upper(c) = units[u]
InUnits(s, units) ==
  \A i \in DOMAIN s :
    IF IsUnit(s[i], units)
      THEN i > 1 /\ s[i - 1] \in DOMAIN Numeral /\ Numeral[s[i - 1]] >= 0
      ELSE s[i] \in DOMAIN Numeral /\ i < Len(s) /\ IsUnit(s[i + 1], units)

ShownUnits(s, units) ==
  LET Count(at) == IF at = {} THEN 0
                   ELSE Numeral[s[(CHOOSE i \in at : \A j \in at : j <= i) - 1]]
      Shown(n, unit) == IF n = 0 THEN <<>> ELSE <<ToString(n), unit>>
  IN  FlattenSeq([u \in DOMAIN units |->
                    Shown(Count({i \in DOMAIN s : Upper(s[i]) = units[u]}), units[u])])

ShownDuration(date, time) ==
  <<"P">> \o date \o (IF time # <<>> THEN <<"T">> \o time
                     ELSE IF date = <<>> THEN <<"T", "0", "S">> ELSE <<>>)
UnsignedDuration(dates, times, timed) ==
  IF /\ InUnits(dates, DateUnits) /\ InUnits(times, TimeUnits)
     /\ dates \o times # <<>> /\ (timed => times # <<>>)
    THEN {ShownDuration(ShownUnits(dates, DateUnits), ShownUnits(times, TimeUnits))} ELSE {}

ParseUnsigned(s) ==
  IF StartsWith(s, {"P", "p"})
    THEN UnsignedDuration(UpTo(Tail(s), Ts), After(Tail(s), Ts), Has(s, Ts)) ELSE {}
ParseDuration(s) ==
  IF StartsWith(s, {"+", "-"})
    THEN {(IF s[1] = "-" THEN <<"-">> ELSE <<>>) \o shown : shown \in ParseUnsigned(Tail(s))}
    ELSE ParseUnsigned(s)

IsDurationText(s) == StartsWith(s, {"P", "p", "+", "-"})
ParseEnd(s) == IF IsDurationText(s) THEN ParseDuration(s) ELSE ParseDateTime(s)
ParsePeriod(s) ==
  {from \o <<"/">> \o to :
     from \in ParseDateTime(UpTo(s, {"/"})), to \in ParseEnd(After(s, {"/"}))}

-----------------------------------------------------------------------------
(* Recur::parse and its Display (value/recur.rs).  A rule is the function   *)
(* from the names of its parts to their values, each a sequence of          *)
(* canonical texts, and the parts nobody knows.                             *)

\* In the order in which Display writes them; extra parts follow.
PartOrder ==
  <<"RSCALE", "FREQ", "UNTIL", "COUNT", "INTERVAL", "BYSECOND", "BYMINUTE", "BYHOUR", "BYDAY",
    "BYMONTHDAY", "BYYEARDAY", "BYWEEKNO", "BYMONTH", "BYSETPOS", "WKST", "SKIP">>
KnownParts == {PartOrder[i] : i \in DOMAIN PartOrder}
ListParts == {"BYSECOND", "BYMINUTE", "BYHOUR", "BYDAY", "BYMONTHDAY", "BYYEARDAY", "BYWEEKNO",
              "BYMONTH", "BYSETPOS"}

Frequencies == {"SECONDLY", "MINUTELY", "HOURLY", "DAILY", "WEEKLY", "MONTHLY", "YEARLY"}
WeekdayNames == {"MO", "TU", "WE", "TH", "FR", "SA", "SU"}
Skips == {"OMIT", "BACKWARD", "FORWARD"}

NonZero(n) == (-n..n) \ {0}
NumberRange(part) ==
  CASE part = "COUNT" -> Nat
    [] part = "INTERVAL" -> Nat \ {0}
    [] part = "BYSECOND" -> 0..60
    [] part = "BYMINUTE" -> 0..59
    [] part = "BYHOUR" -> 0..23
    [] part = "BYMONTHDAY" -> NonZero(31)
    [] part = "BYWEEKNO" -> NonZero(53)
    [] part \in {"BYYEARDAY", "BYSETPOS"} -> NonZero(366)

OneOf(s, words) == {t \in {UpperText(s)} : Len(t) = 1 /\ t[1] \in words}
Printed(numbers) == {<<ToString(n)>> : n \in numbers}

\* [ordinal] weekday
WeekdayNum(s) ==
  IF Len(s) < 2 THEN OneOf(s, WeekdayNames)
  ELSE {n \o d : n \in Printed(Number(Front(s)) \cap NonZero(53)),
                 d \in OneOf(<<Last(s)>>, WeekdayNames)}

\* month ["L"]; month 13 exists in some calendars.
RecurMonth(s) ==
  LET leap == s # <<>> /\ Last(s) \in {"L", "l"}
  IN  {n \o (IF leap THEN <<"L">> ELSE <<>>) :
         n \in Printed(Number(IF leap THEN Front(s) ELSE s) \cap 1..13)}

ParsePiece(part, s) ==
  CASE part = "FREQ" -> OneOf(s, Frequencies)
    [] part = "UNTIL" -> ParseDateOrDateTime(s)
    [] part = "BYDAY" -> WeekdayNum(s)
    [] part = "BYMONTH" -> RecurMonth(s)
    [] part = "WKST" -> OneOf(s, WeekdayNames)
    [] part = "RSCALE" -> {UpperText(s)}
    [] part = "SKIP" -> OneOf(s, Skips)
    [] OTHER -> Printed({n \in Number(s) : n \in NumberRange(part)})

\* A part's value: a list for BY parts.
ParsePart(part, s) ==
  LET pieces == IF part \in ListParts THEN SplitOn(s, ",") ELSE <<s>>
  IN  Every([i \in DOMAIN pieces |-> ParsePiece(part, Trim(pieces[i]))])

HasPart(rule, part) == part \in DOMAIN rule.parts
IsLeap(month) == Last(month) = "L"

\* What parse checks once all parts are read.
Consistent(rule) ==
  /\ HasPart(rule, "FREQ")
  /\ ~(HasPart(rule, "UNTIL") /\ HasPart(rule, "COUNT"))
  /\ HasPart(rule, "RSCALE")
     \/ /\ ~HasPart(rule, "SKIP")
        /\ HasPart(rule, "BYMONTH") =>
             \A i \in DOMAIN rule.parts["BYMONTH"] :
               LET month == rule.parts["BYMONTH"][i] IN ~IsLeap(month) /\ month # <<"13">>

\* One trailing ";" is tolerated.  Extra parts may repeat and keep their spelling.
IsKnown(part) == OneOf(part.name, KnownParts) # {}
RuleOf(known, extra) ==
  LET names == {Upper(known[i].name[1]) : i \in DOMAIN known}
      TheValue(n) == TheOnly({known[i].value : i \in {k \in DOMAIN known : Upper(known[k].name[1]) = n}})
      rules == {[parts |-> parts, extra |-> extra] :
                  parts \in Every([n \in names |-> ParsePart(n, TheValue(n))])}
  IN  IF Len(known) = Cardinality(names) THEN {rule \in rules : Consistent(rule)} ELSE {}

PartOf(s) == [name |-> Trim(UpTo(s, {"="})), value |-> Trim(After(s, {"="}))]
RuleOfTexts(texts) ==
  LET parts == [i \in DOMAIN texts |-> PartOf(texts[i])]
  IN  IF \A i \in DOMAIN texts : Has(texts[i], {"="})
        THEN RuleOf(SelectSeq(parts, IsKnown), SelectSeq(parts, LAMBDA part : ~IsKnown(part)))
        ELSE {}
ParseRecur(s) ==
  IF s \in {<<>>, <<";">>} THEN {}
  ELSE RuleOfTexts(SplitOn(IF Last(s) = ";" THEN Front(s) ELSE s, ";"))

Written(name, value) == <<name \o <<"=">> \o value>>
DisplayRecur(rule) ==
  LET Known(n) == IF HasPart(rule, n) THEN Written(<<n>>, JoinWith(rule.parts[n], ",")) ELSE <<>>
      known == FlattenSeq([i \in DOMAIN PartOrder |-> Known(PartOrder[i])])
      extra == FlattenSeq([i \in DOMAIN rule.extra |->
                             Written(rule.extra[i].name, rule.extra[i].value)])
  IN  JoinWith(known \o extra, ";")
=============================================================================
