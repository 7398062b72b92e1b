--------------------------- MODULE MCConversions ---------------------------
(***************************************************************************)
(* Documents with one property of every type in every dialect, with values *)
(* right and wrong; the same property with every type in its VALUE; other  *)
(* parameters and groups; VERSIONs; and components within components.      *)
(***************************************************************************)
EXTENDS Conversions

TwoDigitFields ==
  ("00" :> 0) @@ ("01" :> 1) @@ ("02" :> 2) @@ ("03" :> 3) @@ ("05" :> 5) @@ ("10" :> 10) @@
  ("12" :> 12) @@ ("23" :> 23) @@ ("29" :> 29) @@ ("30" :> 30) @@ ("60" :> 60)
MCYear == ("2023" :> 2023) @@ ("2024" :> 2024)
MCNumeral ==
  ("0" :> 0) @@ ("1" :> 1) @@ ("+2" :> 2) @@ ("2" :> 2) @@ ("3" :> 3) @@ ("03" :> 3) @@
  ("-1" :> -1) @@ ("5" :> 5) @@ ("13" :> 13) @@ ("60" :> 60)
MCFloat ==
  ("0" :> "0") @@ ("1" :> "1") @@ ("+2" :> "2") @@ ("2" :> "2") @@ ("3" :> "3") @@ ("03" :> "3") @@
  ("-1" :> "-1") @@ ("5" :> "5") @@ ("13" :> "13") @@ ("60" :> "60") @@ ("1.50" :> "1.5") @@
  ("1.5" :> "1.5") @@ ("3.0" :> "3")
MCBase64 == ("QQ==" :> "QQ==") @@ ("QQ" :> "QQ==")

MCCased ==
  {<<"BINARY", "binary">>, <<"BOOLEAN", "boolean">>, <<"CAL-ADDRESS", "cal-address">>,
   <<"DATE", "date">>, <<"DATE-AND-OR-TIME", "date-and-or-time">>,
   <<"DATE-TIME", "date-time">>, <<"DURATION", "duration">>, <<"FLOAT", "float">>,
   <<"INTEGER", "integer">>, <<"LANGUAGE-TAG", "language-tag">>, <<"PERIOD", "period">>,
   <<"PHONE-NUMBER", "phone-number">>, <<"RECUR", "recur">>, <<"TEXT", "text">>,
   <<"TIME", "time">>, <<"TIMESTAMP", "timestamp">>, <<"URI", "uri">>,
   <<"UTC-OFFSET", "utc-offset">>, <<"VCARD", "vcard">>, <<"UNKNOWN", "unknown">>,
   <<"X-T", "x-t">>, <<"VALUE", "value">>, <<"VERSION", "version">>, <<"TYPE", "type">>,
   <<"GROUP", "group">>, <<"HOME", "home">>, <<"TZID", "tzid">>, <<"G", "g">>,
   <<"ADR", "adr">>, <<"VCALENDAR", "vcalendar">>, <<"VEVENT", "vevent">>, <<"SUMMARY", "summary">>,
   <<"CATEGORIES", "categories">>, <<"REQUEST-STATUS", "request-status">>,
   <<"DTSTART", "dtstart">>, <<"EXDATE", "exdate">>, <<"FREEBUSY", "freebusy">>,
   <<"GEO", "geo">>, <<"RRULE", "rrule">>, <<"URL", "url">>, <<"PRIORITY", "priority">>,
   <<"TZOFFSETTO", "tzoffsetto">>, <<"N", "n">>, <<"ORG", "org">>, <<"GENDER", "gender">>,
   <<"BDAY", "bday">>, <<"REV", "rev">>, <<"LANG", "lang">>, <<"NOTE", "note">>,
   <<"TEL", "tel">>, <<"TZ", "tz">>, <<"KEY", "key">>, <<"ATTENDEE", "attendee">>,
   <<"FREQ", "freq">>, <<"UNTIL", "until">>, <<"COUNT", "count">>, <<"INTERVAL", "interval">>,
   <<"BYSECOND", "bysecond">>, <<"BYMINUTE", "byminute">>, <<"BYHOUR", "byhour">>,
   <<"BYDAY", "byday">>, <<"BYMONTHDAY", "bymonthday">>, <<"BYYEARDAY", "byyearday">>,
   <<"BYWEEKNO", "byweekno">>, <<"BYMONTH", "bymonth">>, <<"BYSETPOS", "bysetpos">>,
   <<"WKST", "wkst">>, <<"RSCALE", "rscale">>, <<"SKIP", "skip">>, <<"X-P", "x-p">>,
   <<"DAILY", "daily">>, <<"MO", "mo">>, <<"T", "t">>, <<"Z", "z">>, <<"H", "h">>, <<"D", "d">>, <<"TRUE", "true">>,
   <<"FALSE", "false">>}

Prop(name, params, value) == [group |-> <<>>, name |-> name, params |-> params, value |-> value]
Comp(name, props, subs) == [name |-> name, props |-> props, subs |-> subs]
Param(name, values) == [name |-> name, values |-> values]
Version(value) == Prop("VERSION", <<>>, <<value>>)

Dialects == {ICalendar, VCard3, VCard4}
In(dialect, prop) ==
  CASE dialect = ICalendar -> <<Comp("VCALENDAR", <<prop>>, <<>>)>>
    [] dialect = VCard3 -> <<Comp("VCARD", <<Version("3.0"), prop>>, <<>>)>>
    [] dialect = VCard4 -> <<Comp("VCARD", <<Version("4.0"), prop>>, <<>>)>>

-----------------------------------------------------------------------------
(* Values. *)

Chars == {"a", "n", ",", ";", "\\"}
ShortTexts == UNION {[1..n -> Chars] : n \in 0..3}

Dates == {<<"2024", "02", "29">>, <<"2023", "02", "29">>, <<"2024", "-", "02", "-", "29">>,
          <<"-", "-", "02", "03">>, <<"-", "-", "02", "-", "03">>, <<"2024", "-", "02">>}
Times == {<<"10", "00", "00">>, <<"10", "00", "60", "Z">>, <<"10", "60", "00">>, <<"10", "30">>, <<"10", "00", "00", "z">>,
          <<"10", ":", "00", ":", "00">>, <<"10", "30", "-", "05", "00">>, <<"10", "00", "-", "05", ":", "00">>}
DateTexts ==
  Dates \cup Times \cup {d \o <<"T">> \o t : d \in Dates \cup {<<>>}, t \in Times}
  \cup {<<"2024", "02", "29", "t", "10", "00", "00">>, <<"2024", "02", "29", ",", "2024", "02", "03">>,
        <<"2024", "02", "29", ",", "2024", "02", "03", "T", "10", "00", "00">>}
OtherTexts ==
  {<<"x">>, <<"p", "1", "d">>, <<"P", "1", "H">>, <<"+", "05", "30">>, <<"-", "05", "30", "00">>, <<"-", "00", "00">>, <<"-", "05", ":", "30">>,
   <<"-", "05", "30", "12">>,
   <<"P", "1", "D">>, <<"+2">>, <<"03", ",", "-1">>, <<"1.50">>, <<"1.50", ";", "03">>, <<"1.50", ",", "03">>, <<"TRUE">>, <<" ", "false">>, <<"QQ">>, <<"QQ==">>,
   <<"P", "03", "D", "T", "1", "H", "0", "S">>, <<"-", "P", "T", "0", "S">>, <<"P">>,
   <<"2024", "02", "29", "T", "10", "00", "00", "/", "P", "T", "1", "H">>,
   <<"2024", "02", "29", "T", "10", "00", "00", "/", "2024", "03", "01", "T", "10", "00", "00">>}
RecurTexts ==
  {<<"FREQ", "=", "DAILY">>, <<"FREQ", "=", "DAILY", ";", "FREQ", "=", "DAILY">>,
   <<"FREQ", "=", "DAILY", ";", ";">>, <<"X-P", "=", "a">>, <<"FREQ", "=", "DAILY", ",", "DAILY">>,
   <<"FREQ", "=", "DAILY", ";", "BYMONTH", "=", "13">>, <<"FREQ", "=", "DAILY", ";", "SKIP", "=", "OMIT">>,
   <<"UNTIL", "=", "2024", "02", "29", ";", "COUNT", "=", "2", ";", "FREQ", "=", "DAILY">>,
   <<"WKST", "=", "MO", ";", "FREQ", "=", "DAILY", ";", "UNTIL", "=", "2024", "02", "29", "T", "10", "00", "00", "Z">>,
   <<"FREQ", "=", "DAILY", ";", "INTERVAL", "=", "0">>, <<"FREQ", "=", "DAILY", ";", "INTERVAL", "=", "03">>,
   <<"FREQ", "=", "DAILY", ";", "BYDAY", "=", " ", "+2", "MO", ",", "13", "MO">>,
   <<"FREQ", "=", "DAILY", ";", "BYSECOND", "=", "60", ";", "BYMINUTE", "=", "60">>,
   <<"FREQ", "=", "DAILY", ";", "BYSECOND", "=", "60", ",", "0", ";", "BYHOUR", "=", "5">>,
   <<"FREQ", "=", "daily", ";", "COUNT", "=", "+2", ";">>,
   <<"UNTIL", "=", "2024", "02", "29", ";", "FREQ", "=", "DAILY">>,
   <<"BYDAY", "=", "MO", ",", "-1", "MO", ";", "FREQ", "=", "DAILY">>,
   <<"FREQ", "=", "DAILY", ";", "BYMONTH", "=", "5", "L">>,
   <<"RSCALE", "=", "x", ";", "FREQ", "=", "DAILY", ";", "BYMONTH", "=", "5", "L", ",", "13", ";", "SKIP", "=", "FORWARD">>,
   <<"FREQ", "=", "DAILY", ";", "X-P", "=", "a", ",", "b">>,
   <<"FREQ", "=", "DAILY", ";", "x-p", "=", "a", ";", "X-P", "=", "b">>,
   <<"FREQ", "=", "DAILY", ";", "BYMONTHDAY", "=", "0">>}


-----------------------------------------------------------------------------
(* Documents. *)

TextNames == {<<ICalendar, "SUMMARY">>, <<ICalendar, "X-P">>, <<ICalendar, "URL">>,
              <<VCard4, "N">>, <<VCard4, "NOTE">>, <<VCard4, "LANG">>, <<VCard4, "GEO">>,
              <<ICalendar, "CATEGORIES">>, <<ICalendar, "REQUEST-STATUS">>,
              <<VCard3, "ORG">>, <<VCard3, "TEL">>}
DateNames == {<<ICalendar, "DTSTART">>, <<ICalendar, "EXDATE">>, <<VCard3, "BDAY">>,
              <<VCard3, "REV">>, <<VCard4, "BDAY">>, <<VCard4, "REV">>}
OtherNames == {<<ICalendar, "FREEBUSY">>, <<ICalendar, "GEO">>, <<ICalendar, "PRIORITY">>,
               <<ICalendar, "TZOFFSETTO">>, <<ICalendar, "DURATION">>, <<VCard3, "GEO">>,
               <<VCard3, "TZ">>, <<VCard3, "KEY">>, <<ICalendar, "RRULE">>}
\* Components up to the last that has a name, and beyond it.
LongTexts(fields) ==
  {[i \in 1..n |-> ";"] \o t : n \in (fields - 1)..(fields + 1), t \in ShortTexts}
Plainly(names, texts) == {In(x[1][1], Prop(x[1][2], <<>>, x[2])) : x \in names \X texts}

TypeWords ==
  {"BINARY", "BOOLEAN", "CAL-ADDRESS", "DATE", "DATE-AND-OR-TIME", "DATE-TIME", "DURATION",
   "FLOAT", "INTEGER", "LANGUAGE-TAG", "PERIOD", "PHONE-NUMBER", "RECUR", "TEXT", "TIME",
   "TIMESTAMP", "URI", "UTC-OFFSET", "VCARD", "UNKNOWN", "X-T"}
TypedNames == {<<ICalendar, "DTSTART">>, <<ICalendar, "EXDATE">>, <<ICalendar, "GEO">>,
               <<ICalendar, "RRULE">>, <<ICalendar, "FREEBUSY">>, <<ICalendar, "X-P">>,
               <<VCard3, "BDAY">>, <<VCard3, "ORG">>, <<VCard3, "KEY">>, <<VCard4, "REV">>,
               <<VCard4, "BDAY">>, <<VCard4, "N">>, <<VCard4, "URL">>}
TypedTexts ==
  {<<"2024", "02", "29">>, <<"2024", "02", "29", "T", "10", "00", "00">>, <<"10", "00", "00">>,
   <<"03", ",", "-1">>, <<"1.50", ";", "03">>, <<"TRUE">>, <<"QQ">>, <<"P", "03", "D">>,
   <<"-", "05", "30">>, <<"2024", "02", "29", "T", "10", "00", "00", "/", "P", "T", "1", "H">>,
   <<"FREQ", "=", "DAILY">>, <<"a", ";", "b">>, <<"a", ",", "b">>, <<"a", "\\", ",", "b">>}
Typed ==
  {In(x[1][1], Prop(x[1][2], <<Param("VALUE", <<(<<x[2]>>)>>)>>, x[3])) :
     x \in TypedNames \X TypeWords \X TypedTexts}

X == <<"x">>
ParamLists ==
  {<<Param("HOME", <<>>)>>, <<Param("TZID", << <<>> >>)>>, <<Param("TZID", <<X, <<>> >>)>>,
   <<Param("TYPE", <<X>>), Param("type", << <<"b">> >>)>>,
   <<Param("TYPE", << <<"a", ",", "b">>, X>>), Param("TZID", << <<"a", ",", "b">> >>)>>,
   <<Param("GROUP", <<X>>)>>, <<Param("TZID", <<X>>), Param("GROUP", << <<"G">>, X>>)>>,
   <<Param("VALUE", <<>>)>>, <<Param("VALUE", << <<>> >>)>>,
   <<Param("VALUE", << <<"DATE">> >>), Param("value", << <<"FLOAT">> >>)>>,
   <<Param("TZID", <<X>>), Param("VALUE", << <<"DATE">>, <<"TEXT">> >>)>>,
   <<Param("A B", <<X>>)>>, <<Param("TZID", << <<"BEL">> >>)>>}
ParamNames == {<<ICalendar, "GEO">>, <<ICalendar, "RRULE">>, <<VCard3, "ORG">>, <<VCard4, "BDAY">>,
               <<ICalendar, "DTSTART">>, <<ICalendar, "REQUEST-STATUS">>,
               <<VCard3, "A B">>, <<VCard4, "N">>}
Grouped(prop, group) == [prop EXCEPT !.group = group]
WithParams ==
  {In(x[1][1], Grouped(Prop(x[1][2], x[2], x[3]), x[4])) :
     x \in ParamNames \X ParamLists
           \X {<<"a", ";", "b">>, <<"2024", "02", "29">>, <<"a", "BEL">>, <<"1.50", ";", "03">>}
           \X {<<>>, <<"G">>}}

Rev == Prop("REV", <<>>, <<"2024", "02", "29">>)
Versions ==
  {<<>>, <<Version("2.1")>>, <<Version("x")>>, <<Prop("version", <<>>, <<" ", "3.0">>)>>,
   <<Prop("VERSION", <<Param("TYPE", <<X>>)>>, <<"3.0">>)>>,
   <<Prop("X-P", <<>>, X), Version("3.0"), Version("x")>>}
VersionedProps ==
  {Rev, Prop("GEO", <<>>, <<"1.5", ";", "3">>), Prop("BDAY", <<>>, <<"2024", "-", "02", "-", "29">>),
   Prop("TZ", <<>>, <<"-", "05", ":", "30">>), Prop("KEY", <<>>, <<"QQ">>),
   Prop("TEL", <<>>, <<"a", "\\", ",", "b">>), Prop("ORG", <<>>, <<"a", ";", "b">>),
   Prop("N", <<Param("TYPE", <<X>>)>>, <<"a", ",", "b", ";", "n">>)}
Versioned ==
  {<<Comp("vcard", version \o <<prop>>, <<>>)>> : version \in Versions, prop \in VersionedProps}

Event == Comp("VEVENT", <<Prop("SUMMARY", <<Param("TZID", <<X>>)>>, <<"a">>), Rev>>, <<>>)
Calendar == Comp("VCALENDAR", <<Rev>>, <<Event, Event>>)
Card(version) == Comp("VCARD", <<Version(version), Rev>>, <<>>)
RECURSIVE Nested(_)
Nested(n) == IF n = 0 THEN Event ELSE Comp("VCALENDAR", <<>>, <<Nested(n - 1)>>)
Nestings ==
  {<<>>, <<Card("3.0"), Card("4.0")>>, <<Calendar, Event>>, <<Calendar, Card("3.0")>>,
   <<Card("3.0"), Event>>, <<Comp("VCARD", <<>>, <<Event>>)>>,
   <<Comp("VCALENDAR", <<>>, <<Card("4.0")>>)>>, <<Comp("A B", <<>>, <<Event>>)>>}
  \cup {<<Nested(n)>> : n \in 1..11}

MCDocuments ==
  UNION {Plainly(TextNames, ShortTexts),
         Plainly({<<VCard4, "N">>}, LongTexts(5)), Plainly({<<VCard3, "ADR">>}, LongTexts(7)),
         Plainly(DateNames, DateTexts), Plainly(OtherNames, OtherTexts),
         Plainly({<<ICalendar, "RRULE">>}, RecurTexts), Typed, WithParams, Versioned, Nestings}
=============================================================================
