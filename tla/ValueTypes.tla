----------------------------- MODULE ValueTypes -----------------------------
(***************************************************************************)
(* Typed values (crates/vobject-core/src/value/mod.rs): the type that the  *)
(* registry or a VALUE parameter gives a property, and reading raw text as *)
(* that type and writing it back.                                          *)
(*                                                                         *)
(* A property is [group, name, params, value]; a parameter is [name,       *)
(* values].  Names are words, groups, parameter values and raw values are  *)
(* texts; no group is the empty text.  A type is its jCal name.            *)
(***************************************************************************)
EXTENDS Texts, Scalars

ICalendar == "icalendar"
VCard4 == "vcard4"
VCard3 == "vcard3"
IsVCard(dialect) == dialect \in {VCard3, VCard4}

ValueTypeNames ==
  {"binary", "boolean", "cal-address", "date", "date-and-or-time", "date-time", "duration",
   "float", "integer", "language-tag", "period", "phone-number", "recur", "text", "time",
   "timestamp", "uri", "utc-offset", "vcard", "unknown"}

FromName(s) == IF Len(s) = 1 THEN {Lower(s[1])} \cap ValueTypeNames ELSE {}

Info(vtype, mult) == [vtype |-> vtype, mult |-> mult]
Single(vtype) == Info(vtype, "Single")
IsStructured(info) == info.mult \in {"Structured", "StructuredLists"}
TextTypes == {"text", "phone-number", "vcard"}

-----------------------------------------------------------------------------
(* The registry; a name that it lacks has an unknown single value. *)

ICalendarInfo(name) ==
  CASE name \in {"CALSCALE", "METHOD", "PRODID", "VERSION", "CLASS", "COMMENT", "DESCRIPTION",
                 "LOCATION", "STATUS", "SUMMARY", "TRANSP", "TZID", "TZNAME", "CONTACT",
                 "RELATED-TO", "UID", "ACTION", "BUSYTYPE", "NAME", "COLOR", "LOCATION-TYPE",
                 "PARTICIPANT-TYPE", "RESOURCE-TYPE", "PROXIMITY"} -> Single("text")
    [] name \in {"CATEGORIES", "RESOURCES"} -> Info("text", "CommaList")
    [] name = "REQUEST-STATUS" -> Info("text", "Structured")
    [] name \in {"COMPLETED", "DTEND", "DUE", "DTSTART", "RECURRENCE-ID", "CREATED", "DTSTAMP",
                 "LAST-MODIFIED", "ACKNOWLEDGED"} -> Single("date-time")
    [] name \in {"EXDATE", "RDATE"} -> Info("date-time", "CommaList")
    [] name = "FREEBUSY" -> Info("period", "CommaList")
    [] name \in {"DURATION", "TRIGGER", "REFRESH-INTERVAL"} -> Single("duration")
    [] name \in {"TZOFFSETFROM", "TZOFFSETTO"} -> Single("utc-offset")
    [] name \in {"RRULE", "EXRULE"} -> Single("recur")
    [] name \in {"PERCENT-COMPLETE", "PRIORITY", "REPEAT", "SEQUENCE"} -> Single("integer")
    [] name = "GEO" -> Info("float", "Structured")
    [] name \in {"ATTACH", "TZURL", "URL", "IMAGE", "CONFERENCE", "SOURCE", "STRUCTURED-DATA",
                 "STYLED-DESCRIPTION", "CALENDAR-ADDRESS", "LINK"} -> Single("uri")
    [] name \in {"ATTENDEE", "ORGANIZER"} -> Single("cal-address")
    [] OTHER -> Single("unknown")

VCard4Info(name) ==
  CASE name \in {"FN", "EMAIL", "NOTE", "PRODID", "TITLE", "ROLE", "VERSION", "KIND", "XML", "UID",
                 "EXPERTISE", "HOBBY", "INTEREST", "ORG-DIRECTORY", "TEL", "TZ"} -> Single("text")
    [] name \in {"NICKNAME", "CATEGORIES"} -> Info("text", "CommaList")
    [] name \in {"N", "ADR"} -> Info("text", "StructuredLists")
    [] name \in {"GENDER", "ORG", "CLIENTPIDMAP"} -> Info("text", "Structured")
    [] name \in {"BDAY", "ANNIVERSARY", "DEATHDATE"} -> Single("date-and-or-time")
    [] name = "REV" -> Single("timestamp")
    [] name = "LANG" -> Single("language-tag")
    [] name \in {"SOURCE", "PHOTO", "IMPP", "GEO", "LOGO", "MEMBER", "RELATED", "SOUND", "URL",
                 "KEY", "FBURL", "CALADRURI", "CALURI"} -> Single("uri")
    [] OTHER -> Single("unknown")

VCard3Info(name) ==
  CASE name \in {"FN", "EMAIL", "NOTE", "PRODID", "TITLE", "ROLE", "VERSION", "MAILER", "UID",
                 "LABEL", "SORT-STRING", "CLASS", "PROFILE", "SOURCE", "NAME"} -> Single("text")
    [] name = "TEL" -> Single("phone-number")
    [] name \in {"NICKNAME", "CATEGORIES"} -> Info("text", "CommaList")
    [] name \in {"N", "ADR"} -> Info("text", "StructuredLists")
    [] name = "ORG" -> Info("text", "Structured")
    [] name = "BDAY" -> Single("date")
    [] name = "REV" -> Single("date-time")
    [] name = "GEO" -> Info("float", "Structured")
    [] name = "TZ" -> Single("utc-offset")
    [] name \in {"PHOTO", "LOGO", "SOUND", "KEY"} -> Single("binary")
    [] name = "URL" -> Single("uri")
    [] name = "AGENT" -> Single("vcard")
    [] OTHER -> Single("unknown")

DefaultTypeInfo(name, dialect) ==
  CASE dialect = ICalendar -> ICalendarInfo(Upper(name))
    [] dialect = VCard4 -> VCard4Info(Upper(name))
    [] dialect = VCard3 -> VCard3Info(Upper(name))

\* The first value of the first parameter of a name, if it has one.
ParamValue(prop, name) ==
  LET same == {i \in DOMAIN prop.params : Upper(prop.params[i].name) = name}
  IN  IF same = {} THEN {}
      ELSE LET values == prop.params[CHOOSE i \in same : \A j \in same : i <= j].values
           IN  {values[i] : i \in {1} \cap DOMAIN values}

\* The registry's multiplicity survives a VALUE parameter, except that a
\* structured value of another type than text is single.
Retyped(default, named) ==
  LET vtype == TheOnly(named)
  IN  IF named = {} THEN default
      ELSE IF vtype \notin {default.vtype, "text"} /\ IsStructured(default) THEN Single(vtype)
      ELSE Info(vtype, default.mult)
TypeInfo(prop, dialect) ==
  Retyped(DefaultTypeInfo(prop.name, dialect),
          UNION {FromName(v) : v \in ParamValue(prop, "VALUE")})

-----------------------------------------------------------------------------
(* Values: texts by kind; a Structured value has lists of texts. *)

Plain(kind, items) == [kind |-> kind, items |-> items]
Unescaped(s) == UnescapeText(s).text
UnescapedPieces(s, sep) ==
  LET pieces == SplitUnescaped(s, sep) IN [i \in DOMAIN pieces |-> Unescaped(pieces[i])]

ParseScalar(vtype, s) ==
  CASE vtype \in {"date-time", "timestamp"} -> ParseDateOrDateTime(s)
    [] vtype = "date" -> ParseDate(s)
    [] vtype = "time" -> ParseTime(s)
    [] vtype = "duration" -> ParseDuration(s)
    [] vtype = "period" -> ParsePeriod(s)
    [] vtype = "integer" -> Printed(Number(s))
    [] vtype = "float" -> ParseFloat(s)
    [] vtype = "boolean" -> OneOf(s, {"TRUE", "FALSE"})
    [] vtype = "utc-offset" -> ParseOffset(s)
    [] vtype = "binary" -> IF Len(s) = 1 /\ s[1] \in DOMAIN Base64 THEN {<<Base64[s[1]]>>} ELSE {}

Kind(vtype) == IF vtype = "timestamp" THEN "date-time" ELSE vtype
ListTypes == {"date-time", "timestamp", "date", "time", "duration", "period", "integer", "float"}

ParsePieces(vtype, pieces) ==
  {Plain(Kind(vtype), items) :
     items \in Every([i \in DOMAIN pieces |-> ParseScalar(vtype, Trim(pieces[i]))])}

\* Where vCard allows partial dates.
DateOrText(dates, raw) ==
  IF dates = {} THEN {Plain("text", <<raw>>)} ELSE {Plain("date-time", <<TheOnly(dates)>>)}

ParseValue(raw, info) ==
  CASE info.vtype \in TextTypes /\ info.mult = "Single" -> {Plain("text", <<Unescaped(raw)>>)}
    [] info.vtype \in TextTypes /\ info.mult = "CommaList" ->
         {Plain("text", UnescapedPieces(raw, ","))}
    [] info.vtype \in TextTypes /\ IsStructured(info) ->
         LET components == SplitUnescaped(raw, ";")
         IN  {[kind |-> "structured", components |->
                [i \in DOMAIN components |->
                   IF info.mult = "StructuredLists" THEN UnescapedPieces(components[i], ",")
                                                    ELSE <<Unescaped(components[i])>>]]}
    [] info.vtype \in ListTypes \cup {"boolean", "utc-offset", "binary"} ->
         ParsePieces(info.vtype,
           IF info.vtype \notin ListTypes \/ info.mult = "Single" THEN <<raw>>
           ELSE SplitUnescaped(raw, IF info.vtype = "float" /\ IsStructured(info) THEN ";" ELSE ","))
    [] info.vtype = "recur" -> {[kind |-> "recur", rule |-> rule] : rule \in ParseRecur(raw)}
    [] info.vtype \in {"uri", "cal-address"} -> {Plain(info.vtype, <<Unescaped(raw)>>)}
    [] info.vtype = "language-tag" -> {Plain("text", <<raw>>)}
    [] info.vtype = "date-and-or-time" ->
         DateOrText(ParseDateOrDateTime(Trim(raw)), raw)
    [] info.vtype = "unknown" -> {Plain("unknown", <<raw>>)}

EscapedList_Raw(texts) == JoinWith(texts, ",")
EscapedList(texts) == JoinWith([i \in DOMAIN texts |-> EscapeText(texts[i])], ",")

SerializeValue(value) ==
  CASE value.kind = "text" -> EscapedList(value.items)
    [] value.kind = "structured" ->
         JoinWith([i \in DOMAIN value.components |-> EscapedList(value.components[i])], ";")
    [] value.kind = "recur" -> DisplayRecur(value.rule)
    [] value.kind = "float" -> JoinWith(value.items, ";")
    [] OTHER -> JoinWith(value.items, ",")

TypedValue(prop, dialect) == ParseValue(prop.value, TypeInfo(prop, dialect))
=============================================================================
