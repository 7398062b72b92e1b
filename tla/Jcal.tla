-------------------------------- MODULE Jcal --------------------------------
(***************************************************************************)
(* Writing and reading jCal and jCard (crates/vobject-core/src/jcal.rs).   *)
(*                                                                         *)
(* A component is [name, props, subs].  A JSON value is a record of one    *)
(* field that tells its type: [str], [num], [bool], [arr] or [obj], an     *)
(* object being a sequence of [key, value].  A property in JSON is [name,  *)
(* params, type, slots]; its name is a text, for a group may precede it.   *)
(***************************************************************************)
EXTENDS ValueTypes

CONSTANTS
  MaxDepth,     \* of components in jCal, and of elements in xCal: 512
  JsonLimit     \* of arrays and objects in JSON that is read from text: 127

Str(text) == [str |-> text]
Num(text) == [num |-> text]
Bool(b) == [bool |-> b]
Arr(items) == [arr |-> items]
Obj(entries) == [obj |-> entries]
IsStr(v) == DOMAIN v = {"str"}
IsNum(v) == DOMAIN v = {"num"}
IsBool(v) == DOMAIN v = {"bool"}
IsArr(v) == DOMAIN v = {"arr"}
IsObj(v) == DOMAIN v = {"obj"}

Strs(texts) == [i \in DOMAIN texts |-> Str(texts[i])]
Nums(texts) == [i \in DOMAIN texts |-> Num(texts[i])]
OneOrArr(items) == IF Len(items) = 1 THEN items[1] ELSE Arr(items)

\* Map::insert of one entry after the other: a key that is there keeps its place.
Entry(key, value) == [key |-> key, value |-> value]
Inserted(entries) ==
  LET Same(i) == {j \in DOMAIN entries : entries[j].key = entries[i].key}
      firsts == SelectSeq([i \in DOMAIN entries |-> i], LAMBDA i : \A j \in Same(i) : i <= j)
      LastOf(same) == CHOOSE i \in same : \A j \in same : j <= i
  IN  [k \in DOMAIN firsts |-> entries[LastOf(Same(firsts[k]))]]

\* json_scalar_to_string; within an array, strings are quoted.
ScalarText(v) ==
  IF IsStr(v) THEN v.str
  ELSE IF IsNum(v) THEN v.num
  ELSE IF v.bool THEN <<"true">> ELSE <<"false">>
Quoted(v) == IF IsStr(v) THEN <<Quote>> \o v.str \o <<Quote>> ELSE ScalarText(v)
JsonText(v) ==
  IF IsArr(v) THEN <<"[">> \o JoinWith([i \in DOMAIN v.arr |-> Quoted(v.arr[i])], ",") \o <<"]">>
  ELSE ScalarText(v)
JoinSlots(slots) == JoinWith([i \in DOMAIN slots |-> JsonText(slots[i])], ",")

-----------------------------------------------------------------------------
(* Writing dates and offsets, from their canonical texts. *)

Dashed(date) == <<date[1], "-", date[2], "-", date[3]>>
Coloned(time) ==
  <<time[1], ":", time[2], ":", time[3]>> \o SubSeq(time, 4, Len(time))
JsonDateTime(s) == Dashed(s) \o <<"T">> \o Coloned(SubSeq(s, 5, Len(s)))
JsonDateOrDateTime(s) == IF Len(s) = 3 THEN Dashed(s) ELSE JsonDateTime(s)

JsonUtcOffset(s) ==
  <<s[1], s[2], ":", s[3]>> \o (IF Len(s) = 4 THEN <<":", s[4]>> ELSE <<>>)

JsonPeriod(s) ==
  LET end == After(s, {"/"})
  IN  Arr(<<Str(JsonDateTime(UpTo(s, {"/"}))),
            Str(IF IsDurationText(end) THEN end ELSE JsonDateTime(end))>>)

\* vcard_datetime_to_jcard: only compact fields get their dashes and colons.
AllFields(s) == s # <<>> /\ \A i \in DOMAIN s : s[i] \in DOMAIN TwoDigits
DashedDate(s) ==
  IF Len(s) = 3 /\ s[1] \in DOMAIN Year /\ Fields(Tail(s), 2) THEN Dashed(s)
  ELSE IF Len(s) = 4 /\ SubSeq(s, 1, 2) = <<"-", "-">> /\ Fields(SubSeq(s, 3, 4), 2)
    THEN <<"-", "-", s[3], "-", s[4]>>
  ELSE s
ColonedZone(z) ==
  IF Len(z) = 3 /\ Fields(Tail(z), 2) THEN <<z[1], z[2], ":", z[3]>> ELSE z
ColonedTime(t) ==
  LET signs == {i \in DOMAIN t : t[i] \in {"+", "-"}}
      last == CHOOSE i \in signs : \A j \in signs : j <= i
      utc == t # <<>> /\ Last(t) \in {"Z", "z"}
      zoned == ~utc /\ signs # {} /\ (last > 2 \/ (last = 2 /\ t[1] \in DOMAIN TwoDigits))
      body == IF utc THEN Front(t) ELSE IF zoned THEN SubSeq(t, 1, last - 1) ELSE t
      zone == IF utc THEN <<"Z">>
              ELSE IF zoned THEN ColonedZone(SubSeq(t, last, Len(t))) ELSE <<>>
  IN  (IF AllFields(body) /\ Len(body) \in {2, 3}
         THEN JoinWith([i \in DOMAIN body |-> <<body[i]>>], ":") ELSE body) \o zone
VcardDatetimeToJcard(s) ==
  IF Has(s, Ts) THEN DashedDate(UpTo(s, Ts)) \o <<"T">> \o ColonedTime(After(s, Ts))
  ELSE DashedDate(s)

-----------------------------------------------------------------------------
(* Writing values. *)

JsonOrder ==
  <<"RSCALE", "FREQ", "SKIP", "COUNT", "INTERVAL", "UNTIL", "WKST", "BYSECOND", "BYMINUTE",
    "BYHOUR", "BYDAY", "BYMONTHDAY", "BYYEARDAY", "BYWEEKNO", "BYMONTH", "BYSETPOS">>

\* Numbers, but for leap months.
RecurPieceToJson(part, s) ==
  CASE part = "UNTIL" -> Str(JsonDateOrDateTime(s))
    [] part \in {"RSCALE", "FREQ", "SKIP", "WKST", "BYDAY"} -> Str(s)
    [] part = "BYMONTH" /\ IsLeap(s) -> Str(s)
    [] OTHER -> Num(s)

RecurToJson(rule) ==
  LET parts == SelectSeq(JsonOrder, LAMBDA part : HasPart(rule, part))
      Known(part, texts) ==
        Entry(Lower(part), OneOrArr([i \in DOMAIN texts |-> RecurPieceToJson(part, texts[i])]))
      Extra(part) == Entry(Lower(part.name[1]), Str(part.value))
  IN  Obj(Inserted([i \in DOMAIN parts |-> Known(parts[i], rule.parts[parts[i]])]
                   \o [i \in DOMAIN rule.extra |-> Extra(rule.extra[i])]))

StructuredToJson(components) ==
  LET rendered == [i \in DOMAIN components |-> OneOrArr(Strs(components[i]))]
  IN  IF Len(rendered) = 1 /\ IsStr(rendered[1]) THEN rendered[1] ELSE Arr(rendered)

\* What takes the place of a value that does not parse.
Degraded(raw, info) ==
  CASE info.vtype = "boolean" -> <<Bool(FALSE)>>
    [] info.vtype = "float" /\ IsStructured(info) -> <<Arr(<<Num(<<"0">>)>>)>>
    [] info.vtype \in {"float", "integer"} -> <<Num(<<"0">>)>>
    [] OTHER -> <<Str(raw)>>

ValueToJson(parsed, raw, info) ==
  LET value == TheOnly(parsed)
  IN
  CASE parsed = {} -> Degraded(raw, info)
    [] value.kind = "structured" -> <<StructuredToJson(value.components)>>
    [] value.kind = "recur" -> <<RecurToJson(value.rule)>>
    [] value.kind \in {"date", "date-time"} ->
         [i \in DOMAIN value.items |-> Str(JsonDateOrDateTime(value.items[i]))]
    [] value.kind = "time" -> [i \in DOMAIN value.items |-> Str(Coloned(value.items[i]))]
    [] value.kind = "period" -> [i \in DOMAIN value.items |-> JsonPeriod(value.items[i])]
    [] value.kind = "float" /\ IsStructured(info) -> <<Arr(Nums(value.items))>>
    [] value.kind \in {"float", "integer"} -> Nums(value.items)
    [] value.kind = "boolean" -> <<Bool(value.items[1] = <<"TRUE">>)>>
    [] value.kind = "binary" -> <<Str(raw)>>
    [] value.kind = "utc-offset" -> <<Str(JsonUtcOffset(value.items[1]))>>
    [] OTHER -> Strs(value.items)

\* value_to_json_slots: vCard's partial dates are rewritten, not parsed.
ValueToJsonSlots(raw, info, dialect) ==
  IF info.vtype \in {"date-and-or-time", "timestamp"}
    THEN <<Str(IF dialect = VCard4 THEN VcardDatetimeToJcard(Trim(raw)) ELSE raw)>>
  ELSE ValueToJson(ParseValue(raw, info), raw, info)

-----------------------------------------------------------------------------
(* Writing properties and components. *)

\* A date type follows the value's shape.
ShapeInferred(vtype, raw) ==
  CASE vtype = "date-time" /\ ~Has(raw, Ts) -> "date"
    [] vtype = "date" /\ Has(raw, Ts) -> "date-time"
    [] OTHER -> vtype

\* The type to write as, and its name in JSON: a VALUE that nobody knows
\* travels as the name of an unknown type.
WrittenAs(raw, info, given) ==
  LET foreign == {v \in given : v # <<>> /\ FromName(v) = {}}
      inferred == IF given = {} THEN ShapeInferred(info.vtype, raw) ELSE info.vtype
  IN  IF foreign # {} THEN [info |-> Single("unknown"), label |-> Lower(TheOnly(foreign)[1])]
      ELSE [info |-> Info(inferred, info.mult), label |-> inferred]
WrittenType(prop, dialect) ==
  WrittenAs(prop.value, TypeInfo(prop, dialect), ParamValue(prop, "VALUE"))

\* In vCard some parameters are comma lists even within quotes.
ParamToJson(param, dialect) ==
  LET values == IF IsVCard(dialect) /\ Lower(param.name) \in {"type", "pid", "sort-as"}
                  THEN FlattenSeq([i \in DOMAIN param.values |-> SplitOn(param.values[i], ",")])
                  ELSE param.values
  IN  IF values = <<>> THEN Str(<<>>) ELSE OneOrArr(Strs(values))

PropertyAs(prop, dialect, written) ==
  LET grouped == prop.group # <<>>
      group == LowerText(prop.group)
      params == SelectSeq(prop.params, LAMBDA param : Upper(param.name) # "VALUE")
  IN  [name |-> (IF grouped /\ ~IsVCard(dialect) THEN Append(group, ".") ELSE <<>>)
                \o <<Lower(prop.name)>>,
       params |-> Inserted(
                    (IF grouped /\ IsVCard(dialect) THEN <<Entry("group", Str(group))>> ELSE <<>>)
                    \o [i \in DOMAIN params |->
                          Entry(Lower(params[i].name), ParamToJson(params[i], dialect))]),
       type |-> written.label,
       slots |-> ValueToJsonSlots(prop.value, written.info, dialect)]
PropertyToJcal(prop, dialect) == PropertyAs(prop, dialect, WrittenType(prop, dialect))

DialectOfVersion(versions) ==
  IF \E v \in versions : Trim(v) \in {<<"2.1">>, <<"3.0">>} THEN VCard3 ELSE VCard4
FirstOf(seq, Test(_)) ==
  LET found == SelectSeq(seq, Test) IN {found[i] : i \in {1} \cap DOMAIN found}

DetectDialect(comp) ==
  IF Upper(comp.name) # "VCARD" THEN ICalendar
  ELSE DialectOfVersion({p.value : p \in FirstOf(comp.props, LAMBDA p : Upper(p.name) = "VERSION")})

RECURSIVE ComponentToJcal(_, _)
ComponentToJcal(comp, dialect) ==
  [name |-> Lower(comp.name),
   props |-> [i \in DOMAIN comp.props |-> PropertyToJcal(comp.props[i], dialect)],
   subs |-> [i \in DOMAIN comp.subs |-> ComponentToJcal(comp.subs[i], dialect)]]

ToJcal(comp) == ComponentToJcal(comp, DetectDialect(comp))

-----------------------------------------------------------------------------
(* Reading it back, from JSON that has the shapes which the writer gives it. *)

Punctuation == {"-", ":"}
DigitRuns == DOMAIN Year \cup DOMAIN TwoDigits \cup DOMAIN Numeral

CompactDate(d) ==
  IF Len(d) = 5 /\ d[2] = "-" /\ d[4] = "-" THEN <<d[1], d[3], d[5]>>
  ELSE IF Len(d) = 5 /\ SubSeq(d, 1, 2) = <<"-", "-">> /\ d[4] = "-"
    THEN <<"-", "-", d[3], d[5]>>
  ELSE d

VerifiedWire(text, candidate, vtype, dialect) ==
  IF ValueToJsonSlots(candidate, Single(vtype), dialect) = <<Str(text)>>
    THEN candidate ELSE text

\* vCard 3 itself writes dates with dashes.
CompactSlot(text, vtype) ==
  IF vtype = "utc-offset" THEN Dropping(text, {":"})
  ELSE IF Has(text, Ts)
    THEN CompactDate(UpTo(text, Ts)) \o <<"T">> \o Dropping(After(text, Ts), {":"})
  ELSE IF Has(text, {":"}) THEN Dropping(text, {":"})
  ELSE CompactDate(text)

\* date_slot_to_wire, and the same for offsets.
DateOrOffsetToWire(text, vtype, dialect) ==
  IF vtype # "utc-offset"
     /\ (dialect = VCard3
         \/ ~Within(text, DigitRuns \cup Punctuation \cup Ts \cup {"Z", "z", "+"}))
    THEN text
    ELSE VerifiedWire(text, CompactSlot(text, vtype), vtype, dialect)
DateOrOffsetTypes ==
  {"date", "date-time", "time", "timestamp", "date-and-or-time", "utc-offset"}

\* The inverse of StructuredToJson.
StructuredTextRaw(slot) ==
  LET Component(entry) ==
        IF IsArr(entry) THEN EscapedList([i \in DOMAIN entry.arr |-> JsonText(entry.arr[i])])
                        ELSE EscapeText(JsonText(entry))
  IN  IF IsArr(slot) THEN JoinWith([i \in DOMAIN slot.arr |-> Component(slot.arr[i])], ";")
                     ELSE Component(slot)

PeriodSlotToWire(slot) ==
  IF ~IsArr(slot) THEN JsonText(slot)
  ELSE LET end == JsonText(slot.arr[2])
       IN  Dropping(JsonText(slot.arr[1]), Punctuation) \o <<"/">>
           \o (IF IsDurationText(end) THEN end ELSE Dropping(end, Punctuation))

\* The parts in the canonical order, if they make a rule.
Canonical(parts) ==
  LET Shown(wire, rules) == IF rules = {} THEN wire ELSE DisplayRecur(TheOnly(rules))
      Ordered(wire) == Shown(wire, ParseRecur(wire))
  IN  Ordered(JoinWith(parts, ";"))
RecurPart(name, value) ==
  <<name, "=">> \o (IF name = "UNTIL" THEN Dropping(value, Punctuation) ELSE value)
RecurSlotToWire(slot) ==
  IF ~IsObj(slot) THEN JsonText(slot)
  ELSE Canonical([i \in DOMAIN slot.obj |->
         LET value == slot.obj[i].value
         IN  RecurPart(Upper(slot.obj[i].key), IF IsArr(value) THEN JoinSlots(value.arr)
                                                               ELSE JsonText(value))])

\* raw_from_slots
RawFromSlots(slots, effective, default, dialect) ==
  CASE effective \in TextTypes /\ IsStructured(default) -> StructuredTextRaw(slots[1])
    [] effective \in {"uri", "cal-address"} /\ dialect = ICalendar -> JoinSlots(slots)
    [] \/ effective \in TextTypes /\ ~IsStructured(default)
       \/ effective \in {"uri", "cal-address"} /\ dialect # ICalendar ->
         EscapedList([i \in DOMAIN slots |-> JsonText(slots[i])])
    [] effective \in DateOrOffsetTypes ->
         JoinWith([i \in DOMAIN slots |->
                     DateOrOffsetToWire(JsonText(slots[i]), effective, dialect)], ",")
    [] effective = "boolean" ->
         IF IsBool(slots[1]) THEN IF slots[1].bool THEN <<"TRUE">> ELSE <<"FALSE">>
                             ELSE JsonText(slots[1])
    [] effective = "float" /\ IsStructured(default) /\ default.vtype = "float" ->
         IF IsArr(slots[1])
           THEN JoinWith([i \in DOMAIN slots[1].arr |-> JsonText(slots[1].arr[i])], ";")
           ELSE JsonText(slots[1])
    [] effective = "period" ->
         JoinWith([i \in DOMAIN slots |-> PeriodSlotToWire(slots[i])], ",")
    [] effective = "recur" -> RecurSlotToWire(slots[1])
    [] OTHER -> JoinSlots(slots)

-----------------------------------------------------------------------------
\* A VALUE parameter when the writer would not name this type by itself.
RecordedType(type, raw, default, forced) ==
  IF type \in ValueTypeNames /\ type = default.vtype /\ type = ShapeInferred(type, raw) /\ ~forced
    THEN <<>>
    ELSE <<[name |-> "VALUE", values |-> <<(<<Upper(type)>>)>>]>>

\* "" is read as a parameter without values.
ParamValues(v) ==
  IF IsArr(v) THEN [i \in DOMAIN v.arr |-> JsonText(v.arr[i])]
  ELSE IF v = Str(<<>>) THEN <<>> ELSE <<JsonText(v)>>

IsGroup(entry) == Lower(entry.key) = "group"

PropertyFromJson(entry, dialect) ==
  LET dotted == ~IsVCard(dialect) /\ Has(entry.name, {"."})
      name == Upper(Last(entry.name))
      groups == IF IsVCard(dialect) THEN SelectSeq(entry.params, IsGroup) ELSE <<>>
      others == IF IsVCard(dialect) THEN SelectSeq(entry.params, LAMBDA e : ~IsGroup(e))
                                    ELSE entry.params
      First(v) == IF IsArr(v) THEN JsonText(v.arr[1]) ELSE JsonText(v)
      default == DefaultTypeInfo(name, dialect)
      effective == IF entry.type \in ValueTypeNames THEN entry.type ELSE "unknown"
      forced == /\ effective = "float" /\ default.vtype = "float" /\ IsStructured(default)
                /\ IsNum(entry.slots[1])
      Property(raw) ==
        [group |-> IF groups # <<>> THEN First(Last(groups).value)
                   ELSE IF dotted THEN UpTo(entry.name, {"."}) ELSE <<>>,
         name |-> name,
         params |-> [i \in DOMAIN others |->
                       [name |-> Upper(others[i].key), values |-> ParamValues(others[i].value)]]
                    \o RecordedType(entry.type, raw, default, forced),
         value |-> raw]
  IN  Property(RawFromSlots(entry.slots, effective, default, dialect))

JsonDialect(json) ==
  IF Upper(json.name) # "VCARD" THEN ICalendar
  ELSE DialectOfVersion({JsonText(p.slots[1]) :
         p \in FirstOf(json.props, LAMBDA p : UpperText(p.name) = <<"VERSION">>)})

\* The components read, or nothing when one of them is nested too deeply.
RECURSIVE ComponentFromJson(_, _, _)
ComponentFromJson(json, dialect, depth) ==
  IF depth > MaxDepth THEN {}
  ELSE {[name |-> Upper(json.name),
         props |-> [i \in DOMAIN json.props |-> PropertyFromJson(json.props[i], dialect)],
         subs |-> subs] :
           subs \in Every([i \in DOMAIN json.subs |->
                             ComponentFromJson(json.subs[i], dialect, depth + 1)])}

\* How deeply arrays and objects are nested in a value, and in a component.
Deepest(depths) == CHOOSE d \in depths : \A e \in depths : e <= d
RECURSIVE ValueDepth(_)
ValueDepth(v) ==
  CASE IsArr(v) -> 1 + Deepest({0} \cup {ValueDepth(v.arr[i]) : i \in DOMAIN v.arr})
    [] IsObj(v) -> 1 + Deepest({0} \cup {ValueDepth(v.obj[i].value) : i \in DOMAIN v.obj})
    [] OTHER -> 0
PropertyDepth(entry) ==
  1 + Deepest({ValueDepth(Obj(entry.params))} \cup {ValueDepth(entry.slots[i]) : i \in DOMAIN entry.slots})
RECURSIVE JsonDepth(_)
JsonDepth(json) ==
  2 + Deepest({0} \cup {PropertyDepth(json.props[i]) : i \in DOMAIN json.props}
                  \cup {JsonDepth(json.subs[i]) : i \in DOMAIN json.subs})

\* from_jcal_value: a list of documents, or a single one.
FromJcalValue(documents) ==
  Every([i \in DOMAIN documents |->
           ComponentFromJson(documents[i], JsonDialect(documents[i]), 0)])

\* from_jcal reads text, with serde_json, which has a limit of its own.
FromJcal(documents) ==
  LET list == IF Len(documents) = 1 THEN 0 ELSE 1
  IN  IF \E i \in DOMAIN documents : list + JsonDepth(documents[i]) > JsonLimit
        THEN {} ELSE FromJcalValue(documents)
=============================================================================
