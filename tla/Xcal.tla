-------------------------------- MODULE Xcal --------------------------------
(***************************************************************************)
(* Writing and reading xCal and xCard (crates/vobject-core/src/xcal.rs).   *)
(* An element is [name, text, children].  The library that turns elements  *)
(* into text and back is taken to keep them as they are.                   *)
(***************************************************************************)
EXTENDS Jcal

CONSTANT NotXmlNames      \* the names that no element can have

Element(name, children) == [name |-> name, text |-> <<>>, children |-> children]
TextEl(name, text) == [name |-> <<name>>, text |-> text, children |-> <<>>]
ValueEl(name, v) == TextEl(name, JsonText(v))
ItemsOf(v) == IF IsArr(v) THEN v.arr ELSE <<v>>
Repeated(name, v) == [i \in DOMAIN ItemsOf(v) |-> ValueEl(name, ItemsOf(v)[i])]
Is(node, word) == node.name = <<word>>

\* No element has children and text; every name and text has to be allowed.
RECURSIVE Representable(_)
Representable(node) ==
  /\ Without(node.name, NotXmlNames)
  /\ Without(node.text, {"BEL"})
  /\ \A i \in DOMAIN node.children : Representable(node.children[i])

RECURSIVE Depth(_)
Depth(node) ==
  LET below == {0} \cup {Depth(node.children[i]) : i \in DOMAIN node.children}
  IN  1 + CHOOSE d \in below : \A e \in below : e <= d

StructuredFieldNames(name, dialect) ==
  CASE name = "REQUEST-STATUS" -> <<"code", "description", "data">>
    [] name = "GEO" /\ dialect # VCard4 -> <<"latitude", "longitude">>
    [] name = "N" /\ IsVCard(dialect) ->
         <<"surname", "given", "additional", "prefix", "suffix">>
    [] name = "ADR" /\ IsVCard(dialect) ->
         <<"pobox", "ext", "street", "locality", "region", "code", "country">>
    [] name = "GENDER" /\ IsVCard(dialect) -> <<"sex", "identity">>
    [] OTHER -> <<>>

-----------------------------------------------------------------------------
(* Writing. *)

\* Lists repeat the element of their part.
RecurEl(v) ==
  IF IsObj(v)
    THEN Element(<<"recur">>,
           FlattenSeq([i \in DOMAIN v.obj |-> Repeated(v.obj[i].key, v.obj[i].value)]))
    ELSE ValueEl("recur", v)

PeriodEl(v) ==
  IF IsArr(v)
    THEN Element(<<"period">>,
           <<ValueEl("start", v.arr[1]),
             ValueEl(IF IsDurationText(v.arr[2].str) THEN "duration" ELSE "end", v.arr[2])>>)
    ELSE ValueEl("period", v)

\* Each component under its field's name, those beyond the fields as text.
FieldEls(fields, slot) ==
  LET components == ItemsOf(slot)
      Field(i) == IF i \in DOMAIN fields THEN fields[i] ELSE "text"
  IN  FlattenSeq([i \in DOMAIN components |-> Repeated(Field(i), components[i])])

\* Fields are used if the value took the structured path in jCal.
WrittenFields(entry, dialect) ==
  LET name == Upper(Last(entry.name))
      taken == IF DefaultTypeInfo(name, dialect).vtype = "float"
                 THEN IsArr(entry.slots[1]) ELSE entry.type = "text"
  IN  IF taken /\ Len(entry.name) = 1 THEN StructuredFieldNames(name, dialect) ELSE <<>>

ValueEls(entry, dialect) ==
  LET fields == WrittenFields(entry, dialect)
  IN  CASE entry.type = "recur" -> <<RecurEl(entry.slots[1])>>
        [] entry.type = "period" -> [i \in DOMAIN entry.slots |-> PeriodEl(entry.slots[i])]
        [] entry.type \notin {"recur", "period"} /\ fields # <<>> ->
             FieldEls(fields, entry.slots[1])
        [] OTHER -> [i \in DOMAIN entry.slots |-> ValueEl(entry.type, entry.slots[i])]

PropertyToXml(entry, dialect) ==
  LET Param(e) == Element(<<e.key>>, Repeated("text", e.value))
      params == [i \in DOMAIN entry.params |-> Param(entry.params[i])]
  IN  Element(entry.name,
        (IF params = <<>> THEN <<>> ELSE <<Element(<<"parameters">>, params)>>)
        \o ValueEls(entry, dialect))

\* The elements of a component, or nothing for one nested in a vCard.
RECURSIVE ComponentToXml(_, _)
ComponentToXml(json, dialect) ==
  LET props == [i \in DOMAIN json.props |-> PropertyToXml(json.props[i], dialect)]
      subs == [i \in DOMAIN json.subs |-> ComponentToXml(json.subs[i], dialect)]
      Wrapped(name, nodes) == IF nodes = <<>> THEN <<>> ELSE <<Element(<<name>>, nodes)>>
  IN  Element(<<json.name>>,
        IF IsVCard(dialect) THEN props
        ELSE Wrapped("properties", props) \o Wrapped("components", subs))

IsCard(comp) == Upper(comp.name) = "VCARD"

ToXml(comps) ==
  LET vcard == comps # <<>> /\ IsCard(comps[1])
      root == Element(<<IF vcard THEN "vcards" ELSE "icalendar">>,
                [i \in DOMAIN comps |-> ComponentToXml(ToJcal(comps[i]), DetectDialect(comps[i]))])
  IN  IF \A i \in DOMAIN comps : IsCard(comps[i]) = vcard /\ (vcard => comps[i].subs = <<>>)
        THEN {x \in {root} : Representable(x)} ELSE {}

-----------------------------------------------------------------------------
(* Reading. *)

TextsOf(nodes) == [i \in DOMAIN nodes |-> nodes[i].text]

ValueTextToWire(type, text, dialect) ==
  CASE type \in DateOrOffsetTypes -> DateOrOffsetToWire(text, type, dialect)
    [] type \in TextTypes \/ (type \in {"uri", "cal-address"} /\ dialect # ICalendar) ->
         EscapeText(text)
    [] OTHER -> text

\* Adjacent elements of one name make one list.
RecurNodeToWire(node) ==
  LET nodes == node.children
      name == [i \in DOMAIN nodes |-> Upper(nodes[i].name[1])]
      starts == SelectSeq([i \in DOMAIN nodes |-> i], LAMBDA i : i = 1 \/ name[i] # name[i - 1])
      Run(k) == SubSeq(nodes, starts[k], IF k = Len(starts) THEN Len(nodes) ELSE starts[k + 1] - 1)
  IN  Canonical([k \in DOMAIN starts |-> RecurPart(name[starts[k]], JoinWith(TextsOf(Run(k)), ","))])

PeriodNodeToWire(node) ==
  IF node.children = <<>> THEN node.text
  ELSE LET end == node.children[2]
       IN  Dropping(node.children[1].text, Punctuation) \o <<"/">>
           \o (IF Is(end, "end") THEN Dropping(end.text, Punctuation) ELSE end.text)

\* The components up to the last field that is there, then the surplus ones.
FieldsToWire(fields, nodes) ==
  LET Named(f) == SelectSeq(nodes, LAMBDA n : Is(n, f))
      present == {k \in DOMAIN fields : Named(fields[k]) # <<>>}
      last == CHOOSE k \in present : \A j \in present : j <= k
      surplus == TextsOf(Named("text"))
  IN  JoinWith([k \in 1..last |-> EscapedList(TextsOf(Named(fields[k])))]
               \o [i \in DOMAIN surplus |-> EscapeText(surplus[i])], ";")

\* An empty value stands for none, as in jCal.
NodeParam(node) ==
  LET values == IF node.children = <<>> THEN <<node.text>> ELSE TextsOf(node.children)
  IN  [name |-> Upper(node.name[1]), values |-> IF values = << <<>> >> THEN <<>> ELSE values]

PropertyFromNode(node, dialect) ==
  LET name == Upper(Last(node.name))
      default == DefaultTypeInfo(name, dialect)
      IsParams(n) == Is(n, "parameters")
      params == FlattenSeq([i \in DOMAIN node.children |->
                  IF IsParams(node.children[i]) THEN node.children[i].children ELSE <<>>])
      read == [i \in DOMAIN params |-> NodeParam(params[i])]
      groups == SelectSeq(read, LAMBDA p : p.name = "GROUP")
      nodes == SelectSeq(node.children, LAMBDA n : ~IsParams(n))
      type == nodes[1].name[1]
      allFields == IF Len(node.name) = 1 THEN StructuredFieldNames(name, dialect) ELSE <<>>
      structured == \E k \in DOMAIN allFields : allFields[k] = type
      Forced(raw) == /\ type = "float" /\ default.vtype = "float" /\ IsStructured(default)
                     /\ ParseFloat(Trim(raw)) # {}
      Property(raw) ==
        [group |-> IF groups # <<>> THEN FlattenSeq(SubSeq(Last(groups).values, 1, 1))
                   ELSE UpTo(Front(node.name), {"."}),
         name |-> name,
         params |-> SelectSeq(read, LAMBDA p : p.name # "GROUP")
                    \o (IF structured THEN <<>> ELSE RecordedType(type, raw, default, Forced(raw))),
         value |-> raw]
  IN  Property(
        CASE type = "recur" ->
               IF nodes[1].children = <<>> THEN nodes[1].text ELSE RecurNodeToWire(nodes[1])
          [] type = "period" -> JoinWith([i \in DOMAIN nodes |-> PeriodNodeToWire(nodes[i])], ",")
          [] structured -> FieldsToWire(allFields, nodes)
          [] OTHER -> JoinWith([i \in DOMAIN nodes |->
                                  ValueTextToWire(type, nodes[i].text, dialect)], ","))

RECURSIVE ComponentFromNode(_, _)
ComponentFromNode(node, dialect) ==
  LET Wrapped(word) ==
        FlattenSeq([i \in DOMAIN node.children |->
          IF Is(node.children[i], word) THEN node.children[i].children ELSE <<>>])
      Bare(n) == ~Is(n, "properties") /\ ~Is(n, "components")
      props == Wrapped("properties") \o SelectSeq(node.children, Bare)
      subs == Wrapped("components")
  IN  [name |-> Upper(node.name[1]),
       props |-> [i \in DOMAIN props |-> PropertyFromNode(props[i], dialect)],
       subs |-> [i \in DOMAIN subs |-> ComponentFromNode(subs[i], dialect)]]

NodeDialect(root, node) ==
  IF Is(root, "icalendar") THEN ICalendar
  ELSE DialectOfVersion({version.children[1].text :
         version \in FirstOf(node.children, LAMBDA n : Is(n, "version"))})

\* parse_tree refuses elements nested too deeply.
FromXml_OffByOne(root) ==
  IF Depth(root) >= MaxDepth THEN {}
  ELSE {[i \in DOMAIN root.children |->
           ComponentFromNode(root.children[i], NodeDialect(root, root.children[i]))]}
FromXml(root) ==
  IF Depth(root) > MaxDepth THEN {}
  ELSE {[i \in DOMAIN root.children |->
           ComponentFromNode(root.children[i], NodeDialect(root, root.children[i]))]}
=============================================================================
