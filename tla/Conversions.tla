--------------------------- MODULE Conversions ------------------------------
(***************************************************************************)
(* A document is converted to jCal or xCal, read back, and converted       *)
(* again: to_jcal and from_jcal (or, as "json", from_jcal_value, which is   *)
(* not given text), to_xml and from_xml; and what that keeps.              *)
(* Some detail of the text is lost by design: the case of names, all but   *)
(* the last of the parameters of one name, the VALUE parameter (the type is*)
(* written instead), and the spelling of values.  What is kept is the      *)
(* meaning below.                                                          *)
(***************************************************************************)
EXTENDS Xcal

CONSTANT Documents      \* sequences of components, as parse gives them

VARIABLES doc, format, stage, written, back, again
vars == <<doc, format, stage, written, back, again>>

Nothing == <<>>

Convert(comps, to) ==
  IF to = "xcal" THEN ToXml(comps) ELSE {[i \in DOMAIN comps |-> ToJcal(comps[i])]}
ReadBack(result, from) ==
  CASE from = "jcal" -> FromJcal(result)
    [] from = "json" -> FromJcalValue(result)
    [] from = "xcal" -> FromXml(result)

Init ==
  /\ doc \in Documents /\ format \in {"jcal", "json", "xcal"}
  /\ stage = "model" /\ written = Nothing /\ back = Nothing /\ again = Nothing

Write ==
  /\ stage = "model"
  /\ \E results \in {Convert(doc, format)} :
       IF results = {} THEN stage' = "refused" /\ UNCHANGED written
                       ELSE stage' = "written" /\ written' = TheOnly(results)
  /\ UNCHANGED <<doc, format, back, again>>

Read ==
  /\ stage = "written"
  /\ \E results \in {ReadBack(written, format)} :
       IF results = {} THEN stage' = "unreadable" /\ UNCHANGED back
                       ELSE stage' = "read" /\ back' = TheOnly(results)
  /\ UNCHANGED <<doc, format, written, again>>

WriteAgain ==
  /\ stage = "read"
  /\ \E results \in {Convert(back, format)} :
       IF results = {} THEN stage' = "refused" /\ UNCHANGED again
                       ELSE stage' = "rewritten" /\ again' = TheOnly(results)
  /\ UNCHANGED <<doc, format, written, back>>

Next == Write \/ Read \/ WriteAgain
Spec == Init /\ [][Next]_vars

-----------------------------------------------------------------------------
(* The meaning of a document. *)

LastByName(pairs) ==
  [n \in {pairs[i].name : i \in DOMAIN pairs} |->
     LET same == {i \in DOMAIN pairs : pairs[i].name = n}
     IN  pairs[CHOOSE i \in same : \A j \in same : j <= i].value]

RuleMeaning(rule) ==
  [parts |-> rule.parts,
   extra |-> LastByName([i \in DOMAIN rule.extra |->
               [name |-> UpperText(rule.extra[i].name), value |-> rule.extra[i].value]])]

\* vCard's dates, which may be partial and have dashes or none, are compared
\* as text; a value that does not parse means nothing.
DateTypes == {"date", "date-time", "time", "timestamp", "date-and-or-time"}
ValueMeaning(prop, dialect) ==
  LET info == TypeInfo(prop, dialect)
      Meaning(value) ==
        CASE value.kind = "recur" -> <<"recur", RuleMeaning(value.rule)>>
          [] value.kind = "structured" -> <<"structured", value.components>>
          [] value.kind \in {"date", "date-time"} -> <<"date", value.items>>
          [] OTHER -> <<value.kind, value.items>>
  IN  IF IsVCard(dialect) /\ info.vtype \in DateTypes
        THEN {<<"text", UpperText(Dropping(prop.value, Punctuation \cup {" "}))>>}
        ELSE {Meaning(v) : v \in ParseValue(prop.value, info)}

ParamMeaning(param, dialect) ==
  LET values == IF IsVCard(dialect) /\ Upper(param.name) \in {"TYPE", "PID", "SORT-AS"}
                  THEN FlattenSeq([i \in DOMAIN param.values |-> SplitOn(param.values[i], ",")])
                  ELSE param.values
  IN  [name |-> Upper(param.name), value |-> IF values = << <<>> >> THEN <<>> ELSE values]
ParamsMeaning(prop, dialect) ==
  LET others == SelectSeq(prop.params, LAMBDA p : Upper(p.name) # "VALUE")
  IN  LastByName([i \in DOMAIN others |-> ParamMeaning(others[i], dialect)])

-----------------------------------------------------------------------------
(* What the code is known not to keep. *)

\* A parameter named GROUP is taken for the property's group.
NamedGroup(prop, dialect) ==
  /\ \E i \in DOMAIN prop.params : Upper(prop.params[i].name) = "GROUP"
  /\ IsVCard(dialect) \/ format = "xcal"

\* iCalendar's URIs lose backslashes when they are read from text, and nothing
\* puts them back.
BackslashInUri(prop, dialect) ==
  /\ dialect = ICalendar /\ TypeInfo(prop, dialect).vtype \in {"uri", "cal-address"}
  /\ Has(prop.value, {"\\"})

\* XML has no element for a list within a value, unless the components have
\* names: the list is written as JSON.
ListAsText(prop, dialect) ==
  LET AsJson(entry) ==
        /\ entry.type \notin {"recur", "period"}
        /\ IsArr(entry.slots[1]) /\ WrittenFields(entry, dialect) = <<>>
  IN  format = "xcal" /\ AsJson(PropertyToJcal(prop, dialect))

\* In XML, GEO's latitude and longitude do not tell a text from numbers.
GeoAsText(prop, dialect) ==
  /\ format = "xcal" /\ Upper(prop.name) = "GEO"
  /\ DefaultTypeInfo("GEO", dialect).vtype = "float" /\ TypeInfo(prop, dialect).vtype = "text"

\* With a group, iCalendar's GEO is such a list; its text is no number, and a
\* second conversion makes a zero of it.
GroupedGeo(prop, dialect) ==
  dialect = ICalendar /\ Upper(prop.name) = "GEO" /\ prop.group # <<>> /\ ListAsText(prop, dialect)

\* In XML, a list in a component beyond those with names is as many components
\* ("ambiguous", xcal.rs:596-599).
SurplusList(prop, dialect) ==
  LET named == Len(StructuredFieldNames(Upper(prop.name), dialect))
  IN  /\ format = "xcal"
      /\ \E value \in {v \in TypedValue(prop, dialect) : v.kind = "structured"} :
           \E i \in DOMAIN value.components : i > named /\ Len(value.components[i]) > 1

\* In XML, the parameters of a vCard's VERSION are taken for its value, and a
\* vCard 3 is read as a vCard 4: properties whose types differ change.  ("The
\* card's own VERSION decides", xcal.rs:707-708.)
VersionUnseen(prop, comp) ==
  /\ format = "xcal" /\ DetectDialect(comp) = VCard3
  /\ \E version \in FirstOf(comp.props, LAMBDA p : Upper(p.name) = "VERSION") :
       \E i \in DOMAIN version.params : Upper(version.params[i].name) # "VALUE"
  /\ DefaultTypeInfo(prop.name, VCard3) # DefaultTypeInfo(prop.name, VCard4)

-----------------------------------------------------------------------------
SameFrame(p, q, dialect) ==
  /\ Upper(q.name) = Upper(p.name) /\ LowerText(q.group) = LowerText(p.group)
  /\ ParamsMeaning(q, dialect) = ParamsMeaning(p, dialect)
SameProperty(p, q, dialect) ==
  \/ NamedGroup(p, dialect) \/ GeoAsText(p, dialect)
  \/ /\ SameFrame(p, q, dialect)
     /\ \/ ValueMeaning(p, dialect) \in {{}, ValueMeaning(q, dialect)}
        \/ BackslashInUri(p, dialect) \/ ListAsText(p, dialect) \/ SurplusList(p, dialect)

RECURSIVE SameComponent(_, _, _)
SameComponent(c, d, dialect) ==
  /\ Upper(d.name) = Upper(c.name)
  /\ Len(d.props) = Len(c.props) /\ Len(d.subs) = Len(c.subs)
  /\ \A i \in DOMAIN c.props :
       \/ SameProperty(c.props[i], d.props[i], dialect)
       \/ VersionUnseen(c.props[i], c) /\ SameFrame(c.props[i], d.props[i], dialect)
  /\ \A i \in DOMAIN c.subs : SameComponent(c.subs[i], d.subs[i], dialect)

RECURSIVE PropsWithin(_)
PropsWithin(comp) ==
  {comp.props[i] : i \in DOMAIN comp.props}
  \cup UNION {PropsWithin(comp.subs[i]) : i \in DOMAIN comp.subs}
SomeProp(Test(_, _)) ==
  \E i \in DOMAIN doc : \E p \in PropsWithin(doc[i]) : Test(p, DetectDialect(doc[i]))

RECURSIVE Nesting(_)
Nesting(comp) ==
  LET below == {Nesting(comp.subs[i]) : i \in DOMAIN comp.subs}
  IN  IF below = {} THEN 0 ELSE 1 + CHOOSE n \in below : \A m \in below : m <= n

-----------------------------------------------------------------------------


\* Whatever the writers write, the readers accept and the writers accept
\* again, while components are not nested too deeply.  In XML a component
\* takes two elements, and a property's parameter five more (MAX_XML_DEPTH).
\* In JSON it takes two arrays, and a list within a property three more, which
\* serde_json counts when it reads text: to_jcal writes, for 63 components within
\* one another, what from_jcal refuses and only from_jcal_value reads.
OwnOutputReadable ==
  /\ stage = "unreadable" =>
       \E i \in DOMAIN doc :
         \/ format = "xcal" /\ 2 * Nesting(doc[i]) + 7 > MaxDepth
         \/ format = "jcal" /\ 2 * Nesting(doc[i]) + (IF Len(doc) = 1 THEN 5 ELSE 6) > JsonLimit
         \/ format # "xcal" /\ Nesting(doc[i]) > MaxDepth
  /\ stage = "refused" => back = Nothing

\* A typed value that is written as text reads as the same value: texts are
\* escaped, lists joined and rules put in order so that parse_value undoes it.
\* URIs are unescaped only when read, language tags and partial dates are
\* escaped only when written, and lists of numbers are joined by the wrong
\* character outside GEO.
SerializedReadsBack ==
  stage = "model" =>
    \A i \in DOMAIN doc : \A p \in PropsWithin(doc[i]) :
      LET info == TypeInfo(p, DetectDialect(doc[i]))
      IN  \A value \in ParseValue(p.value, info) :
            \/ ParseValue(SerializeValue(value), info) = {value}
            \/ info.vtype \in {"uri", "cal-address"} /\ Has(p.value, {"\\"})
            \/ info.vtype \in {"language-tag", "date-and-or-time"} /\ value.kind = "text"
            \/ info.vtype = "float" /\ ~IsStructured(info) /\ Len(value.items) > 1

\* Structured values keep their components, as xcal.rs says: "Structured
\* values use the RFCs' named child elements", "Reading maps the XML back to
\* the lossless document model [...], so wire round-trips preserve typing".
StructuredSurvives ==
  stage = "read" =>
    \A i \in DOMAIN doc :
      LET dialect == DetectDialect(doc[i])
      IN  \A k \in DOMAIN doc[i].props :
            \A value \in TypedValue(doc[i].props[k], dialect) :
              value.kind = "structured" => TypedValue(back[i].props[k], dialect) = {value}
=============================================================================
