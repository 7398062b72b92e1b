----------------------------- MODULE RoundTrip -----------------------------
(***************************************************************************)
(* Parse in both modes, then write_document (write.rs) what the lenient    *)
(* parse built, then parse what was written, in either mode.  write.rs:    *)
(* "parsed models are always writable"; model.rs: the model is lossless,   *)
(* child order and interleaving included.                                  *)
(***************************************************************************)
EXTENDS ParserModes, SequencesExt

CONSTANT Stubborn     \* properties whose written line still needs a repair

VARIABLES
  written,            \* the document, once written
  strict2,            \* the second parse is strict
  input2, stack2, roots2, repairs2, outcome2

vars2 == <<input2, stack2, roots2, repairs2, outcome2>>
rtVars == <<vars, written, strict2, vars2>>

T == INSTANCE TreeProperties WITH Lenient <- TRUE, input <- lInput,
       stack <- lStack, roots <- lRoots, repairs <- lRepairs, outcome <- lOutcome
QS == INSTANCE TreeParser WITH Lenient <- FALSE, input <- input2,
       stack <- stack2, roots <- roots2, repairs <- repairs2, outcome <- outcome2
QL == INSTANCE TreeParser WITH Lenient <- TRUE, input <- input2,
       stack <- stack2, roots <- roots2, repairs <- repairs2, outcome <- outcome2

\* A property read without a repair is one that can be written cleanly.
ASSUME RoundTripAssumption ==
  /\ Stubborn \subseteq Props
  /\ \A l \in Lines :
       l.what = "property" /\ l.prop \in Stubborn => l.content = "repaired"

-----------------------------------------------------------------------------
(* The writer. *)

DelimiterLine(w, n) ==
  [what |-> w, content |-> "clean", form |-> "named", dressed |-> FALSE, name |-> n]

PropertyLine(p) ==
  [what |-> "property", prop |-> p,
   content |-> IF p \in Stubborn THEN "repaired" ELSE "clean"]

RECURSIVE WriteComponent_Grouped(_)
WriteComponent_Grouped(c) ==
  IF ~T!IsComponent(c) THEN <<PropertyLine(c.prop)>>
  ELSE LET props == SelectSeq(c.children, LAMBDA d : ~T!IsComponent(d))
           parts == SelectSeq(c.children, T!IsComponent)
           kids == props \o parts
       IN  <<DelimiterLine("BEGIN", c.name)>>
             \o FlattenSeq([i \in DOMAIN kids |-> WriteComponent_Grouped(kids[i])])
             \o <<DelimiterLine("END", c.name)>>
RECURSIVE WriteComponent(_)
WriteComponent(c) ==
  IF ~T!IsComponent(c) THEN <<PropertyLine(c.prop)>>
  ELSE <<DelimiterLine("BEGIN", c.name)>>
         \o FlattenSeq([i \in DOMAIN c.children |-> WriteComponent(c.children[i])])
         \o <<DelimiterLine("END", c.name)>>

WriteDocument_JoinsRoots(forest) ==
  FlattenSeq([i \in DOMAIN forest |->
    LET lines == WriteComponent(forest[i])
    IN  IF i = Len(forest) THEN lines ELSE Front(lines)])
WriteDocument(forest) ==
  FlattenSeq([i \in DOMAIN forest |-> WriteComponent(forest[i])])

-----------------------------------------------------------------------------
NotWritten == <<"not written">>

RTInit ==
  /\ Init
  /\ written = NotWritten /\ strict2 = FALSE
  /\ QL!Init

Parse == Next /\ UNCHANGED <<written, strict2, vars2>>

\* Any reader may get what was written.
Write ==
  /\ lOutcome = "parsed" /\ written = NotWritten
  /\ written' = WriteDocument(lRoots)
  /\ strict2' \in BOOLEAN
  /\ UNCHANGED <<vars, vars2>>

ReadLine2(l) == IF strict2 THEN QS!ReadLine(l) ELSE QL!ReadLine(l)
EndOfInput2 == IF strict2 THEN QS!EndOfInput ELSE QL!EndOfInput

Reparse ==
  /\ written # NotWritten
  /\ \/ Len(input2) < Len(written) /\ ReadLine2(written[Len(input2) + 1])
     \/ Len(input2) = Len(written) /\ EndOfInput2
  /\ UNCHANGED <<vars, written, strict2>>

RTNext == Parse \/ Write \/ Reparse

RTSpec == RTInit /\ [][RTNext]_rtVars

-----------------------------------------------------------------------------
(* Properties. *)

\* What was read is in the tree, and no tree is too deep (TreeProperties).
LosslessUpToRepairs == T!LosslessUpToRepairs

\* Writing and reparsing gives back the same forest, child order and name
\* spelling included, whatever repairs the first parse had to make; and damage
\* is repaired once: nothing the writer emits is dropped or closed implicitly.
\* A strict reader rejects what was written only over a name or a property
\* outside the strict grammar that the first parse already reported.
RoundTripIdentity ==
  /\ outcome2 = "parsed" =>
       /\ roots2 = lRoots
       /\ Len(repairs2) <= Len(lRepairs)
       /\ \A i \in DOMAIN repairs2 :
            repairs2[i].kind \in {"ContentLine", "NonstandardName"}
  /\ outcome2 \in S!ErrorKinds =>
       /\ strict2 /\ outcome2 \in {"ContentLine", "MalformedDelimiter"}
       /\ \E i \in DOMAIN lRepairs :
            lRepairs[i].kind =
              IF outcome2 = "ContentLine" THEN "ContentLine" ELSE "NonstandardName"
=============================================================================
