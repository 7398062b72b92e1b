--------------------------- MODULE TreeProperties ---------------------------
(***************************************************************************)
(* What the tree of TreeParser has to do with the lines it was built from. *)
(* The tree walks are recursive, so no theorem lives here.                 *)
(***************************************************************************)
EXTENDS TreeParser, FiniteSets, SequencesExt

-----------------------------------------------------------------------------
(* Walking the tree in the order write_component_into emits it. *)

IsComponent(c) == "children" \in DOMAIN c

RECURSIVE Events(_)
Events(c) ==
  IF ~IsComponent(c) THEN << <<"property", c.prop>> >>
  ELSE << <<"BEGIN", c.name>> >>
         \o FlattenSeq([i \in DOMAIN c.children |-> Events(c.children[i])])
         \o << <<"END", Fold[c.name]>> >>

\* The forest as it would be if the open components ended here.
Forest == IF stack = <<>> THEN roots ELSE CloseDownTo(1).roots

Document == FlattenSeq([i \in DOMAIN Forest |-> Events(Forest[i])])

\* A line as the same kind of event.
LineEvent(l) ==
  CASE l.what = "property" -> <<"property", l.prop>>
    [] l.what = "BEGIN" -> <<"BEGIN", l.name>>
    [] l.what = "END" -> <<"END", Fold[l.name]>>

DropKinds == {"DroppedLine", "DroppedContentOutsideComponent",
              "IgnoredUnmatchedEnd"}

ReportedDropped(i) ==
  \E j \in DOMAIN repairs : repairs[j].line = i /\ repairs[j].kind \in DropKinds

KeptLines ==
  LET kept == SelectSeq([i \in DOMAIN input |-> i],
                        LAMBDA i : ~ReportedDropped(i))
  IN  [j \in DOMAIN kept |-> input[kept[j]]]

Kept(what) == Cardinality({i \in DOMAIN KeptLines : KeptLines[i].what = what})
ClosedUnterminated ==
  Cardinality({j \in DOMAIN repairs : repairs[j].kind = "ClosedUnterminated"})

Opening(e) == e[1] # "END"
LineOpens(l) == l.what # "END"

-----------------------------------------------------------------------------
(* Properties. *)

Readable == outcome \in {"reading", "parsed"}

\* "Lossless": nothing is lost, invented or reordered without a repair saying
\* so.  In document order, the components and properties of the tree are the
\* BEGIN and property lines of the input, minus the lines a repair reports as
\* dropped -- through any mix of implicit closes, mismatched ENDs and caps.  A
\* document that needed no repair is reproduced exactly, nesting included; and
\* every component that was opened was closed by an END line that was kept, or
\* has a ClosedUnterminated repair of its own.
LosslessUpToRepairs ==
  Readable =>
    /\ SelectSeq(Document, Opening) =
         LET opens == SelectSeq(KeptLines, LineOpens)
         IN  [i \in DOMAIN opens |-> LineEvent(opens[i])]
    /\ (outcome = "parsed" /\ repairs = <<>>) =>
         Document = [i \in DOMAIN input |-> LineEvent(input[i])]
    /\ outcome = "parsed" => Kept("BEGIN") = Kept("END") + ClosedUnterminated
=============================================================================
