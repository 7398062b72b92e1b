----------------------------- MODULE Unfolding -----------------------------
(***************************************************************************)
(* crates/vobject-core/src/lines.rs: unfold(), which turns the physical    *)
(* lines of a document into logical lines.  A CRLF followed by a space or  *)
(* tab is a fold.  Lenient mode also accepts bare line endings, blank      *)
(* lines, a leading continuation, and vCard 2.1 quoted-printable soft      *)
(* breaks ('=' at the end of a physical line of a quoted-printable value). *)
(*                                                                         *)
(* Characters are kept only as far as unfold() tells them apart: " " is a  *)
(* space or a tab and "Q" the token QUOTED-PRINTABLE.                      *)
(***************************************************************************)
EXTENDS Integers, Sequences, FiniteSets, SequencesExt

CONSTANTS
  Lenient,      \* repairs.is_some()
  Inputs        \* the documents: sequences of physical lines

VARIABLES
  physical,     \* the physical lines being read
  idx,          \* how many of them are consumed
  out,          \* the logical lines: text and line where each started
  softBreak,    \* qp_continuation
  repairs,
  outcome       \* "reading", "done", or the ErrorKind returned

vars == <<physical, idx, out, softBreak, repairs, outcome>>

ErrorKinds == {"LooseLineEnding", "BlankLine", "LeadingContinuation"}

-----------------------------------------------------------------------------
(* Is QUOTED-PRINTABLE named before the first colon? *)
LooksQuotedPrintable(text) ==
  \E q, c \in DOMAIN text :
    /\ text[q] = "Q" /\ text[c] = ":" /\ q < c
    /\ \A d \in 1..(c - 1) : text[d] # ":"

EndsInSoftBreak(text) ==
  text # <<>> /\ Last(text) = "=" /\ LooksQuotedPrintable(text)

IsContinuation(text) == text # <<>> /\ Head(text) = " "

-----------------------------------------------------------------------------
Init ==
  /\ physical \in Inputs
  /\ idx = 0
  /\ out = <<>>
  /\ softBreak = FALSE
  /\ repairs = <<>>
  /\ outcome = "reading"

Phys == physical[idx + 1]

Repaired(kinds) ==
  repairs' = repairs \o [i \in DOMAIN kinds |-> [line |-> idx', kind |-> kinds[i]]]

LooseEnding == IF Phys.loose THEN <<"LooseLineEnding">> ELSE <<>>

\* Take the next physical line; strict mode takes no line ending but CRLF.
Take ==
  /\ outcome = "reading" /\ idx < Len(physical)
  /\ idx' = idx + 1
  /\ UNCHANGED physical

TakeUsable == Take /\ (Lenient \/ ~Phys.loose)

Fail(error) ==
  /\ ~Lenient
  /\ outcome' = error
  /\ UNCHANGED <<out, softBreak, repairs>>

\* After appending text, is the line break that ends it a soft one?  Only if
\* another physical line follows.
Breaks(text) == Lenient /\ EndsInSoftBreak(text) /\ idx' < Len(physical)

JoinedQuotedPrintable(text) ==
  IF Breaks(text) THEN <<"JoinedQuotedPrintable">> ELSE <<>>

RejectLooseEnding == Take /\ Phys.loose /\ Fail("LooseLineEnding")

\* The line before ended in a soft break: drop its '=' and append verbatim,
\* even a blank line or one that looks like a fold.
JoinSoftBreak_OneRepairPerChain ==
  LET text == Front(Last(out).text) \o Phys.text IN
  /\ TakeUsable /\ softBreak
  /\ out' = [out EXCEPT ![Len(out)].text = text]
  /\ softBreak' = Breaks(text)
  /\ Repaired(LooseEnding)
  /\ UNCHANGED outcome
JoinSoftBreak ==
  LET text == Front(Last(out).text) \o Phys.text IN
  /\ TakeUsable /\ softBreak
  /\ out' = [out EXCEPT ![Len(out)].text = text]
  /\ softBreak' = Breaks(text)
  /\ Repaired(LooseEnding \o JoinedQuotedPrintable(text))
  /\ UNCHANGED outcome

SkipBlankLine_Silent ==
  /\ TakeUsable /\ ~softBreak /\ Phys.text = <<>>
  /\ \/ /\ Lenient
        /\ Repaired(LooseEnding)
        /\ UNCHANGED <<out, softBreak, outcome>>
     \/ Fail("BlankLine")
SkipBlankLine ==
  /\ TakeUsable /\ ~softBreak /\ Phys.text = <<>>
  /\ \/ /\ Lenient
        /\ Repaired(LooseEnding \o <<"SkippedBlankLine">>)
        /\ UNCHANGED <<out, softBreak, outcome>>
     \/ Fail("BlankLine")

AppendContinuation_KeepsMarker ==
  /\ TakeUsable /\ ~softBreak /\ IsContinuation(Phys.text) /\ out # <<>>
  /\ out' = [out EXCEPT ![Len(out)].text = @ \o Phys.text]
  /\ Repaired(LooseEnding)
  /\ UNCHANGED <<softBreak, outcome>>
AppendContinuation ==
  /\ TakeUsable /\ ~softBreak /\ IsContinuation(Phys.text) /\ out # <<>>
  /\ out' = [out EXCEPT ![Len(out)].text = @ \o Tail(Phys.text)]
  /\ Repaired(LooseEnding)
  /\ UNCHANGED <<softBreak, outcome>>

LeadingContinuation ==
  /\ TakeUsable /\ ~softBreak /\ IsContinuation(Phys.text) /\ out = <<>>
  /\ \/ /\ Lenient
        /\ out' = <<[text |-> Tail(Phys.text), line |-> idx']>>
        /\ Repaired(LooseEnding \o <<"LeadingContinuationTreatedAsLine">>)
        /\ UNCHANGED <<softBreak, outcome>>
     \/ Fail("LeadingContinuation")

StartLine ==
  /\ TakeUsable /\ ~softBreak /\ Phys.text # <<>> /\ ~IsContinuation(Phys.text)
  /\ out' = Append(out, [text |-> Phys.text, line |-> idx'])
  /\ softBreak' = Breaks(Phys.text)
  /\ Repaired(LooseEnding \o JoinedQuotedPrintable(Phys.text))
  /\ UNCHANGED outcome

Finish ==
  /\ outcome = "reading" /\ idx = Len(physical)
  /\ outcome' = "done"
  /\ UNCHANGED <<physical, idx, out, softBreak, repairs>>

Next ==
  \/ RejectLooseEnding \/ JoinSoftBreak \/ SkipBlankLine \/ AppendContinuation
  \/ LeadingContinuation \/ StartLine \/ Finish

Spec == Init /\ [][Next]_vars

-----------------------------------------------------------------------------
(* Properties. *)

Texts(lines) == [i \in DOMAIN lines |-> lines[i].text]

Consumed == FlattenSeq(SubSeq(Texts(physical), 1, idx))

Count(c, s) == Cardinality({i \in DOMAIN s : s[i] = c})

\* The characters other than those that may go, each with its place among them.
Solids(s) ==
  LET solid == {i \in DOMAIN s : s[i] \notin {" ", "="}}
  IN  {<<Cardinality({j \in solid : j <= i}), s[i]>> : i \in solid}

Reported(kind) == Cardinality({i \in DOMAIN repairs : repairs[i].kind = kind})

\* Unfolding removes fold markers and reported soft breaks, nothing else: the
\* other characters come out in order, and one '=' is missing per join that
\* was reported (the last one may still be pending).
OnlyReportedJoinsLost ==
  LET text == FlattenSeq(Texts(out))
      pending == IF softBreak THEN 1 ELSE 0
  IN  outcome \in {"reading", "done"} =>
        /\ Solids(text) = Solids(Consumed)
        /\ Count("=", text) + Reported("JoinedQuotedPrintable") - pending
             = Count("=", Consumed)

=============================================================================
