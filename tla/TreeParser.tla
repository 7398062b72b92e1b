----------------------------- MODULE TreeParser -----------------------------
(***************************************************************************)
(* The component-tree builder of crates/vobject-core/src/parse.rs: parse() *)
(* turns the logical content lines of a document into a forest of          *)
(* components, with a stack of open components, in a strict mode that      *)
(* stops at the first deviation and in a lenient mode that recovers and    *)
(* records a Repair for each recovery.                                     *)
(*                                                                         *)
(* A logical line is abstracted to what parse() tells apart: whether       *)
(* parse_content_line accepts it (always, only with a repair, never), and  *)
(* whether it is a BEGIN, an END or a property.  The lines are chosen one  *)
(* at a time, so a behaviour is the parse of some document.                *)
(***************************************************************************)
EXTENDS Integers, Sequences

CONSTANTS
  Lenient,      \* options.strictness == Strictness::Lenient
  MaxDepth,     \* options.max_depth
  Names,        \* component names as written on BEGIN and END lines
  StrictNames,  \* those in the strict grammar (is_strict_name)
  Fold,         \* the ASCII case folding of a name (eq_ignore_ascii_case)
  Props,        \* the properties a content line can carry
  Lines,        \* the logical lines documents are made of
  MaxLines      \* bound: the longest document

VARIABLES
  input,        \* the logical lines consumed so far
  stack,        \* open components, outermost first
  roots,        \* finished top-level components
  repairs,      \* the repairs recorded so far
  outcome       \* "reading", "parsed", or the ErrorKind parse() returned

vars == <<input, stack, roots, repairs, outcome>>

ErrorKinds ==
  {"ContentLine", "TooDeeplyNested", "MalformedDelimiter", "MismatchedEnd",
   "UnmatchedEnd", "ContentOutsideComponent", "UnterminatedComponent"}

\* RepairKind, the kinds parse() itself records; "ContentLine" stands for
\* those parse_content_line reports.
RepairKinds ==
  {"ContentLine", "NormalizedDelimiter", "NonstandardName", "DroppedLine",
   "ClosedUnterminated", "IgnoredUnmatchedEnd",
   "DroppedContentOutsideComponent"}

Repair == [line : Nat, kind : RepairKinds]

-----------------------------------------------------------------------------
(* Logical lines. *)

\* parse_content_line accepts a "clean" line in both modes and a "repaired"
\* one only in lenient mode, with a repair; "unparseable" lines fail in both.
Content == {"clean", "repaired"}

\* The value of a delimiter line: a usable name, nothing usable (parameters
\* present, or an empty value), or a value outside even the lenient grammar.
Forms == {"named", "unnamed", "illegal"}

Line ==
  [what : {"unparseable"}, content : Content]
    \cup [what : {"property"}, content : Content, prop : Props]
    \cup [what : {"BEGIN", "END"}, content : Content, form : Forms,
          dressed : BOOLEAN, name : Names]

IsDelimiter(l) == l.what \in {"BEGIN", "END"}

Accepted(l) == l.what # "unparseable" /\ (Lenient \/ l.content = "clean")

ContentRepairs(l) == IF l.content = "repaired" THEN <<"ContentLine">> ELSE <<>>

\* delimiter_name: does the line carry a name in this mode?  A group prefix or
\* surrounding whitespace ("dressed") and a name outside the strict grammar
\* are accepted only in lenient mode.
HasName(l) ==
  /\ l.form = "named"
  /\ Lenient \/ (~l.dressed /\ l.name \in StrictNames)

\* The repairs delimiter_name pushes, also when it goes on to return None.
DelimiterRepairs_Silent(l) ==
  IF l.form # "unnamed" /\ l.dressed THEN <<"NormalizedDelimiter">> ELSE <<>>
DelimiterRepairs(l) ==
  (IF l.form # "unnamed" /\ l.dressed THEN <<"NormalizedDelimiter">> ELSE <<>>)
    \o (IF l.form = "named" /\ l.name \notin StrictNames
          THEN <<"NonstandardName">> ELSE <<>>)

-----------------------------------------------------------------------------
(* Components. *)

NewComponent_FoldedWhenLenient(n) ==
  [name |-> IF Lenient THEN Fold[n] ELSE n, children |-> <<>>]
NewComponent(n) == [name |-> n, children |-> <<>>]

AddChild(c, child) == [c EXCEPT !.children = Append(@, child)]

\* attach: a closed component goes to the component below it on the stack,
\* or becomes a root.
AttachTo(s, r, c) ==
  IF s = <<>>
    THEN [stack |-> s, roots |-> Append(r, c)]
    ELSE [stack |-> [s EXCEPT ![Len(s)] = AddChild(@, c)], roots |-> r]

\* The open component at each depth once everything above it is closed.
Collapsed(s) ==
  LET nest[i \in DOMAIN s] ==
        IF i = Len(s) THEN s[i] ELSE AddChild(s[i], nest[i + 1])
  IN  nest

\* Close every component from the top of the stack down to depth k.
CloseDownTo_LosesInner(k) == AttachTo(SubSeq(stack, 1, k - 1), roots, stack[k])
CloseDownTo(k) ==
  AttachTo(SubSeq(stack, 1, k - 1), roots, Collapsed(stack)[k])

\* The depths of the open components an END line's name matches.
Matches(n) == {i \in DOMAIN stack : Fold[stack[i].name] = Fold[n]}

\* rposition finds the innermost of them.
IsInnermost(k, S) == \A j \in S : j <= k

-----------------------------------------------------------------------------
(* Recording what happened. *)

\* Add repairs at the line being read.
Record(kinds) ==
  repairs' = repairs \o
    [i \in DOMAIN kinds |-> [line |-> Len(input'), kind |-> kinds[i]]]

\* Recover in lenient mode, return an error in strict mode.
RecoverOr(error, kinds) ==
  /\ UNCHANGED <<stack, roots>>
  /\ \/ Lenient /\ Record(kinds) /\ UNCHANGED outcome
     \/ ~Lenient /\ outcome' = error /\ UNCHANGED repairs

Init ==
  /\ input = <<>>
  /\ stack = <<>>
  /\ roots = <<>>
  /\ repairs = <<>>
  /\ outcome = "reading"

-----------------------------------------------------------------------------
(* One iteration of parse()'s loop. *)

DropUnparseable(l) ==
  /\ ~Accepted(l)
  /\ RecoverOr("ContentLine", ContentRepairs(l) \o <<"DroppedLine">>)

DropMalformedDelimiter(l) ==
  /\ Accepted(l) /\ IsDelimiter(l) /\ ~HasName(l)
  /\ RecoverOr("MalformedDelimiter",
               ContentRepairs(l) \o DelimiterRepairs(l) \o <<"DroppedLine">>)

\* The repairs of a line that is used.
LineRepairs(l) == ContentRepairs(l) \o DelimiterRepairs(l)

OpenComponent(l) ==
  /\ Accepted(l) /\ l.what = "BEGIN" /\ HasName(l)
  /\ Len(stack) < MaxDepth
  /\ Record(LineRepairs(l))
  /\ stack' = Append(stack, NewComponent(l.name))
  /\ UNCHANGED <<roots, outcome>>

DropTooDeep_Silent(l) ==
  /\ Accepted(l) /\ l.what = "BEGIN" /\ HasName(l)
  /\ Len(stack) >= MaxDepth
  /\ RecoverOr("TooDeeplyNested", LineRepairs(l))
DropTooDeep(l) ==
  /\ Accepted(l) /\ l.what = "BEGIN" /\ HasName(l)
  /\ Len(stack) >= MaxDepth
  /\ RecoverOr("TooDeeplyNested", LineRepairs(l) \o <<"DroppedLine">>)

CloseInnermost(l) ==
  /\ Accepted(l) /\ l.what = "END" /\ HasName(l)
  /\ Len(stack) \in Matches(l.name)
  /\ Record(LineRepairs(l))
  /\ stack' = CloseDownTo(Len(stack)).stack
  /\ roots' = CloseDownTo(Len(stack)).roots
  /\ UNCHANGED outcome

\* END names an outer component: in lenient mode the inner ones are closed
\* on the way, innermost first, one repair each.
CloseOuter_Silent(l) ==
  /\ Accepted(l) /\ l.what = "END" /\ HasName(l)
  /\ \E k \in Matches(l.name) :
      /\ IsInnermost(k, Matches(l.name)) /\ k < Len(stack)
      /\ Record(LineRepairs(l))
      /\ stack' = CloseDownTo(k).stack
      /\ roots' = CloseDownTo(k).roots
      /\ UNCHANGED outcome
CloseOuter(l) ==
  /\ Accepted(l) /\ l.what = "END" /\ HasName(l)
  /\ \E k \in Matches(l.name) :
      /\ IsInnermost(k, Matches(l.name)) /\ k < Len(stack)
      /\ \/ /\ Lenient
            /\ Record(LineRepairs(l)
                        \o [i \in 1..(Len(stack) - k) |-> "ClosedUnterminated"])
            /\ stack' = CloseDownTo(k).stack
            /\ roots' = CloseDownTo(k).roots
            /\ UNCHANGED outcome
         \/ /\ ~Lenient
            /\ outcome' = "MismatchedEnd"
            /\ UNCHANGED <<stack, roots, repairs>>

IgnoreUnmatchedEnd(l) ==
  /\ Accepted(l) /\ l.what = "END" /\ HasName(l)
  /\ Matches(l.name) = {}
  /\ RecoverOr(IF stack = <<>> THEN "UnmatchedEnd" ELSE "MismatchedEnd",
               LineRepairs(l) \o <<"IgnoredUnmatchedEnd">>)

AddProperty(l) ==
  /\ Accepted(l) /\ l.what = "property" /\ stack # <<>>
  /\ Record(ContentRepairs(l))
  /\ stack' = [stack EXCEPT ![Len(stack)] = AddChild(@, [prop |-> l.prop])]
  /\ UNCHANGED <<roots, outcome>>

DropOutside(l) ==
  /\ Accepted(l) /\ l.what = "property" /\ stack = <<>>
  /\ RecoverOr("ContentOutsideComponent",
               ContentRepairs(l) \o <<"DroppedContentOutsideComponent">>)

ReadLine(l) ==
  /\ outcome = "reading"
  /\ input' = Append(input, l)
  /\ \/ DropUnparseable(l)
     \/ DropMalformedDelimiter(l)
     \/ OpenComponent(l)
     \/ DropTooDeep(l)
     \/ CloseInnermost(l)
     \/ CloseOuter(l)
     \/ IgnoreUnmatchedEnd(l)
     \/ AddProperty(l)
     \/ DropOutside(l)

-----------------------------------------------------------------------------
(* The end of the input. *)

Finish ==
  /\ outcome = "reading"
  /\ stack = <<>>
  /\ outcome' = "parsed"
  /\ UNCHANGED <<input, stack, roots, repairs>>

\* Components still open: an error in strict mode; in lenient mode each is
\* closed, innermost first, with a repair at the last line.
FinishUnterminated ==
  /\ outcome = "reading"
  /\ stack # <<>>
  /\ UNCHANGED input
  /\ \/ /\ Lenient
        /\ Record([i \in DOMAIN stack |-> "ClosedUnterminated"])
        /\ stack' = <<>>
        /\ roots' = CloseDownTo(1).roots
        /\ outcome' = "parsed"
     \/ /\ ~Lenient
        /\ outcome' = "UnterminatedComponent"
        /\ UNCHANGED <<stack, roots, repairs>>

EndOfInput == Finish \/ FinishUnterminated

Next ==
  \/ Len(input) < MaxLines /\ \E l \in Lines : ReadLine(l)
  \/ EndOfInput

Spec == Init /\ [][Next]_vars

-----------------------------------------------------------------------------
(* Type invariant: the stack never grows past max_depth, and repairs name a *)
(* line that was read (an empty input has none).                            *)
TypeOK ==
  /\ input \in Seq(Line)
  /\ Len(stack) <= MaxDepth
  /\ \A i \in DOMAIN stack : stack[i].name \in Names
  /\ repairs \in Seq(Repair)
  /\ \A i \in DOMAIN repairs : repairs[i].line \in DOMAIN input
  /\ outcome \in {"reading", "parsed"} \cup ErrorKinds
=============================================================================
