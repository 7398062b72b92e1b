------------------------------ MODULE Folding ------------------------------
(***************************************************************************)
(* crates/vobject-core/src/fold.rs: fold_into(), which writes one logical  *)
(* line as physical lines of at most `width` octets, moving fold points    *)
(* off '=' so that a fold is never read back as a quoted-printable soft    *)
(* break.  The line is chosen one character at a time.                     *)
(***************************************************************************)
EXTENDS Integers, Sequences, FiniteSets, SequencesExt

CONSTANTS
  Chars,        \* the characters lines are made of, "=" among them
  Octets,       \* len_utf8 of each
  Widths,       \* the widths asked for
  MaxChars      \* bound: the longest line

VARIABLES
  width,        \* the width argument
  line,         \* the characters of the line read so far
  next,         \* the one still to be placed, as a sequence of at most one
  current,      \* the physical line being filled
  budget,       \* how many octets it may have
  chunks,       \* the physical lines emitted, fold markers not included
  done

vars == <<width, line, next, current, budget, chunks, done>>

ASSUME FoldingAssumption ==
  /\ Octets \in [Chars -> 1..4]
  /\ Widths \subseteq Nat /\ MaxChars \in Nat

\* The octets of a text: each of a character's is its place and a number.
OctetsOf(s) == {p \in (DOMAIN s) \X (1..4) : p[2] <= Octets[s[p[1]]]}
Size(s) == Cardinality(OctetsOf(s))

\* width.max(2): one octet of payload after the fold marker.
EffectiveWidth == IF width < 2 THEN 2 ELSE width

\* How much of a full physical line to emit: up to the last character that is
\* not '=', or all of a line of nothing but '='.
Keep_NoShift(s) == Len(s)
Keep(s) ==
  LET solid == {i \in DOMAIN s : s[i] # "="}
  IN  IF solid = {} THEN Len(s) ELSE CHOOSE i \in solid : \A j \in solid : j <= i

-----------------------------------------------------------------------------
Init ==
  /\ width \in Widths
  /\ line = <<>>
  /\ next = <<>>
  /\ current = <<>>
  /\ budget = EffectiveWidth
  /\ chunks = <<>>
  /\ done = FALSE

ReadChar(c) ==
  /\ ~done /\ next = <<>> /\ Len(line) < MaxChars
  /\ next' = <<c>>
  /\ line' = Append(line, c)
  /\ UNCHANGED <<width, current, budget, chunks, done>>

\* The inner loop's condition: `next` does not fit, and something can be
\* emitted to make room.
Full == Size(current) + Size(next) > budget /\ current # <<>>

EmitChunk_MarkerFree ==
  LET keep == Keep(current) IN
  /\ next # <<>> /\ Full
  /\ chunks' = Append(chunks, SubSeq(current, 1, keep))
  /\ current' = SubSeq(current, keep + 1, Len(current))
  /\ UNCHANGED <<width, line, next, budget, done>>
EmitChunk ==
  LET keep == Keep(current) IN
  /\ next # <<>> /\ Full
  /\ chunks' = Append(chunks, SubSeq(current, 1, keep))
  /\ current' = SubSeq(current, keep + 1, Len(current))
  /\ budget' = EffectiveWidth - 1
  /\ UNCHANGED <<width, line, next, done>>

PushChar ==
  /\ next # <<>> /\ ~Full
  /\ current' = current \o next
  /\ next' = <<>>
  /\ UNCHANGED <<width, line, budget, chunks, done>>

EndLine ==
  /\ ~done /\ next = <<>>
  /\ chunks' = Append(chunks, current)
  /\ current' = <<>>
  /\ done' = TRUE
  /\ UNCHANGED <<width, line, next, budget>>

Next == (\E c \in Chars : ReadChar(c)) \/ EmitChunk \/ PushChar \/ EndLine

Spec == Init /\ [][Next]_vars

-----------------------------------------------------------------------------
(* Properties. *)

Budget(i) == IF i = 1 THEN EffectiveWidth ELSE EffectiveWidth - 1

\* Every physical line, fold marker included, is within the width; only a
\* single character wider than a tiny width may stick out.
WithinWidth ==
  \A i \in DOMAIN chunks : Size(chunks[i]) <= Budget(i) \/ Len(chunks[i]) = 1
=============================================================================
