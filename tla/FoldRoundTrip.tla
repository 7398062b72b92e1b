--------------------------- MODULE FoldRoundTrip ---------------------------
(***************************************************************************)
(* A document, either foreign or with a line that fold_into() wrote,       *)
(* between further lines, read by strict and lenient unfold().             *)
(***************************************************************************)
EXTENDS Folding

CONSTANTS
  Before,       \* the lines before a written one, the component's BEGIN at least
  Followers,    \* the lines that may come after it
  Inputs        \* the foreign documents

VARIABLES
  sent,         \* the document has been handed to the readers
  follower, physical,
  sIdx, sOut, sSoftBreak, sRepairs, sOutcome,  \* the strict reader
  lIdx, lOut, lSoftBreak, lRepairs, lOutcome   \* the lenient one

readerVars == <<physical, sIdx, sOut, sSoftBreak, sRepairs, sOutcome,
                lIdx, lOut, lSoftBreak, lRepairs, lOutcome>>
allVars == <<vars, sent, follower, readerVars>>

U == INSTANCE UnfoldingModes WITH Inputs <- Inputs \cup {<<>>}

\* What a physical line holds: any characters but the break that ends it.
Unbroken(text) == \A i \in DOMAIN text : text[i] # "CRLF"

\* The lines around a written one are the writer's too: none is empty, continues
\* another or ends in a soft break of its own.
Whole(lines) ==
  \A i \in DOMAIN lines :
    /\ Unbroken(lines[i])
    /\ lines[i] # <<>> /\ ~U!L!IsContinuation(lines[i]) /\ ~U!L!EndsInSoftBreak(lines[i])

ASSUME DocumentsAssumption ==
  /\ Chars \subseteq STRING \ {"CRLF"}
  /\ Inputs \subseteq Seq([text : Seq(STRING), loose : BOOLEAN])
  /\ \A document \in Inputs : \A i \in DOMAIN document : Unbroken(document[i].text)
  /\ Before \in Seq(Seq(STRING)) /\ Before # <<>> /\ Whole(Before)
  /\ \A lines \in Followers : lines \in Seq(Seq(STRING)) /\ Whole(lines)

\* A line to be folded, or a foreign document, for which nothing is.
FRInit ==
  /\ Init /\ U!Init
  /\ \/ sent = FALSE /\ physical = <<>> /\ follower \in Followers
     \/ sent = TRUE /\ physical \in Inputs /\ follower = <<>>
          /\ width = Min(Widths)

\* The writer's lines, terminated by CRLF, fold markers in place.
Terminated(lines) == [i \in DOMAIN lines |-> [text |-> lines[i], loose |-> FALSE]]

WrittenLines ==
  Terminated(Before)
    \o Terminated([i \in DOMAIN chunks |->
                     IF i = 1 THEN chunks[i] ELSE <<" ">> \o chunks[i]])
    \o Terminated(follower)

Fold == ~sent /\ Next /\ UNCHANGED <<sent, follower, readerVars>>

Send ==
  /\ done /\ ~sent /\ line # <<>>
  /\ sent' = TRUE
  /\ physical' = WrittenLines
  /\ UNCHANGED <<vars, follower, sIdx, sOut, sSoftBreak, sRepairs, sOutcome,
                 lIdx, lOut, lSoftBreak, lRepairs, lOutcome>>

Read == sent /\ U!Next /\ UNCHANGED <<vars, sent, follower>>

FRNext == Fold \/ Send \/ Read

FRSpec == FRInit /\ [][FRNext]_allVars

-----------------------------------------------------------------------------
(* Properties. *)

\* What the readers make of a written line: the line itself, or a part of the
\* line before if it begins with a space, as a name set from Python may do:
\* check_name lets that through.
ReadBack ==
  IF Head(line) = " "
    THEN Front(Before) \o <<Last(Before) \o Tail(line)>> \o follower
    ELSE Before \o <<line>> \o follower

\* Folding then unfolding gives back the same lines, without repairs, at any
\* width and in either mode; the exception is a lenient reader and a
\* quoted-printable line that itself ends in '=' with another line after it.
FoldUnfoldIdentity ==
  (sent /\ line # <<>>) =>
    /\ sOutcome # "reading" => sOutcome = "done" /\ U!S!Texts(sOut) = ReadBack
    /\ (lOutcome # "reading"
          /\ ~(U!L!EndsInSoftBreak(line) /\ Len(chunks) = 1 /\ follower # <<>>))
         => /\ lOutcome = "done" /\ lRepairs = <<>>
            /\ U!L!Texts(lOut) = ReadBack

\* What the readers do with any document (UnfoldingModes).
OnlyReportedJoinsLost == U!OnlyReportedJoinsLost
StrictUnfoldsAsRfc == U!StrictUnfoldsAsRfc
OnlySoftBreaksAmbiguous == U!OnlySoftBreaksAmbiguous
=============================================================================
