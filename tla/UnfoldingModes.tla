-------------------------- MODULE UnfoldingModes --------------------------
(***************************************************************************)
(* Strict and lenient unfolding of the same document, line by line.        *)
(***************************************************************************)
EXTENDS Integers, Sequences, FiniteSets, SequencesExt

CONSTANT Inputs

VARIABLES
  physical,
  sIdx, sOut, sSoftBreak, sRepairs, sOutcome,  \* strict
  lIdx, lOut, lSoftBreak, lRepairs, lOutcome   \* lenient

strictVars == <<sIdx, sOut, sSoftBreak, sRepairs, sOutcome>>
vars == <<physical, sIdx, sOut, sSoftBreak, sRepairs, sOutcome,
          lIdx, lOut, lSoftBreak, lRepairs, lOutcome>>

S == INSTANCE Unfolding WITH Lenient <- FALSE, idx <- sIdx, out <- sOut,
       softBreak <- sSoftBreak, repairs <- sRepairs, outcome <- sOutcome
L == INSTANCE Unfolding WITH Lenient <- TRUE, idx <- lIdx, out <- lOut,
       softBreak <- lSoftBreak, repairs <- lRepairs, outcome <- lOutcome

Init == S!Init /\ L!Init

\* The lenient reader reads to the end, the strict one until its first error.
Next ==
  /\ L!Next
  /\ \/ S!Next
     \/ sOutcome \in S!ErrorKinds /\ UNCHANGED strictVars

Spec == Init /\ [][Next]_vars

-----------------------------------------------------------------------------
(* RFC 5545 3.1 as a reference: delete every CRLF that is followed by a     *)
(* space or tab together with that character, then split at each CRLF left. *)

\* The characters of some lines, each with its line and its place in it.
Characters(lines) ==
  UNION {{<<n, k, lines[n][k]>> : k \in DOMAIN lines[n]} : n \in DOMAIN lines}

RfcReads(lines) ==
  LET raw == FlattenSeq([i \in DOMAIN physical |-> physical[i].text \o <<"CRLF">>])
      folds == {i \in DOMAIN raw : raw[i] = "CRLF" /\ i < Len(raw) /\ raw[i + 1] = " "}
      kept == DOMAIN raw \ (folds \cup {i + 1 : i \in folds})
      ends == {i \in kept : raw[i] = "CRLF"}
      row == [i \in kept |-> 1 + Cardinality({e \in ends : e < i})]
      column == [i \in kept |-> Cardinality({j \in kept : j <= i /\ row[j] = row[i]})]
  IN  /\ Len(lines) = Cardinality(ends)
      /\ Characters(lines) = {<<row[i], column[i], raw[i]>> : i \in kept \ ends}

-----------------------------------------------------------------------------
(* Properties. *)

\* What strict mode accepts, it unfolds as the RFC says.
StrictUnfoldsAsRfc == sOutcome = "done" => RfcReads(S!Texts(sOut))

\* An unrepaired document is one strict mode accepts and unfolds to the same
\* lines; of what strict mode accepts, lenient mode repairs only soft breaks.
OnlySoftBreaksAmbiguous ==
  lOutcome = "done" =>
    /\ lRepairs = <<>> => sOutcome = "done" /\ sOut = lOut
    /\ sOutcome = "done" =>
         \A i \in DOMAIN lRepairs : lRepairs[i].kind = "JoinedQuotedPrintable"

\* Lenient unfolding deletes only fold markers and one '=' per reported join.
OnlyReportedJoinsLost == L!OnlyReportedJoinsLost
=============================================================================
