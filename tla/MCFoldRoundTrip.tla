-------------------------- MODULE MCFoldRoundTrip --------------------------
(***************************************************************************)
(* FoldRoundTrip for TLC: lines over the quoted-printable token, the       *)
(* colon, '=', a space and a two-octet letter; and foreign documents over  *)
(* texts that start, continue, join or merely resemble a soft break: three *)
(* physical lines with either kind of line ending, and four (enough for a  *)
(* chain of joins) over fewer texts.                                       *)
(***************************************************************************)
EXTENDS FoldRoundTrip

MCChars == {"=", "Q", ":", " "}
MCOctets == [c \in MCChars |-> IF c = "Q" THEN 2 ELSE 1]
MCWidths == {2, 3, 4, 75}
MCFollowers == {<<>>, <<<<"y", ":", "=">>>>}
MCBefore == <<<<"z">>>>

MCTexts ==
  {<<>>, <<" ">>, <<"x">>, <<" ", "x">>, <<" ", " ", "=">>, <<"=">>,
   <<"Q", ":", "=">>, <<"Q", "=">>, <<":", "Q", "=">>, <<" ", "Q", ":", "=">>}
MCChainTexts ==
  {<<>>, <<" ", "=">>, <<"=">>, <<"=", "=">>, <<"y">>, <<"Q", ":", "=">>, <<"Q", "=">>}

MCPhysical == [text : MCTexts, loose : BOOLEAN]
MCChainLines == [text : MCChainTexts, loose : {FALSE}]

MCInputs ==
  {<<>>} \cup [1..1 -> MCPhysical] \cup [1..2 -> MCPhysical] \cup [1..3 -> MCPhysical]
         \cup [1..4 -> MCChainLines]
=============================================================================
