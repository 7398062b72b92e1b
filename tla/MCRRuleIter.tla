---------------------------- MODULE MCRRuleIter ----------------------------
(***************************************************************************)
(* RRuleIter for TLC.                                                      *)
(***************************************************************************)
EXTENDS RRuleIter

Times == 0..2

MCCandidates == {<<>>} \cup {<<a>> : a \in Times} \cup
                {s \in Times \X Times : s[1] <= s[2]}

\* Up to four periods; the last instant of one may open the next.
MCPeriods ==
  {p \in [1..4 -> MCCandidates] :
     \A i, j \in 1..4 : i < j =>
       \A a \in DOMAIN p[i], b \in DOMAIN p[j] : p[i][a] <= p[j][b]}

MCRules ==
  [periods : MCPeriods, bySetPos : {{}, {2, -1}, {-2}}, start : {0, 1},
   count : {NoLimit, 0, 1}, until : {NoLimit, 1}, maxEmpty : {0, 2}]
=============================================================================
