---------------------------- MODULE MCRoundTrip ----------------------------
(***************************************************************************)
(* RoundTrip for TLC: lines over three names (two of which differ only in  *)
(* case) and two properties, one of them stubborn, in every form that      *)
(* parse() treats differently.                                             *)
(***************************************************************************)
EXTENDS RoundTrip

MCNames == {"A", "a", "b_c"}
MCStrictNames == {"A", "a"}
MCFold == [n \in MCNames |-> IF n = "a" THEN "A" ELSE n]
MCProps == {"p", "bare"}
MCStubborn == {"bare"}

\* Well-formed lines, with END in the other case; BEGIN:A with white space around
\* it; and lines with repairs or with no usable name.
MCLines ==
  {PropertyLine(p) : p \in MCProps}
    \cup {DelimiterLine("BEGIN", "a"), DelimiterLine("END", "A"),
          [DelimiterLine("BEGIN", "A") EXCEPT !.dressed = TRUE],
          [DelimiterLine("BEGIN", "A") EXCEPT !.content = "repaired"],
          [DelimiterLine("END", "A") EXCEPT !.content = "repaired"],
          [DelimiterLine("BEGIN", "A") EXCEPT !.form = "unnamed", !.dressed = TRUE],
          [DelimiterLine("END", "A") EXCEPT !.form = "unnamed"],
          [DelimiterLine("END", "A") EXCEPT !.form = "illegal", !.dressed = TRUE],
          [PropertyLine("p") EXCEPT !.content = "repaired"]}
    \cup {DelimiterLine(w, "b_c") : w \in {"BEGIN", "END"}}
    \cup [what : {"unparseable"}, content : {"clean", "repaired"}]
=============================================================================
