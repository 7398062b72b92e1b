-------------------------- MODULE MCLineRoundTrip --------------------------
(***************************************************************************)
(* LineRoundTrip for TLC: every short line, longer lines that get as far   *)
(* as a parameter's values, and models with every kind of awkward value:   *)
(* dots in groups and names, and what has to be escaped in values.         *)
(***************************************************************************)
EXTENDS LineRoundTrip

Strings(S, n) == UNION {[1..k -> S] : k \in 0..n}

\* "n" and "x" are letters, "_" is allowed in lenient names only.
MCInputs ==
  Strings({"n", "_", ".", ";", ":", "=", Quote, "BEL"}, 4)
    \cup {<<"x", ";", "x", "=">> \o s \o <<":", "n">> :
            s \in Strings({"n", "^", "'", ",", ";", ":", Quote}, 4)}
    \cup {<<"x", ";">> \o s : s \in Strings({"n", "_", "=", ";", ":", Quote, "BEL"}, 5)}

Names == {<<"n">>, <<"x", "_">>, <<"x", ".", "n">>}
Values == Strings({"n", "^", "'", ",", ":", Quote, "LF", "CR"}, 2)
Param(n, vs) == [name |-> n, values |-> vs]
MCParams ==
  {<<>>} \cup {<<Param(n, vs)>> : n \in Names, vs \in {<<>>} \cup {<<v>> : v \in Values}}
    \cup {<<Param(<<"n">>, <<v, w>>)>> : v \in Values, w \in Strings({"^", ",", Quote}, 1)}
    \cup {<<Param(<<"x">>, <<>>), Param(<<"n">>, <<v>>)>> : v \in Values}
MCTextLists ==
  LET awkward == {"n", Backslash, ";", ",", "LF", "CR"}
  IN  {<<s>> : s \in Strings(awkward, 4)} \cup (Strings(awkward, 2) \X Strings(awkward, 2))

Model(ps, ts) == [group |-> <<>>, name |-> <<"x">>, params |-> ps, texts |-> ts]
MCModels ==
  {[Model(ps, <<<<"n">>>>) EXCEPT !.group = g, !.name = n] :
     ps \in MCParams,
     g \in {<<>>, <<"n">>, <<"_">>, <<"n", ".">>},
     n \in Names \cup {<<"x", ";">>, <<".">>, <<"x", ".">>}}
    \cup {Model(<<>>, ts) : ts \in MCTextLists}
=============================================================================
