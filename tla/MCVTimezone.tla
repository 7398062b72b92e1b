---------------------------- MODULE MCVTimezone ----------------------------
(***************************************************************************)
(* VTimezone for TLC, with what is built on it, over years of twelve       *)
(* ticks: zones with summer time without end and until some year, with     *)
(* changes at New Year, with several changes of base offset, one that      *)
(* begins after the first horizon, and one that never changes.  Rules end  *)
(* being drawn while there are years to ask for, and not in one year.      *)
(***************************************************************************)
EXTENDS ZonedExpansion, ZoneGeneration

Yearly(tick, years) == {y * YearLen + tick : y \in years}

Obs(from, to, rule, unbounded, rdates) ==
  [from |-> from, to |-> to, name |-> IF to > from THEN "summer" ELSE "winter",
   rule |-> rule, unbounded |-> unbounded, rdates |-> rdates,
   dtstart |-> CHOOSE t \in rule \cup rdates : \A u \in rule \cup rdates : t <= u]

Always == 0..(MaxYear + 3)

MCZones ==
  {<<Obs(1, 2, Yearly(3, Always), TRUE, {}),
     Obs(2, 1, Yearly(9, Always \ {0}), TRUE, {})>>,
   <<Obs(-1, 1, Yearly(2, 1..4), FALSE, {}),
     Obs(1, -1, Yearly(8, 1..4), FALSE, {})>>,
   <<Obs(3, 1, Yearly(0, {y \in Always : y % 2 = 1}), TRUE, {}),
     Obs(1, 3, Yearly(6, {y \in Always : y % 2 = 1}), TRUE, {})>>,
   <<Obs(0, -2, {}, FALSE, Yearly(5, {1})),
     Obs(-2, 1, {}, FALSE, Yearly(11, {2, 5})),
     Obs(1, -2, {}, FALSE, Yearly(0, {4, 7}))>>,
   <<Obs(2, 2, {}, FALSE, Yearly(1, {0}))>>,
   <<Obs(0, 1, Yearly(4, 5..(MaxYear + 3)), TRUE, {})>>}

\* Rules that come every tick, or every year, from any time on.
MCRules ==
  {[i \in 1..4 |-> t + i] : t \in 2..(MaxYear * YearLen)}
  \cup {[i \in 1..3 |-> t + i * YearLen] : t \in 0..(3 * YearLen)}

MCSpans == {<<t, t + d>> : t \in Times, d \in {0, 5, 2 * YearLen}}

\* A behaviour either asks the zone, expands a rule in it, or writes it down.
NoCall == task = NoTask
MCInit ==
  \/ GenInit /\ NoCall
  \/ ExpInit /\ span = NoSpan /\ component = <<>>
MCNext ==
  \/ NoCall /\ span = NoSpan /\ Next /\ UNCHANGED <<task, genVars>>
  \/ NoCall /\ GenNext /\ UNCHANGED task
  \/ ~NoCall /\ ExpNext /\ UNCHANGED genVars
MCSpec == MCInit /\ [][MCNext]_<<vars, task, genVars>>
=============================================================================
