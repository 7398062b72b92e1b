--------------------------- MODULE GregorianWalk ---------------------------
(***************************************************************************)
(* A walk through the calendar one day at a time, to check the formulas of *)
(* Gregorian against: the next day is the next of its month, or the first  *)
(* of the next month.                                                      *)
(***************************************************************************)
EXTENDS Gregorian

CONSTANTS
  WalkYears,  \* the years walks start in
  LastYear    \* bound: the last year walked through

ASSUME WalkAssumption == WalkYears \subseteq 0..9999

VARIABLES
  today,      \* the date
  elapsed,    \* days since the walk began
  start       \* where it began

walkVars == <<today, elapsed, start>>

WalkInit ==
  /\ \E y \in WalkYears : start = Date(y, 1, 1)
  /\ today = start
  /\ elapsed = 0

\* Days of a month follow each other; months and years begin on day 1.
Tomorrow(d) ==
  IF d.day < DaysInMonth(d.year, d.month) THEN [d EXCEPT !.day = @ + 1]
  ELSE IF d.month < 12 THEN Date(d.year, d.month + 1, 1)
  ELSE Date(d.year + 1, 1, 1)

\* 400 years from the start: the whole Gregorian cycle.
WalkNext ==
  /\ today.year < start.year + 400 /\ today.year <= LastYear
  /\ today' = Tomorrow(today)
  /\ elapsed' = elapsed + 1
  /\ UNCHANGED start

WalkSpec == WalkInit /\ [][WalkNext]_walkVars

-----------------------------------------------------------------------------
(* Property. *)

\* Day arithmetic agrees with walking, over every leap-year rule and across
\* the ends of the representable range, where it reports an error; weekdays
\* follow each other from year 0 (a Saturday) on, and the days of a year are
\* numbered from 1 to its length.
FormulasMatchWalk ==
  /\ ToOrdinal(today) = ToOrdinal(start) + elapsed
  /\ AddDays(start, elapsed) = IF today.year <= 9999 THEN today ELSE NoDate
  /\ today.year <= 9999 => AddDays(today, -elapsed) = start
  /\ Weekday(today) = (5 + ToOrdinal(today) - ToOrdinal(Date(0, 1, 1))) % 7
  /\ (DayOfYear(today) = 1) = (today.month = 1 /\ today.day = 1)
  /\ (DayOfYear(today) = DaysInYear(today.year)) = (today.month = 12 /\ today.day = 31)
=============================================================================
