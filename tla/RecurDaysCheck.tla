--------------------------- MODULE RecurDaysCheck ---------------------------
(***************************************************************************)
(* RecurDays against RFC 5545 read literally: the nth Monday is found by   *)
(* counting Mondays, the week number by the day in the middle of the week. *)
(***************************************************************************)
EXTENDS RecurDays

CONSTANTS
  Rules,     \* the rules to check
  Years      \* the years to check them in

ASSUME RulesAssumption ==
  /\ Rules \subseteq Rule /\ \A r \in Rules : IsDate(r.start)
  /\ Years \subseteq 0..9999

VARIABLES rule, year
vars == <<rule, year>>

Init == rule \in Rules /\ year \in {y \in Years : \A z \in Years : y <= z}

\* On to the next of the years.
Next ==
  /\ \E y \in Years : y > year /\ (\A z \in Years : z <= year \/ y <= z) /\ year' = y
  /\ UNCHANGED rule
Spec == Init /\ [][Next]_vars

-----------------------------------------------------------------------------
(* The reference. *)

R == WithDefaults(rule)

Before(d, e) == ToOrdinal(d) < ToOrdinal(e)

\* The days of a month or year that a BYDAY entry selects: all of its weekday,
\* or the nth, counted from either end.
Counted(e, days) ==
  LET same == {d \in days : Weekday(d) = e.wd}
  IN  {d \in same :
         \/ e.n = 0
         \/ e.n > 0 /\ Cardinality({f \in same : ~Before(d, f)}) = e.n
         \/ e.n < 0 /\ Cardinality({f \in same : ~Before(f, d)}) = -e.n}

OnListedDays(days) ==
  IF R.byDay = {} THEN days ELSE UNION {Counted(e, days) : e \in R.byDay}

\* A position counted from either end of n.
At(positions, i, n) ==
  \E p \in positions : (p > 0 /\ p = i) \/ (p < 0 /\ -p = n - i + 1)

MonthDays(m) == {Date(year, m, i) : i \in 1..DaysInMonth(year, m)}

\* The first day of a date's week, and the week's middle day: the year of the
\* week is the middle day's, its number how many middles that year has had.
WeekOf(d) == ToOrdinal(d) - ((Weekday(d) + 7 - R.wkst) % 7)
Middle(d) == FromOrdinal(WeekOf(d) + 3)
WeekNumber(d) == (DayOfYear(Middle(d)) + 6) \div 7
WeekCount(y) ==
  Cardinality({d \in DaysOfYear(y) : Weekday(d) = (R.wkst + 3) % 7})

Common(d) ==
  /\ R.byMonth # {} => d.month \in R.byMonth
  /\ R.byYearDay # {} => At(R.byYearDay, DayOfYear(d), DaysInYear(d.year))
  /\ R.byMonthDay # {} => At(R.byMonthDay, d.day, DaysInMonth(d.year, d.month))

\* BYDAY without its ordinals; DTSTART's weekday when no rule selects days.
WeekdayListed(d) ==
  IF R.byDay # {} THEN \E e \in R.byDay : e.wd = Weekday(d)
  ELSE R.byMonthDay # {} \/ R.byYearDay # {} \/ Weekday(d) = Weekday(R.start)

\* The days of a YEARLY period.  With BYWEEKNO the period is the year of the
\* week, BYDAY ordinals mean nothing, and DTSTART's weekday is the default.
RfcYearly ==
  IF R.byWeekNo = {}
    THEN LET listed == IF R.byMonth = {} THEN OnListedDays(DaysOfYear(year))
                       ELSE UNION {OnListedDays(MonthDays(m)) : m \in R.byMonth}
         IN  {d \in listed : Common(d)}
    ELSE LET jan1 == ToOrdinal(Date(year, 1, 1))
             near == {FromOrdinal(jan1 + i) : i \in -7..372} \ {NoDate}
             weeks == WeekCount(year)
         IN  {d \in near :
                /\ WeekdayListed(d)
                /\ Common(d)
                /\ Middle(d).year = year
                /\ At(R.byWeekNo, WeekNumber(d), weeks)}

RfcMonthly(m) ==
  {d \in OnListedDays(MonthDays(m)) :
     /\ R.byMonth # {} => m \in R.byMonth
     /\ R.byMonthDay # {} => At(R.byMonthDay, d.day, DaysInMonth(year, m))}

\* Every INTERVAL-th week counted from DTSTART's, from DTSTART on.
RfcWeekly ==
  {d \in DaysOfYear(year) :
     /\ ~Before(d, R.start)
     /\ ((WeekOf(d) - WeekOf(R.start)) \div 7) % R.interval = 0
     /\ WeekdayListed(d)
     /\ R.byMonth # {} => d.month \in R.byMonth}

\* The days the code's weekly periods yield in a year, from DTSTART on.
WeeklyDaysOfYear ==
  LET step == 7 * R.interval
      first == ToOrdinal(FirstWeek(R))
      lead == (ToOrdinal(Date(year, 1, 1)) - first) \div step
      weeks == {FromOrdinal(first + step * k) : k \in {i \in lead..(lead + 53) : i >= 0}}
  IN  {d \in UNION {WeeklyDays(R, w) : w \in weeks \ {NoDate}} :
         d.year = year /\ ~Before(d, R.start)}

-----------------------------------------------------------------------------
(* Properties. *)

\* DTSTART's week begins within the representable days.
WeekStartExists == FromOrdinal(WeekOf(R.start)) # NoDate

\* Each period's candidates are the days the RFC's wording selects; stepping
\* from DTSTART's week yields every INTERVAL-th week's days, however the week
\* is started and whichever years the steps cross.
DaysAreRfc ==
  /\ R.freq = "YEARLY" => YearlyDays(R, year) = RfcYearly
  /\ R.freq = "MONTHLY" => \A m \in 1..12 : MonthlyDays(R, year, m) = RfcMonthly(m)
  /\ (R.freq = "WEEKLY" /\ WeekStartExists) => WeeklyDaysOfYear = RfcWeekly

\* Candidates of a year all come before those of the next, also when weeks
\* spill over New Year: the iterator may stop at the first one past UNTIL.
\* Starting the yearly periods at FirstYear skips none from DTSTART on, other
\* than in DTSTART's own week.
YearsInOrder ==
  (R.freq = "YEARLY" /\ R.byWeekNo # {}) =>
    /\ year + 1 \in Years =>
         \A d \in YearlyDays(R, year), e \in YearlyDays(R, year + 1) : Before(d, e)
    /\ year < FirstYear(R) =>
         \A d \in YearlyDays(R, year) : Before(d, R.start) \/ WeekOf(d) = WeekOf(R.start)
=============================================================================
