----------------------------- MODULE RecurDays -----------------------------
(***************************************************************************)
(* crates/vobject-core/src/rrule.rs: the candidate days of one period of a *)
(* Gregorian RRULE, for each frequency down to DAILY.  A rule is a record  *)
(* of sets; an ordinal of 0 on a BYDAY entry means it has none.            *)
(***************************************************************************)
EXTENDS Gregorian, FiniteSets

Rule ==
  [freq : {"YEARLY", "MONTHLY", "WEEKLY"}, interval : Nat \ {0},
   byMonth : SUBSET (1..12), byWeekNo : SUBSET (-53..53),
   byYearDay : SUBSET (-366..366), byMonthDay : SUBSET (-31..31),
   byDay : SUBSET [n : -53..53, wd : 0..6], wkst : 0..6,
   start : [year : 0..9999, month : 1..12, day : 1..31]]

\* Config::new: what DTSTART supplies when the rule does not say.
WithDefaults(r) ==
  CASE r.freq = "YEARLY" /\ r.byYearDay = {} /\ r.byDay = {} /\ r.byWeekNo = {} ->
         [r EXCEPT !.byMonthDay = IF @ = {} THEN {r.start.day} ELSE @,
                   !.byMonth = IF @ = {} THEN {r.start.month} ELSE @]
    [] r.freq = "MONTHLY" /\ r.byMonthDay = {} /\ r.byDay = {} ->
         [r EXCEPT !.byMonthDay = {r.start.day}]
    [] r.freq = "WEEKLY" /\ r.byDay = {} ->
         [r EXCEPT !.byDay = {[n |-> 0, wd |-> Weekday(r.start)]}]
    [] OTHER -> r

-----------------------------------------------------------------------------
(* The masks. *)

\* A list of positions selects position i of n, counting from either end.
Selects_OffByOne(positions, i, n) == positions = {} \/ i \in positions \/ i - n \in positions
Selects(positions, i, n) ==
  positions = {} \/ i \in positions \/ i - n - 1 \in positions

MonthPasses(r, d) == r.byMonth = {} \/ d.month \in r.byMonth
YearDayPasses(r, d) == Selects(r.byYearDay, DayOfYear(d), DaysInYear(d.year))
MonthDayPasses(r, d) == Selects(r.byMonthDay, d.day, DaysInMonth(d.year, d.month))
WeekdayPasses(r, d) == r.byDay = {} \/ \E e \in r.byDay : e.wd = Weekday(d)

\* day_passes_limits
DayPassesLimits(r, d) ==
  MonthPasses(r, d) /\ YearDayPasses(r, d) /\ MonthDayPasses(r, d) /\ WeekdayPasses(r, d)

-----------------------------------------------------------------------------
(* Weeks of a year, starting on wkst. *)

\* week1_start_ordinal: the first week with at least four days in the year.
Week1Start(y, wkst) ==
  LET jan1 == Date(y, 1, 1)
      since == (Weekday(jan1) + 7 - wkst) % 7
  IN  IF 7 - since >= 4 THEN ToOrdinal(jan1) - since ELSE ToOrdinal(jan1) - since + 7

WeeksInYear(y, wkst) == (Week1Start(y + 1, wkst) - Week1Start(y, wkst)) \div 7

\* week_year: the year a date's week belongs to.
WeekYear(d, wkst) ==
  IF ToOrdinal(d) >= Week1Start(d.year + 1, wkst) THEN d.year + 1
  ELSE IF ToOrdinal(d) < Week1Start(d.year, wkst) THEN d.year - 1
  ELSE d.year

\* The weeks BYWEEKNO selects in a year.
SelectedWeeks_Always53(r, y) ==
  {w \in 1..53 : w \in r.byWeekNo \/ w - WeeksInYear(y, r.wkst) - 1 \in r.byWeekNo}
SelectedWeeks(r, y) ==
  LET weeks == WeeksInYear(y, r.wkst)
  IN  {w \in 1..weeks : w \in r.byWeekNo \/ w - weeks - 1 \in r.byWeekNo}

-----------------------------------------------------------------------------
(* Ordinal weekdays. *)

\* nth_weekday_of_year; the empty set when there is none.
NthWeekdayOfYear(y, wd, n) ==
  LET jan1 == Date(y, 1, 1)
      dec31 == Date(y, 12, 31)
      first == ToOrdinal(jan1) + DaysUntil(Weekday(jan1), wd)
      last == ToOrdinal(dec31) - DaysUntil(wd, Weekday(dec31))
      d == FromOrdinal(IF n > 0 THEN first + (n - 1) * 7 ELSE last + (n + 1) * 7)
  IN  {e \in {d} : e.year = y}

\* nth_weekday_of_month
NthWeekdayOfMonth_WeekEarly(y, m, wd, n) ==
  LET dim == DaysInMonth(y, m)
      first == Date(y, m, 1)
      last == Date(y, m, dim)
      day == IF n > 0 THEN 1 + DaysUntil(Weekday(first), wd) + (n - 1) * 7
                      ELSE dim - DaysUntil(wd, Weekday(last)) + n * 7
  IN  {Date(y, m, e) : e \in {day} \cap 1..dim}
NthWeekdayOfMonth(y, m, wd, n) ==
  LET dim == DaysInMonth(y, m)
      first == Date(y, m, 1)
      last == Date(y, m, dim)
      day == IF n > 0 THEN 1 + DaysUntil(Weekday(first), wd) + (n - 1) * 7
                      ELSE dim - DaysUntil(wd, Weekday(last)) + (n + 1) * 7
  IN  {Date(y, m, e) : e \in {day} \cap 1..dim}

Plain(r) == {e \in r.byDay : e.n = 0}
Ordinal(r) == r.byDay \ Plain(r)

\* BYDAY, given the days its ordinal entries select.
ByDayPasses(r, d, ordinalDays) ==
  r.byDay = {} \/ (\E e \in Plain(r) : e.wd = Weekday(d)) \/ d \in ordinalDays

-----------------------------------------------------------------------------
(* The candidate days of a period. *)

DaysOfYear(y) ==
  {FromOrdinal(ToOrdinal(Date(y, 1, 1)) + i) : i \in 0..(DaysInYear(y) - 1)}

\* yearly_days with BYWEEKNO: whole weeks, which may spill into the adjacent
\* years; with no rule that selects days, DTSTART's weekday in each.
WeekDays(r, y) ==
  LET pinned == r.byDay = {} /\ r.byMonthDay = {} /\ r.byYearDay = {}
      days == {FromOrdinal(Week1Start(y, r.wkst) + (w - 1) * 7 + i) :
                 w \in SelectedWeeks(r, y), i \in 0..6}
  IN  {d \in days \ {NoDate} :
         /\ pinned => Weekday(d) = Weekday(r.start)
         /\ DayPassesLimits(r, d)}

\* yearly_days without: BYDAY ordinals count within each selected month when
\* there is a BYMONTH, and within the year otherwise.
YearDays(r, y) ==
  LET ordinalDays ==
        IF r.byMonth = {}
          THEN UNION {NthWeekdayOfYear(y, e.wd, e.n) : e \in Ordinal(r)}
          ELSE UNION {NthWeekdayOfMonth(y, m, e.wd, e.n) :
                        m \in r.byMonth, e \in Ordinal(r)}
  IN  {d \in DaysOfYear(y) :
         /\ MonthPasses(r, d) /\ YearDayPasses(r, d) /\ MonthDayPasses(r, d)
         /\ ByDayPasses(r, d, ordinalDays)}

YearlyDays(r, y) == IF r.byWeekNo # {} THEN WeekDays(r, y) ELSE YearDays(r, y)

MonthlyDays(r, y, m) ==
  LET ordinalDays == UNION {NthWeekdayOfMonth(y, m, e.wd, e.n) : e \in Ordinal(r)}
      days == {Date(y, m, i) : i \in 1..DaysInMonth(y, m)}
  IN  {d \in days : /\ MonthPasses(r, d) /\ MonthDayPasses(r, d)
                    /\ ByDayPasses(r, d, ordinalDays)}

\* The WEEKLY arm of advance_period, from the first day of the week.
WeeklyDays(r, first) ==
  {d \in {AddDays(first, i) : i \in 0..6} \ {NoDate} :
     WeekdayPasses(r, d) /\ MonthPasses(r, d)}

-----------------------------------------------------------------------------
(* expand_gregorian: where the periods start. *)

\* WEEKLY: the first day of DTSTART's week, or DTSTART itself if that day is
\* before year 0.
FirstWeek_DaysBack(r) ==
  LET d == AddDays(r.start, -((Weekday(r.start) + 6 - r.wkst) % 7))
  IN  IF d = NoDate THEN r.start ELSE d
FirstWeek(r) ==
  LET d == AddDays(r.start, -((Weekday(r.start) + 7 - r.wkst) % 7))
  IN  IF d = NoDate THEN r.start ELSE d

\* YEARLY: the year of DTSTART's week when BYWEEKNO (and BYDAY) select that
\* week, DTSTART's own year otherwise.
FirstYear_NextYear(r) ==
  IF ToOrdinal(r.start) < Week1Start(r.start.year, r.wkst) THEN r.start.year + 1
  ELSE WeekYear(r.start, r.wkst)
FirstYear(r) ==
  LET wy == WeekYear(r.start, r.wkst)
      week == (ToOrdinal(r.start) - Week1Start(wy, r.wkst)) \div 7 + 1
  IN  IF week \in SelectedWeeks(r, wy) /\ WeekdayPasses(r, r.start)
        THEN wy ELSE r.start.year
=============================================================================
