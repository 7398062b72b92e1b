---------------------------- MODULE RScaleCheck ----------------------------
(***************************************************************************)
(* RScale against RFC 7529 read literally, and against the Gregorian       *)
(* engine of RecurDays, which rscale.rs says it mirrors.                   *)
(***************************************************************************)
EXTENDS RScale

CONSTANT Gregorian12     \* the names of calendars that are the Gregorian one

G == INSTANCE RecurDays

-----------------------------------------------------------------------------
(* The reference: SKIP takes the nearest existing month, then the nearest  *)
(* existing day, after or before the one that was asked for.               *)

\* For each calendar, the number of the month that begins on a day, counting all
\* months one by one.
MonthNumber ==
  [name \in DOMAIN Calendars |->
    LET c == Calendars[name]
        firsts == UNION {{c[y][i].first : i \in DOMAIN c[y]} : y \in DOMAIN c}
    IN  [f \in firsts |-> Cardinality({e \in firsts : e <= f})]]

\* Of all that exists, in order: what was asked for, or its neighbour.
Nearest(real, asked) ==
  LET earlier == {r \in real : r < asked}
      later == {r \in real : r > asked}
  IN  CASE asked \in real -> {asked}
        [] asked \notin real /\ rule.skip = "FORWARD" /\ later # {} -> {Min(later)}
        [] asked \notin real /\ rule.skip = "BACKWARD" /\ earlier # {} -> {Max(earlier)}
        [] OTHER -> {}

\* Day n of len days, counted from either end.  Days have even places; the odd
\* one before the first, or after the last, is that of a day that does not exist.
SkipToDay(first, len, n) ==
  LET target == IF n > 0 THEN n ELSE len + n + 1
      place == CASE target < 1 -> 2 * first - 1
                 [] target > len -> 2 * (first + len) - 1
                 [] OTHER -> 2 * (first + target - 1)
  IN  {p \div 2 : p \in Nearest({2 * d : d \in (first - 1)..(first + len)}, place)}

\* The month of a year: a leap month comes after the regular one of its number,
\* and a number past the end of the year means its last month.
SkipToMonth(y, want) ==
  LET Place(m) == 2 * m.number + (IF m.leap THEN 1 ELSE 0)
      past == want.number > Last(Months[y]).number /\ ~want.leap /\ rule.skip # "OMIT"
  IN  IF past THEN {Last(Months[y])}
      ELSE {m \in MonthsIn(y) :
              Place(m) \in Nearest({Place(l) : l \in MonthsIn(y)}, Place(want))}

\* The dates that a BYDAY entry selects of some days: all of its weekday, or the
\* nth of them from either end; from the end, nothing in a month or year that the
\* last date cuts off, where the end is no date.
Counted(days, e) ==
  LET same == {d \in days : WeekdayOf(d) = e.wd}
  IN  {d \in same \cap Dates :
         \/ e.n = 0
         \/ e.n > 0 /\ Cardinality({c \in same : c <= d}) = e.n
         \/ e.n < 0 /\ days \subseteq Dates /\ Cardinality({c \in same : c >= d}) = -e.n}
OnListedDays(days) == UNION {Counted(days, e) : e \in rule.byDay}

\* The days of a month that BYMONTHDAY selects, none of them skipped to.
OnMonthDays(m) ==
  {d \in DaysOf(m) : rule.byMonthDay = {}
                       \/ d - m.first + 1 \in rule.byMonthDay
                       \/ d - m.first - m.days \in rule.byMonthDay}
SkippedMonthDays(m) == UNION {SkipToDay(m.first, m.days, n) : n \in DaysWanted}

RfcYearlyDays(y) ==
  LET all == YearFirst(y)..YearEnd(y)
      months == UNION {SkipToMonth(y, w) : w \in MonthsWanted}
      listed == IF MonthsWanted = {} THEN OnListedDays(all)
                ELSE UNION {OnListedDays(DaysOf(m)) : m \in months}
  IN  IF rule.byYearDay # {} THEN
        {d \in UNION {SkipToDay(YearFirst(y), YearLength(y), n) : n \in rule.byYearDay} :
           /\ MonthsWanted = {} \/ \E m \in months : d \in DaysOf(m)
           /\ \/ rule.byDay = {}
              \/ d \in listed
              \/ d \in Dates /\ \E e \in rule.byDay : e.n = 0 /\ e.wd = WeekdayOf(d)}
      ELSE IF rule.byDay # {} THEN
        listed \cap UNION {OnMonthDays(m) : m \in MonthsIn(y)}
      ELSE UNION {SkippedMonthDays(m) : m \in months}

RfcMonthlyDays(m) ==
  IF rule.byMonth # {} /\ [number |-> m.number, leap |-> m.leap] \notin rule.byMonth THEN {}
  ELSE IF rule.byDay # {} THEN OnListedDays(DaysOf(m)) \cap OnMonthDays(m)
  ELSE SkippedMonthDays(m)

-----------------------------------------------------------------------------
(* All instances of the rule: the periods are counted from DTSTART's. *)

PeriodsOfYear(y) ==
  IF rule.freq = "YEARLY"
    THEN IF (y - start.year) % rule.interval = 0 THEN {RfcYearlyDays(y)} ELSE {}
    ELSE LET number == MonthNumber[cal]
             ahead(i) == number[Months[y][i].first] - number[StartMonth.first]
         IN  {RfcMonthlyDays(Months[y][i]) :
                i \in {j \in DOMAIN Months[y] :
                                  ahead(j) >= 0 /\ ahead(j) % rule.interval = 0}}
PeriodsBetween(first, last) == UNION {PeriodsOfYear(y) : y \in first..last}

\* All instances of some periods: not before DTSTART, not past UNTIL, up to COUNT.
AllInstances(periods) ==
  LET valid == {x \in UNION {Instants(days) : days \in periods} :
                  x >= start.at /\ ~PastUntil(x) /\ x \div DayLen \in Dates}
  IN  {x \in valid : rule.count = NoCount \/ Rank(x, valid) <= rule.count}

\* With BYSETPOS, a day that one period skips to and another has can come out of
\* order.
Apart(periods) == rule.setPos = {} \/ \A p, q \in periods : p = q \/ p \cap q = {}

-----------------------------------------------------------------------------
(* Properties. *)

Supported == ~rule.byWeekNo /\ rule.freq # "WEEKLY"
InCalendar ==
  /\ outcome = "running" /\ Supported /\ InRange /\ Representable(year)
  /\ rule.freq = "MONTHLY" => monthOrdinal \in DOMAIN Months[year]

\* The period cursor's sums keep within their integers, as they do for intervals
\* below 2^31 - 10000 years, or 2^63 - 14 months: the period is a year or month
\* of the calendar.
Fits ==
  IF rule.freq = "YEARLY" THEN MaxYear + rule.interval < Int32 \div 2
  ELSE Max({Len(Months[y]) : y \in Years}) + rule.interval < Int64 \div 2

\* rscale.rs's SKIP semantics: a period's days are those asked for or, for one
\* that does not exist, its neighbour, whichever month or year that is in; and
\* every period is one of the calendar's.
DaysAsRfc7529 ==
  /\ (Fits /\ outcome = "running" /\ Supported /\ InRange /\ Representable(year))
       => InCalendar
  /\ InCalendar =>
       IF rule.freq = "YEARLY" THEN YearlyDays[year] = RfcYearlyDays(year)
       ELSE PeriodDaysByMonth = RfcMonthlyDays(Months[year][monthOrdinal])

\* All instances in order, each once, except for a rest of them: what comes after
\* the expansion gave up or, by months, those of the last period in the range.
Complete ==
  \A periods \in {PeriodsBetween(start.year, MaxYear)} : Apart(periods) =>
    \A lost \in {AllInstances(periods) \ out} :
      /\ out \subseteq AllInstances(periods)
      /\ \A x \in lost, y \in out : y < x
      /\ \/ lost = {} \/ outcome = "gave up"
         \/ /\ outcome = "end" /\ rule.freq = "MONTHLY"
            /\ \E days \in periods : lost \subseteq Instants(days)

\* What an error hides: a year that has to be expanded, because neither COUNT nor
\* UNTIL ends the rule before, is not representable or slides to what is no date.
\* By months, the last period before it is not seen either.
Broken(y) == ~Representable(y) \/ \E days \in PeriodsOfYear(y) : ~(days \subseteq Dates)
ReachesBroken ==
  \E y \in start.year..MaxYear : Broken(y) /\
    \A periods \in {PeriodsBetween(start.year, y - 1)} : Apart(periods) =>
      LET Valid(days) == {x \in Instants(days) : x >= start.at}
          seen == {x \in UNION {Valid(days) : days \in periods} :
                     \/ rule.freq = "YEARLY"
                     \/ \E days \in periods : x \notin Valid(days) /\ \E z \in Valid(days) : z > x}
      IN  /\ rule.count = NoCount \/ Cardinality(seen) < rule.count
          /\ \A x \in seen : ~PastUntil(x)

\* However the cursor steps over years of different lengths and days slide into
\* other periods, no instance is lost, made up or repeated.  For intervals that
\* fit; and but for an error, to which all are lost exactly where the rule reaches
\* one, although stepping past the last year should "end the expansion, not error
\* away the valid instances" (rscale.rs:388-390).
NoInstanceLost ==
  (outcome # "running" /\ Fits) =>
    IF outcome = "error" THEN ~Supported \/ ReachesBroken ELSE Complete

\* The Gregorian engine's view of the rule.
AsGregorian ==
  [freq |-> rule.freq, interval |-> rule.interval, byMonth |-> {m.number : m \in rule.byMonth},
   byWeekNo |-> {}, byYearDay |-> rule.byYearDay, byMonthDay |-> rule.byMonthDay,
   byDay |-> rule.byDay, wkst |-> 0, start |-> FromOrdinal(start.day)]

\* Nothing to skip: the days and months asked for exist in every month and year,
\* or are left out when they do not.
\* (BYMONTHDAY is no limit on BYYEARDAY here, while it is one in rrule.rs.)
NothingToSkip ==
  /\ \A m \in MonthsWanted : m.number \in 1..12 /\ ~m.leap
  /\ rule.byYearDay # {} => rule.byMonthDay = {}
  /\ \/ rule.skip = "OMIT"
     \/ IF rule.byYearDay # {} THEN rule.byYearDay \subseteq -365..365
        ELSE rule.byDay # {} \/ DaysWanted \subseteq -28..28

\* "Mirror the Gregorian engine" (rscale.rs): where there is nothing to skip,
\* RSCALE=GREGORIAN has the days of the same rule without it.
AgreesWithGregorian ==
  (InCalendar /\ cal \in Gregorian12 /\ NothingToSkip) =>
    \A r \in {G!WithDefaults(AsGregorian)} :
      IF rule.freq = "YEARLY"
        THEN YearlyDays[year] = {ToOrdinal(d) : d \in G!YearlyDays(r, year)}
        ELSE PeriodDaysByMonth =
               {ToOrdinal(d) : d \in G!MonthlyDays(r, year, monthOrdinal)}

\* The expansion ends, without COUNT or UNTIL too: for intervals that fit.  Others
\* can keep it in a year, whose instances come up again and again, or take it
\* backwards, although it should stop after "consecutive periods yield no emitted
\* instance" (rrule.rs:21-22).
Ends == <>(outcome # "running" \/ ~Fits)
=============================================================================
