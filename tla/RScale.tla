------------------------------- MODULE RScale -------------------------------
(***************************************************************************)
(* crates/vobject-core/src/rscale.rs: expand_rscale(), recurrence in a     *)
(* calendar with leap months (RFC 7529), one action per period.            *)
(*                                                                         *)
(* A calendar gives each year the sequence of its months; days are         *)
(* ordinals, times of day ticks, and an instant is day * DayLen + time.    *)
(* BY lists are sets, since their order never matters, and so are the      *)
(* instances, of which each is later than the ones before it.  0 stands    *)
(* for a BYDAY entry without ordinal.  Where the code adds up numbers of   *)
(* the period cursor, they wrap as a release build's do.                   *)
(***************************************************************************)
EXTENDS Gregorian, FiniteSets, Sequences, FiniteSetsExt, SequencesExt

CONSTANTS
  Calendars,    \* for each calendar, a function from years to sequences of months
  Rules,
  StartDays,    \* the days of each calendar that DTSTART may be on
  StartTime,    \* its time of day
  DayLen,       \* ticks in a day
  FirstDay,     \* 0000-01-01 and 9999-12-31: the first and last day that can be
  LastDay,      \* represented
  Int32,        \* how many values an i32 and an i64 have
  Int64,
  MaxYears,     \* ExpandLimits
  MaxEmpty

VARIABLES
  cal, rule,    \* the calendar's name and the RECUR value
  start,        \* DTSTART: the instant, its day, year, and month of the year
  year,         \* the period cursor
  monthOrdinal,
  empty,        \* consecutive periods without an instance
  out,          \* the instances so far
  outcome       \* "running", or why the expansion ended

vars == <<cal, rule, start, year, monthOrdinal, empty, out, outcome>>

NoCount == -1

Month == [number : Nat, leap : BOOLEAN, days : Nat \ {0}, first : Int]
RuleType ==
  [freq : {"YEARLY", "MONTHLY", "WEEKLY"}, interval : 1..(Int64 - 1),
   byMonth : SUBSET [number : Nat, leap : BOOLEAN], byWeekNo : BOOLEAN,
   byYearDay : SUBSET (-366..366), byMonthDay : SUBSET (-31..31),
   byDay : SUBSET [n : -53..53, wd : 0..6], times : SUBSET Nat, setPos : SUBSET Int,
   count : Nat \cup {NoCount}, until : [on : {"none", "date", "instant"}, at : Int],
   skip : {"OMIT", "BACKWARD", "FORWARD"}]

\* Months follow each other without a gap.
ASSUME CalendarsAssumption ==
  \A name \in DOMAIN Calendars : LET c == Calendars[name] IN \A y \in DOMAIN c :
    /\ \A i \in DOMAIN c[y] : c[y][i] \in Month
    /\ \A i \in 1..(Len(c[y]) - 1) : c[y][i + 1].first = c[y][i].first + c[y][i].days
    /\ y + 1 \in DOMAIN c => c[y + 1][1].first = Last(c[y]).first + Last(c[y]).days
ASSUME WidthsAssumption ==
  /\ Int32 \in Nat /\ Int64 \in Nat /\ Int32 % 2 = 0 /\ Int64 % Int32 = 0
  /\ \A name \in DOMAIN Calendars : \A y \in DOMAIN Calendars[name] : y \in 0..(Int32 \div 2 - 1)
ASSUME RulesAssumption == Rules \subseteq RuleType

\* A number as a signed integer with so many values.
Signed(n, values) == ((n + values \div 2) % values) - values \div 2

-----------------------------------------------------------------------------
(* The calendar engine. *)

Months == Calendars[cal]
Years == DOMAIN Months
MonthsIn(y) == {Months[y][i] : i \in DOMAIN Months[y]}

DaysOf(m) == m.first..(m.first + m.days - 1)
YearFirst(y) == Months[y][1].first
YearEnd(y) == LET last == Last(Months[y]) IN last.first + last.days - 1
YearLength(y) == YearEnd(y) - YearFirst(y) + 1

\* The days for which Date::from_ordinal gives a date.
Dates == FirstDay..LastDay

\* months_of_year fails for a year that the calendar does not have, or with a
\* month that begins on no date.
Representable(y) == y \in Years /\ \A m \in MonthsIn(y) : m.first \in Dates

\* resolve_month, as a set of at most one month.
ResolveMonth_LeapBackward(y, want) ==
  LET named == {m \in MonthsIn(y) : m.number = want.number /\ m.leap = want.leap}
  IN  IF named # {} \/ rule.skip = "OMIT" THEN named
      ELSE IF ~want.leap THEN {Last(Months[y])}
      ELSE {m \in MonthsIn(y) : m.number = want.number}
ResolveMonth(y, want) ==
  LET named == {m \in MonthsIn(y) : m.number = want.number /\ m.leap = want.leap}
      later == {i \in DOMAIN Months[y] : Months[y][i].number > want.number}
  IN  IF named # {} \/ rule.skip = "OMIT" THEN named
      ELSE IF ~want.leap THEN {Last(Months[y])}
      ELSE IF rule.skip = "BACKWARD" THEN {m \in MonthsIn(y) : m.number = want.number}
      ELSE {Months[y][i] : i \in {j \in later : j = Min(later)}}

\* resolve_day and resolve_year_day: day n of the month or year that has len
\* days from first on, counted from its end if negative.
ResolveDay(first, len, n) ==
  LET target == IF n > 0 THEN n ELSE len + n + 1
  IN  CASE target \in 1..len -> {first + target - 1}
        [] rule.skip = "OMIT" -> {}
        [] rule.skip = "BACKWARD" -> {IF target < 1 THEN first - 1 ELSE first + len - 1}
        [] OTHER -> {IF target < 1 THEN first ELSE first + len}

\* The weekday of an ordinal: day 0 is a Wednesday.
WeekdayOf(day) == (day + 2) % 7

\* nth_weekday_in_range, which needs the date that it counts from.
NthWeekday_FromNextDay(first, len, e) ==
  LET last == first + len - 1
      d == IF e.n > 0 THEN first + DaysUntil(WeekdayOf(first), e.wd) + (e.n - 1) * 7
                      ELSE last - DaysUntil(e.wd, WeekdayOf(last)) + e.n * 7
  IN  {x \in {d} : IF e.n > 0 THEN first \in Dates /\ x <= last
                             ELSE last \in Dates /\ x >= first}
NthWeekday(first, len, e) ==
  LET last == first + len - 1
      d == IF e.n > 0 THEN first + DaysUntil(WeekdayOf(first), e.wd) + (e.n - 1) * 7
                      ELSE last - DaysUntil(e.wd, WeekdayOf(last)) + (e.n + 1) * 7
  IN  {x \in {d} : IF e.n > 0 THEN first \in Dates /\ x <= last
                             ELSE last \in Dates /\ x >= first}

OrdinalDays(first, len) ==
  UNION {NthWeekday(first, len, e) : e \in {f \in rule.byDay : f.n # 0}}

\* BYDAY, given the days its ordinal entries select; a day that is no date is
\* dropped.
ByDayPasses(day, ordinalDays) ==
  /\ day \in Dates
  /\ day \in ordinalDays \/ \E e \in rule.byDay : e.n = 0 /\ e.wd = WeekdayOf(day)

\* slot_days_filtered
SlotDays(m, ordinalDays) ==
  {d \in DaysOf(m) :
     /\ \/ rule.byMonthDay = {}
        \/ \E n \in rule.byMonthDay :
             d = m.first + (IF n > 0 THEN n - 1 ELSE m.days + n)
     /\ ByDayPasses(d, ordinalDays)}

-----------------------------------------------------------------------------
(* The candidate days of a period. *)

StartMonth == Months[start.year][start.month]

\* What DTSTART supplies; no months wanted means all of the year's.
MonthsWanted ==
  IF rule.byMonth # {} \/ rule.byDay # {} \/ rule.byYearDay # {} THEN rule.byMonth
  ELSE {[number |-> StartMonth.number, leap |-> StartMonth.leap]}
DaysWanted ==
  IF rule.byMonthDay # {} THEN rule.byMonthDay ELSE {start.day - StartMonth.first + 1}

WantedMonths(y) == UNION {ResolveMonth(y, w) : w \in MonthsWanted}

WantedDays(m) == UNION {ResolveDay(m.first, m.days, n) : n \in DaysWanted}

\* BYDAY ordinals count in each wanted month, or else in the whole year.
YearlyOrdinals(y) ==
  IF MonthsWanted = {} THEN OrdinalDays(YearFirst(y), YearLength(y))
  ELSE UNION {OrdinalDays(m.first, m.days) : m \in WantedMonths(y)}

YearlyDays ==
  [y \in Years |->
    IF rule.byYearDay # {} THEN
      {d \in UNION {ResolveDay(YearFirst(y), YearLength(y), n) : n \in rule.byYearDay} :
         /\ MonthsWanted = {} \/ \E m \in WantedMonths(y) : d \in DaysOf(m)
         /\ rule.byDay = {} \/ ByDayPasses(d, YearlyOrdinals(y))}
    ELSE IF rule.byDay # {} THEN
      UNION {SlotDays(m, YearlyOrdinals(y)) :
               m \in IF MonthsWanted = {} THEN MonthsIn(y) ELSE WantedMonths(y)}
    ELSE UNION {WantedDays(m) : m \in WantedMonths(y)}]

MonthlyDaysOf(m) ==
  IF ~(rule.byMonth = {} \/ [number |-> m.number, leap |-> m.leap] \in rule.byMonth) THEN {}
  ELSE IF rule.byDay # {} THEN SlotDays(m, OrdinalDays(m.first, m.days))
  ELSE WantedDays(m)
MonthlyDays == [y \in Years |-> [i \in DOMAIN Months[y] |-> MonthlyDaysOf(Months[y][i])]]

\* Each day at each time, of which BYSETPOS selects some by position.
Times == IF rule.times = {} THEN {StartTime} ELSE rule.times
Rank(x, set) == Cardinality({y \in set : y <= x})
Instants(days) ==
  LET all == {d * DayLen + t : d \in days, t \in Times}
  IN  {x \in all : \/ rule.setPos = {}
                   \/ Rank(x, all) \in rule.setPos
                   \/ Rank(x, all) - Cardinality(all) - 1 \in rule.setPos}

PastUntil(x) ==
  CASE rule.until.on = "none" -> FALSE
    [] rule.until.on = "date" -> x \div DayLen > rule.until.at
    [] OTHER -> x > rule.until.at

-----------------------------------------------------------------------------
(* The loop over periods. *)

\* The last year to be expanded: the one with the last date at most.
LastYear ==
  [name \in DOMAIN Calendars |->
     LET c == Calendars[name]
     IN  CHOOSE y \in DOMAIN c : /\ c[y][1].first <= LastDay
                                /\ Last(c[y]).first + Last(c[y]).days > LastDay]
MaxYear == Min({start.year + MaxYears, LastYear[cal]})

Init ==
  /\ cal \in DOMAIN Calendars /\ rule \in Rules
  /\ \E day \in StartDays[cal], y \in Years : \E i \in DOMAIN Months[y] :
       /\ day \in DaysOf(Months[y][i]) \cap Dates
       /\ start = [at |-> day * DayLen + StartTime, day |-> day, year |-> y, month |-> i]
  /\ year = start.year /\ monthOrdinal = start.month
  /\ empty = 0 /\ out = {} /\ outcome = "running"

End(why) ==
  /\ outcome' = why
  /\ out' = IF why = "error" THEN {} ELSE out
  /\ UNCHANGED <<cal, rule, start, year, monthOrdinal, empty>>

InRange == year <= MaxYear /\ empty <= Max({1, MaxEmpty})

Refuse == outcome = "running" /\ rule.byWeekNo /\ End("error")

Running == outcome = "running" /\ ~rule.byWeekNo

Stop_NoRange ==
  /\ Running
  /\ \/ year <= MaxYear /\ empty > Max({1, MaxEmpty}) /\ End("gave up")
     \/ InRange /\ Representable(year) /\ rule.count = 0 /\ End("count")
Stop ==
  /\ Running
  /\ \/ year > MaxYear /\ End("end")
     \/ year <= MaxYear /\ empty > Max({1, MaxEmpty}) /\ End("gave up")
     \/ InRange /\ Representable(year) /\ rule.count = 0 /\ End("count")

\* months_of_year fails, for the first year even before COUNT is looked at.
Unrepresentable == Running /\ InRange /\ ~Representable(year) /\ End("error")

InPeriod == Running /\ InRange /\ Representable(year) /\ rule.count # 0

OtherFrequency == InPeriod /\ rule.freq = "WEEKLY" /\ End("error")

\* The instances of a period, up to the first past UNTIL or to COUNT; a day that
\* is no date is an error, unless the loop has ended before it.
Emitted(instants) ==
  LET fresh == {x \in instants : /\ x >= start.at /\ x \div DayLen <= LastDay
                                 /\ \A y \in out : y < x}
      kept == {x \in fresh : ~PastUntil(x)}
      room == rule.count - Cardinality(out)
      early == \E x \in instants : x \div DayLen < FirstDay
      late == \E x \in instants : x \div DayLen > LastDay
  IN  IF early THEN [why |-> "error", out |-> {}]
      ELSE IF rule.count # NoCount /\ room <= Cardinality(kept)
        THEN [why |-> "count", out |-> out \cup {x \in kept : Rank(x, kept) <= room}]
      ELSE IF kept # fresh THEN [why |-> "until", out |-> out \cup kept]
      ELSE IF late THEN [why |-> "error", out |-> {}]
      ELSE [why |-> "running", out |-> out \cup kept]

Emit(days) ==
  \E instants \in {Instants(days)} : \E e \in {Emitted(instants)} :
    /\ outcome' = e.why /\ out' = e.out
    /\ empty' = IF instants = {} THEN empty + 1 ELSE 0

YearlyPeriod ==
  /\ InPeriod /\ rule.freq = "YEARLY"
  /\ Emit(YearlyDays[year])
  /\ year' = Signed(year + Signed(rule.interval, Int32), Int32)
  /\ UNCHANGED <<cal, rule, start, monthOrdinal>>

\* Month i of year y, where i may count on into later years; stops at a year
\* that is out of range or not representable.
Peel_FirstYearsLength(y, i) ==
  LET p[z \in Int, j \in Int] ==
        IF z > MaxYear \/ ~Representable(z) \/ j <= Len(Months[y]) THEN <<z, j>>
        ELSE p[z + 1, j - Len(Months[y])]
  IN  p[y, i]
Peel(y, i) ==
  LET p[z \in Int, j \in Int] ==
        IF z > MaxYear \/ ~Representable(z) \/ j <= Len(Months[z]) THEN <<z, j>>
        ELSE p[z + 1, j - Len(Months[z])]
  IN  p[y, i]

PeriodDaysByMonth ==
  IF monthOrdinal \in DOMAIN Months[year] THEN MonthlyDays[year][monthOrdinal] ELSE {}

\* The cursor is moved on before the candidates are emitted: if that leads out
\* of the range, they are not.
MonthlyPeriod ==
  /\ InPeriod /\ rule.freq = "MONTHLY"
  /\ \E next \in {Peel(year, Signed(monthOrdinal + Signed(rule.interval, Int64), Int64))} :
       \/ next[1] > MaxYear /\ End("end")
       \/ next[1] <= MaxYear /\ ~Representable(next[1]) /\ End("error")
       \/ /\ next[1] <= MaxYear /\ Representable(next[1])
          /\ Emit(PeriodDaysByMonth)
          /\ year' = next[1] /\ monthOrdinal' = next[2]
          /\ UNCHANGED <<cal, rule, start>>

Next == Refuse \/ Stop \/ Unrepresentable \/ OtherFrequency \/ YearlyPeriod \/ MonthlyPeriod

\* The loop runs on to its end.
Spec == Init /\ [][Next]_vars /\ WF_vars(Next)
=============================================================================
