------------------------------ MODULE MCRScale ------------------------------
(***************************************************************************)
(* RScaleCheck for TLC: the Gregorian calendar between the first and the   *)
(* last date, and lunisolar ones with short months: one that begins and    *)
(* ends with these dates, one that has the last date in the middle of a    *)
(* year, and one that has it in the last month of a year.                  *)
(***************************************************************************)
EXTENDS RScaleCheck, SequencesExt, TLC

MCFirstDay == ToOrdinal(Date(9996, 1, 1))
MCLastDay == ToOrdinal(Date(9999, 12, 31))

M(number, leap, days) == [number |-> number, leap |-> leap, days |-> days]

\* Years from 1 on of the given months, the first of them on a given day.
Calendar(years, first) ==
  LET Days(y) == FoldLeft(LAMBDA n, m : n + m.days, 0, years[y])
      Before(y, i) == FoldLeft(LAMBDA n, z : n + Days(z), 0, [z \in 1..(y - 1) |-> z])
                        + FoldLeft(LAMBDA n, m : n + m.days, 0, SubSeq(years[y], 1, i - 1))
  IN  [y \in DOMAIN years |->
        [i \in DOMAIN years[y] |->
          [number |-> years[y][i].number, leap |-> years[y][i].leap,
           days |-> years[y][i].days, first |-> first + Before(y, i)]]]

Short == <<M(1, FALSE, 8), M(2, FALSE, 9), M(3, FALSE, 8)>>
LeapOne == <<M(1, FALSE, 9), M(1, TRUE, 8), M(2, FALSE, 8), M(3, FALSE, 9)>>
LeapTwo == <<M(1, FALSE, 8), M(2, FALSE, 8), M(2, TRUE, 9), M(3, FALSE, 8)>>

\* The years of interest are the first and the last ones.
Ending == <<Short, LeapTwo, Short, LeapOne, Short, Short>>
MCWhole ==
  Calendar([y \in 1..46 |-> Short] \o <<LeapTwo, LeapOne, LeapOne, LeapOne, LeapOne>> \o Ending,
           MCFirstDay)
MCCut == Calendar([y \in 1..54 |-> Short] \o Ending, MCLastDay - 141 + 4 - 54 * 25)
MCBroken ==
  Calendar([y \in 1..54 |-> Short] \o <<LeapOne, Short, LeapTwo, Short, Short>>,
           MCLastDay - 131 - 54 * 25)
MCGregorian ==
  [y \in 9996..10000 |->
    [m \in 1..12 |-> [number |-> m, leap |-> FALSE, days |-> DaysInMonth(y, m),
                      first |-> ToOrdinal(Date(y, m, 1))]]]
MCCalendars ==
  ("whole" :> MCWhole) @@ ("cut" :> MCCut) @@ ("broken" :> MCBroken) @@ ("gregorian" :> MCGregorian)
MCGregorian12 == {"gregorian"}

\* Some years before the end, on the last day of a month and on a leap month's
\* first; and the first date of all.
MCStartDays ==
  [name \in DOMAIN MCCalendars |->
     LET c == MCCalendars[name]
     IN  CASE name = "gregorian" -> {ToOrdinal(Date(9996, 1, 31))}
           [] name = "whole" -> {MCFirstDay, c[53][3].first}
           [] name = "cut" -> {c[56][1].first + c[56][1].days - 1}
           [] OTHER -> {c[56][1].first + c[56][1].days - 1, c[56][3].first}]

E(n, wd) == [n |-> n, wd |-> wd]
Want(number) == [number |-> number, leap |-> FALSE]
WantLeap(number) == [number |-> number, leap |-> TRUE]
Never == [on |-> "none", at |-> 0]

Base ==
  [freq |-> "YEARLY", interval |-> 1, byMonth |-> {}, byWeekNo |-> FALSE, byYearDay |-> {},
   byMonthDay |-> {}, byDay |-> {}, times |-> {}, setPos |-> {}, count |-> NoCount,
   until |-> Never, skip |-> "OMIT"]

\* The combinations of BY lists, then how a rule steps and ends.
DayRules ==
  {[Base EXCEPT !.freq = f, !.skip = s, !.byMonth = bm, !.byYearDay = yd,
                !.byMonthDay = md, !.byDay = bd] :
     f \in {"YEARLY", "MONTHLY"}, s \in {"OMIT", "BACKWARD", "FORWARD"},
     bm \in {{}, {Want(1), Want(3)}, {WantLeap(2)}, {WantLeap(1), Want(13)}},
     yd \in {{}, {1, -1, 26, 60}, {34, 366, -366}},
     md \in {{}, {9, 31}, {28, -9, -31}},
     bd \in {{}, {E(0, 0)}, {E(2, 3), E(-1, 6), E(5, 1)}}}
SteppedRules ==
  {[Base EXCEPT !.freq = f, !.skip = s, !.interval = i, !.byMonthDay = md, !.times = t,
                !.setPos = p, !.count = c, !.until = u] :
     f \in {"YEARLY", "MONTHLY"}, s \in {"BACKWARD", "FORWARD"}, i \in {1, 2, 5},
     md \in {{9}, {1, -1, 31}}, t \in {{}, {0, 2}}, p \in {{}, {1, -1}}, c \in {NoCount, 3},
     u \in {Never, [on |-> "date", at |-> MCLastDay - 40],
            [on |-> "instant", at |-> 3 * (MCLastDay - 33) + 1]}}
\* Intervals that do not fit, or hardly: 2^32, 2^32 - 1, 2^31 - 1, 2^32 + 1 years;
\* 2^63, 2^64 - 1, 2^63 - 1 months.
MCInt32 == 2 ^ 15
MCInt64 == 2 ^ 20
WideRules ==
  {[Base EXCEPT !.interval = i, !.byMonthDay = {1}, !.count = c] :
     i \in {MCInt32, MCInt32 - 1, MCInt32 \div 2 - 1, MCInt32 + 1}, c \in {NoCount, 0, 3}}
  \cup {[Base EXCEPT !.freq = "MONTHLY", !.interval = i, !.byMonthDay = {1}, !.count = c] :
           i \in {MCInt64 \div 2, MCInt64 - 1, MCInt64 \div 2 - 1}, c \in {NoCount, 3}}
MCRules ==
  {r \in DayRules : r.freq = "MONTHLY" => r.byYearDay = {}} \cup SteppedRules \cup WideRules
    \cup {[Base EXCEPT !.byWeekNo = TRUE], [Base EXCEPT !.freq = "WEEKLY"]}
=============================================================================
