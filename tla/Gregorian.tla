----------------------------- MODULE Gregorian -----------------------------
(***************************************************************************)
(* The date arithmetic of crates/vobject-core/src/value/datetime.rs.       *)
(* Dates are records; i32 years and i64 ordinals never come near their     *)
(* limits, so integers are unbounded here.                                 *)
(***************************************************************************)
EXTENDS Integers

IsLeapYear(y) == (y % 4 = 0 /\ y % 100 # 0) \/ y % 400 = 0

DaysInMonth(y, m) ==
  IF m = 2 THEN IF IsLeapYear(y) THEN 29 ELSE 28
  ELSE IF m \in {4, 6, 9, 11} THEN 30 ELSE 31

DaysInYear(y) == IF IsLeapYear(y) THEN 366 ELSE 365

Date(y, m, d) == [year |-> y, month |-> m, day |-> d]

\* Date::new: the representable dates.
IsDate(d) ==
  /\ d.month \in 1..12
  /\ d.day \in 1..DaysInMonth(d.year, d.month)
  /\ d.year \in 0..9999

NoDate == Date(-1, 0, 0)   \* the error case

\* Sakamoto's algorithm, Monday = 0 (Weekday::number0).
MonthShift == <<0, 3, 2, 5, 0, 3, 5, 1, 4, 6, 2, 4>>
Weekday(d) ==
  LET y == IF d.month < 3 THEN d.year - 1 ELSE d.year
  IN  (y + y \div 4 - y \div 100 + y \div 400 + MonthShift[d.month] + d.day + 6) % 7

DaysUntil(from, to) == (to + 7 - from) % 7

\* Days since 0000-03-01 (Hinnant's algorithm).
ToOrdinal(d) ==
  LET y == IF d.month <= 2 THEN d.year - 1 ELSE d.year
      yoe == y % 400
      mp == (d.month + 9) % 12
      doy == (153 * mp + 2) \div 5 + d.day - 1
  IN  (y \div 400) * 146097 + yoe * 365 + yoe \div 4 - yoe \div 100 + doy

\* Its inverse; NoDate outside the years 0 to 9999.
FromOrdinal_LateCycleEnd(n) ==
  LET doe == n % 146097
      yoe == (doe - doe \div 1460 + doe \div 36524) \div 365
      doy == doe - (365 * yoe + yoe \div 4 - yoe \div 100)
      mp == (5 * doy + 2) \div 153
      m == IF mp < 10 THEN mp + 3 ELSE mp - 9
      y == yoe + (n \div 146097) * 400
      d == Date(IF m <= 2 THEN y + 1 ELSE y, m, doy - (153 * mp + 2) \div 5 + 1)
  IN  IF IsDate(d) THEN d ELSE NoDate
FromOrdinal(n) ==
  LET doe == n % 146097
      yoe == (doe - doe \div 1460 + doe \div 36524 - doe \div 146096) \div 365
      doy == doe - (365 * yoe + yoe \div 4 - yoe \div 100)
      mp == (5 * doy + 2) \div 153
      m == IF mp < 10 THEN mp + 3 ELSE mp - 9
      y == yoe + (n \div 146097) * 400
      d == Date(IF m <= 2 THEN y + 1 ELSE y, m, doy - (153 * mp + 2) \div 5 + 1)
  IN  IF IsDate(d) THEN d ELSE NoDate

AddDays(d, n) == FromOrdinal(ToOrdinal(d) + n)

DayOfYear(d) == ToOrdinal(d) - ToOrdinal(Date(d.year, 1, 1)) + 1
=============================================================================
