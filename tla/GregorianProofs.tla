-------------------------- MODULE GregorianProofs --------------------------
(***************************************************************************)
(* Proofs about Gregorian, by way of GregorianWalk, and about RecurDays on *)
(* top of them. Days are counted from 0000-03-01: a date has UpTo its      *)
(* March year, plus MonthStart, plus its day. From there the walk's        *)
(* invariant follows one day at a time, and FromOrdinal is shown to find   *)
(* the year, the month and the day of every number again. A year's and a   *)
(* month's days are then runs of numbers, a weekday's every seventh of a   *)
(* run, and a week the seven from one that its first weekday falls on:     *)
(* counting and the code's formulas meet there.                            *)
(***************************************************************************)
EXTENDS GregorianWalk, RecurDaysCheck, FiniteSetTheorems, TLAPS

\* Days from 0000-03-01 to March 1 of a year.
UpTo(y) == 365 * y + y \div 4 - y \div 100 + y \div 400

\* The same, counted by cycles of 400 years.
ByCycles(y) ==
  (y \div 400) * 146097 + (y % 400) * 365 + (y % 400) \div 4 - (y % 400) \div 100

\* The year a date's days are counted from March 1 of, and the days since.
MarchYear(d) == IF d.month <= 2 THEN d.year - 1 ELSE d.year
MonthStart == <<306, 337, 0, 31, 61, 92, 122, 153, 184, 214, 245, 275>>
SinceMarch(d) == MonthStart[d.month] + d.day - 1

Dated(d) ==
  /\ d = Date(d.year, d.month, d.day)
  /\ d.year \in Int
  /\ d.month \in 1..12
  /\ d.day \in 1..DaysInMonth(d.year, d.month)

LEMMA ByCycle ==
  ASSUME NEW y \in Int
  PROVE  ByCycles(y) = UpTo(y)
<1>1. PICK e, z : e = y \div 400 /\ z = y % 400
  OBVIOUS
<1>2. e \in Int /\ z \in 0..399 /\ y = 400 * e + z
  BY <1>1
<1>3. y \div 4 = 100 * e + z \div 4
  BY <1>2
<1>4. y \div 100 = 4 * e + z \div 100
  BY <1>2
<1> QED BY <1>1, <1>2, <1>3, <1>4 DEF UpTo, ByCycles

LEMMA NextYear ==
  ASSUME NEW y \in Int
  PROVE  UpTo(y + 1) = UpTo(y) + DaysInYear(y + 1)
<1>1. PICK a, b, c, d, e, f : /\ a = y \div 4 /\ b = y \div 100 /\ c = y \div 400
                              /\ d = (y + 1) \div 4 /\ e = (y + 1) \div 100 /\ f = (y + 1) \div 400
  OBVIOUS
<1>2. d = (IF (y + 1) % 4 = 0 THEN a + 1 ELSE a)
  BY <1>1
<1>3. e = (IF (y + 1) % 100 = 0 THEN b + 1 ELSE b)
  BY <1>1
<1>4. f = (IF (y + 1) % 400 = 0 THEN c + 1 ELSE c)
  BY <1>1
<1>5. ((y + 1) % 400 = 0 => (y + 1) % 100 = 0) /\ ((y + 1) % 100 = 0 => (y + 1) % 4 = 0)
  OBVIOUS
<1>6. a \in Int /\ b \in Int /\ c \in Int
  BY <1>1
<1> QED BY <1>1, <1>2, <1>3, <1>4, <1>5, <1>6 DEF UpTo, DaysInYear, IsLeapYear

LEMMA Months ==
  ASSUME NEW m \in 1..12
  PROVE  \/ m = 1 \/ m = 2 \/ m = 3 \/ m = 4 \/ m = 5 \/ m = 6
         \/ m = 7 \/ m = 8 \/ m = 9 \/ m = 10 \/ m = 11 \/ m = 12
OBVIOUS

LEMMA MonthStarts ==
  ASSUME NEW m \in 1..12
  PROVE  (153 * ((m + 9) % 12) + 2) \div 5 = MonthStart[m]
BY Months DEF MonthStart

LEMMA StartsWithin ==
  ASSUME NEW m \in 1..12
  PROVE  MonthStart[m] \in Int
BY Months DEF MonthStart

LEMMA MonthLength ==
  ASSUME NEW y, NEW m
  PROVE  DaysInMonth(y, m) \in 28..31
BY DEF DaysInMonth

LEMMA NextStart ==
  ASSUME NEW y, NEW m \in 1..12, m # 2, m # 12
  PROVE  MonthStart[m + 1] = MonthStart[m] + DaysInMonth(y, m)
BY Months DEF MonthStart, DaysInMonth

LEMMA YearEnds ==
  ASSUME NEW y
  PROVE  MonthStart[2] + DaysInMonth(y, 2) = DaysInYear(y)
BY DEF MonthStart, DaysInMonth, DaysInYear

LEMMA LastDay ==
  ASSUME NEW y, NEW m \in 1..12, NEW k \in 1..DaysInMonth(y, m)
  PROVE  MonthStart[m] + k - 1 \in 0..(DaysInYear(y) - 1)
<1>1. CASE m = 2
  BY <1>1 DEF MonthStart, DaysInMonth, DaysInYear
<1>2. CASE m # 2
  <2>1. k \in 1..31
    BY MonthLength
  <2> QED BY <2>1, <1>2, Months DEF MonthStart, DaysInMonth, DaysInYear
<1> QED BY <1>1, <1>2

LEMMA OrdinalOf ==
  ASSUME NEW d, Dated(d)
  PROVE  ToOrdinal(d) = UpTo(MarchYear(d)) + SinceMarch(d)
<1>1. d.year \in Int /\ d.month \in 1..12 /\ d.day \in Int
  BY MonthLength DEF Dated
<1>2. (153 * ((d.month + 9) % 12) + 2) \div 5 = MonthStart[d.month]
  BY <1>1, MonthStarts
<1>3. MarchYear(d) \in Int
  BY <1>1 DEF MarchYear
<1>4. PICK y \in Int : y = MarchYear(d)
  BY <1>3
<1>5. ByCycles(y) = UpTo(y)
  BY ByCycle
<1>6. MonthStart[d.month] \in Int
  BY <1>1, StartsWithin
<1>7. ToOrdinal(d)
        = ByCycles(y) + (MonthStart[d.month] + d.day - 1)
  BY <1>1, <1>2, <1>4, <1>6 DEF ToOrdinal, MarchYear, ByCycles
<1> QED BY <1>4, <1>5, <1>7 DEF SinceMarch

LEMMA Numbers ==
  ASSUME NEW d, Dated(d)
  PROVE  /\ MarchYear(d) \in Int
         /\ SinceMarch(d) \in Int
         /\ UpTo(MarchYear(d)) \in Int
<1>1. d.year \in Int /\ d.month \in 1..12 /\ d.day \in Int
  BY MonthLength DEF Dated
<1>2. MarchYear(d) \in Int
  BY <1>1 DEF MarchYear
<1>3. UpTo(MarchYear(d)) \in Int
  <2>1. PICK y \in Int : y = MarchYear(d)
    BY <1>2
  <2> QED BY <2>1 DEF UpTo
<1>4. MonthStart[d.month] \in Int
  BY <1>1, StartsWithin
<1> QED BY <1>1, <1>2, <1>3, <1>4 DEF SinceMarch

\* Walking to the next day is counting one more.
LEMMA NextDay ==
  ASSUME NEW d, Dated(d)
  PROVE  Dated(Tomorrow(d)) /\ ToOrdinal(Tomorrow(d)) = ToOrdinal(d) + 1
<1>1. PICK y, m, k : y = d.year /\ m = d.month /\ k = d.day
  OBVIOUS
<1>2. y \in Int /\ m \in 1..12 /\ k \in 1..DaysInMonth(y, m) /\ d = Date(y, m, k)
  BY <1>1 DEF Dated
<1>3. DaysInMonth(y, m) \in 28..31
  BY MonthLength
<1>4. CASE k < DaysInMonth(y, m)
  <2>1. Tomorrow(d) = Date(y, m, k + 1)
    BY <1>1, <1>2, <1>4 DEF Tomorrow, Date
  <2>2. Dated(Date(y, m, k + 1))
    BY <1>2, <1>3, <1>4 DEF Dated, Date
  <2>3. MarchYear(Date(y, m, k + 1)) = MarchYear(d)
    BY <1>2 DEF MarchYear, Date
  <2>4. SinceMarch(Date(y, m, k + 1)) = SinceMarch(d) + 1
    <3>1. MonthStart[m] \in Int /\ k \in Int
      BY <1>2, <1>3, StartsWithin
    <3>2. SinceMarch(Date(y, m, k + 1)) = MonthStart[m] + (k + 1) - 1
      BY DEF SinceMarch, Date
    <3>3. SinceMarch(d) = MonthStart[m] + k - 1
      BY <1>1 DEF SinceMarch
    <3> QED BY <3>1, <3>2, <3>3
  <2> QED BY <2>1, <2>2, <2>3, <2>4, OrdinalOf, Numbers
<1>5. CASE k = DaysInMonth(y, m) /\ m < 12
  <2>1. Tomorrow(d) = Date(y, m + 1, 1)
    BY <1>1, <1>2, <1>3, <1>5 DEF Tomorrow, Date
  <2>2. Dated(Date(y, m + 1, 1))
    <3>1. m + 1 \in 1..12
      BY <1>2, <1>5
    <3>2. DaysInMonth(y, m + 1) \in 28..31
      BY MonthLength
    <3> QED BY <1>2, <3>1, <3>2 DEF Dated, Date
  <2>3. CASE m # 2
    <3>1. MarchYear(Date(y, m + 1, 1)) = MarchYear(d)
      BY <1>2, <2>3 DEF MarchYear, Date
    <3>2. MonthStart[m + 1] = MonthStart[m] + DaysInMonth(y, m) /\ MonthStart[m] \in Int
      <4>1. m \in 1..12 /\ m # 2 /\ m # 12
        BY <1>2, <1>5, <2>3
      <4>2. MonthStart[m + 1] = MonthStart[m] + DaysInMonth(y, m)
        BY <4>1, NextStart
      <4>3. MonthStart[m] \in Int
        BY <4>1, StartsWithin
      <4> QED BY <4>2, <4>3
    <3>3. SinceMarch(Date(y, m + 1, 1)) = SinceMarch(d) + 1
      <4>1. SinceMarch(Date(y, m + 1, 1)) = MonthStart[m + 1] + 1 - 1
        BY DEF SinceMarch, Date
      <4>2. SinceMarch(d) = MonthStart[m] + k - 1
        BY <1>1 DEF SinceMarch
      <4> QED BY <1>3, <1>5, <3>2, <4>1, <4>2
    <3> QED BY <2>1, <2>2, <3>1, <3>3, OrdinalOf, Numbers
  <2>4. CASE m = 2
    <3>1. MarchYear(Date(y, 3, 1)) = y /\ MarchYear(d) = y - 1
      BY <1>2, <2>4 DEF MarchYear, Date
    <3>2. SinceMarch(Date(y, 3, 1)) = 0 /\ SinceMarch(d) = DaysInYear(y) - 1
      <4>1. MonthStart[2] + DaysInMonth(y, 2) = DaysInYear(y)
        BY YearEnds
      <4> QED BY <1>2, <1>3, <1>5, <2>4, <4>1 DEF SinceMarch, Date, MonthStart
    <3>3. UpTo(y) = UpTo(y - 1) + DaysInYear(y)
      <4>1. UpTo((y - 1) + 1) = UpTo(y - 1) + DaysInYear((y - 1) + 1)
        BY <1>2, NextYear
      <4> QED BY <1>2, <4>1
    <3>4. DaysInYear(y) \in Int /\ UpTo(y - 1) \in Int
      BY <1>2, <3>1, Numbers DEF DaysInYear
    <3> QED BY <2>1, <2>2, <2>4, <3>1, <3>2, <3>3, <3>4, OrdinalOf
  <2> QED BY <2>3, <2>4
<1>6. CASE k = DaysInMonth(y, m) /\ m = 12
  <2>1. Tomorrow(d) = Date(y + 1, 1, 1)
    BY <1>1, <1>2, <1>3, <1>6 DEF Tomorrow, Date
  <2>2. Dated(Date(y + 1, 1, 1))
    BY <1>2 DEF Dated, Date, DaysInMonth
  <2>3. MarchYear(Date(y + 1, 1, 1)) = y /\ MarchYear(d) = y
    BY <1>2, <1>6 DEF MarchYear, Date
  <2>4. SinceMarch(Date(y + 1, 1, 1)) = SinceMarch(d) + 1
    <3>1. DaysInMonth(y, 12) = 31
      BY DEF DaysInMonth
    <3> QED BY <1>2, <1>6, <3>1 DEF SinceMarch, Date, MonthStart
  <2> QED BY <2>1, <2>2, <2>3, <2>4, OrdinalOf, Numbers
<1> QED BY <1>2, <1>3, <1>4, <1>5, <1>6

\* The steps of FromOrdinal: the year of a day of the cycle, the days before
\* a year of it, and the month of a day counted from March 1.
YearOfCycle(doe) == (doe - doe \div 1460 + doe \div 36524 - doe \div 146096) \div 365
BeforeYear(z) == 365 * z + z \div 4 - z \div 100
DayOfCycle(z, k) == BeforeYear(z) + k
InCycle(x) == 0 <= x /\ x <= 146096
MonthOf(k) == IF (5 * k + 2) \div 153 < 10 THEN (5 * k + 2) \div 153 + 3 ELSE (5 * k + 2) \div 153 - 9
StartOf(k) == (153 * ((5 * k + 2) \div 153) + 2) \div 5

\* The correction for the last day of the cycle is needed when c is 3, q is
\* 24, r is 3 and k is 365, and only then.
LEMMA YearFound ==
  ASSUME NEW z \in 0..399, NEW k \in 0..365, k = 365 => IsLeapYear(z + 1),
         NEW x \in Int, x = DayOfCycle(z, k)
  PROVE  InCycle(x) /\ YearOfCycle(x) = z
<1>1. PICK c \in 0..3, q \in 0..24, r \in 0..3 : z = 100 * c + 4 * q + r
  <2>1. z \div 100 \in 0..3 /\ (z % 100) \div 4 \in 0..24 /\ z % 4 \in 0..3
    BY SMT
  <2>2. z = 100 * (z \div 100) + 4 * ((z % 100) \div 4) + (z % 4)
    BY SMT
  <2>3. PICK c \in 0..3 : c = z \div 100
    BY <2>1
  <2>4. PICK q \in 0..24 : q = (z % 100) \div 4
    BY <2>1
  <2>5. PICK r \in 0..3 : r = z % 4
    BY <2>1
  <2>6. z = 100 * c + 4 * q + r
    BY <2>2, <2>3, <2>4, <2>5
  <2> QED BY <2>6
<1>3. x = 36524 * c + 1461 * q + 365 * r + k
  <2>1. z \div 4 = 25 * c + q /\ z \div 100 = c
    BY <1>1, SMT
  <2> QED BY <1>1, <2>1, SMT DEF BeforeYear, DayOfCycle
<1>4. k = 365 => r = 3 /\ (q # 24 \/ c = 3)
  <2>1. SUFFICES ASSUME k = 365 PROVE r = 3 /\ (q # 24 \/ c = 3)
    OBVIOUS
  <2>2. \/ (z + 1) % 4 = 0 /\ (z + 1) % 100 # 0
        \/ (z + 1) % 400 = 0
    BY <2>1, SMT DEF IsLeapYear
  <2> QED BY <1>1, <2>2, SMT
<1>5. PICK s \in Int : s = 1461 * q + 365 * r + k
  BY SMT
<1>6. 0 <= s /\ s <= 36524 /\ (s = 36524 => c = 3)
  <2>1. CASE k = 365 /\ c = 3
    BY <1>4, <1>5, <2>1, SMT
  <2>2. CASE k = 365 /\ c # 3
    <3>1. q \in 0..23
      BY <1>4, <2>2, SMT
    <3>2. s <= 1461 * 23 + 365 * 3 + 365
      BY <1>5, <2>2, <3>1, SMT
    <3>3. s >= 0
      BY <1>5, SMT
    <3> QED BY <3>2, <3>3, SMT
  <2>3. CASE k # 365
    <3>1. s <= 1461 * 24 + 365 * 3 + 364
      BY <1>5, <2>3, SMT
    <3>2. s >= 0
      BY <1>5, SMT
    <3> QED BY <3>1, <3>2, SMT
  <2> QED BY <2>1, <2>2, <2>3, SMT
<1>7. x = 36524 * c + s
  BY <1>3, <1>5, SMT
<1>8. 0 <= x /\ x <= 146096
  <2>1. c = 3 \/ c <= 2
    OBVIOUS
  <2>2. s >= 0 /\ s <= 36524
    BY <1>6, SMT
  <2> QED BY <1>7, <2>1, <2>2, SMT
<1>9. x \div 36524 - x \div 146096 = c
  <2>1. CASE s = 36524
    <3>1. x = 146096 /\ c = 3
      BY <1>6, <1>7, <2>1, SMT
    <3> QED BY <3>1, SMT
  <2>2. CASE s # 36524
    <3>1. x \div 36524 = c
      BY <1>6, <1>7, <2>2, SMT
    <3>2. x \div 146096 = 0
      BY <1>6, <1>7, <2>2, SMT
    <3> QED BY <3>1, <3>2, SMT
  <2> QED BY <2>1, <2>2
<1>10. PICK p \in Int : p = 24 * c + q + 365 * r + k
  BY SMT
<1>11. PICK b \in 0..1 : b = IF p >= 1460 THEN 1 ELSE 0
  BY SMT
<1>12. x \div 1460 = 25 * c + q + b
  <2>1. x = 1460 * (25 * c + q) + p /\ p \in 0..2919
    BY <1>3, <1>10, SMT
  <2>2. PICK u \in Int : u = 25 * c + q + b
    BY SMT
  <2>3. PICK w \in Int : w = x - 1460 * u /\ 0 <= w /\ w <= 1459
    BY <1>11, <2>1, <2>2, SMT
  <2>4. x = 1460 * u + w
    BY <2>3, SMT
  <2>5. x \div 1460 = u
    BY ONLY <2>3, <2>4, x \in Int, u \in Int, SMT
  <2> QED BY <2>2, <2>5
<1>13. k - b \in 0..364
  BY <1>4, <1>10, <1>11, SMT
<1>14. PICK w \in Int : w = x - x \div 1460 + x \div 36524 - x \div 146096
  BY SMT
<1>15. w = x - (25 * c + q + b) + c
  BY <1>9, <1>12, <1>14, SMT
<1>16. w = 365 * z + (k - b)
  BY <1>1, <1>3, <1>15, SMT
<1>17. w \div 365 = z
  BY <1>13, <1>16, SMT
<1>18. YearOfCycle(x) = z
  BY <1>14, <1>17, SMT DEF YearOfCycle
<1> QED BY <1>8, <1>18, SMT DEF InCycle

LEMMA MonthFound ==
  ASSUME NEW y, NEW m \in 1..12, NEW j \in 1..DaysInMonth(y, m), NEW k, k = MonthStart[m] + j - 1
  PROVE  MonthOf(k) = m /\ StartOf(k) = MonthStart[m]
<1>1. j \in 1..31
  BY MonthLength, SMT
<1>2. (m = 2 => j <= 29) /\ (m \in {4, 6, 9, 11} => j <= 30)
  BY <1>1, SMT DEF DaysInMonth
<1>3. (5 * k + 2) \div 153 = (m + 9) % 12
  <2>1. CASE m = 1
    <3>1. MonthStart[1] = 306 /\ (1 + 9) % 12 = 10
      BY SMT DEF MonthStart
    <3> QED BY <1>1, <1>2, <2>1, <3>1, SMT
  <2>2. CASE m = 2
    <3>1. MonthStart[2] = 337 /\ (2 + 9) % 12 = 11
      BY SMT DEF MonthStart
    <3> QED BY <1>1, <1>2, <2>2, <3>1, SMT
  <2>3. CASE m = 3
    <3>1. MonthStart[3] = 0 /\ (3 + 9) % 12 = 0
      BY SMT DEF MonthStart
    <3> QED BY <1>1, <1>2, <2>3, <3>1, SMT
  <2>4. CASE m = 4
    <3>1. MonthStart[4] = 31 /\ (4 + 9) % 12 = 1
      BY SMT DEF MonthStart
    <3> QED BY <1>1, <1>2, <2>4, <3>1, SMT
  <2>5. CASE m = 5
    <3>1. MonthStart[5] = 61 /\ (5 + 9) % 12 = 2
      BY SMT DEF MonthStart
    <3> QED BY <1>1, <1>2, <2>5, <3>1, SMT
  <2>6. CASE m = 6
    <3>1. MonthStart[6] = 92 /\ (6 + 9) % 12 = 3
      BY SMT DEF MonthStart
    <3> QED BY <1>1, <1>2, <2>6, <3>1, SMT
  <2>7. CASE m = 7
    <3>1. MonthStart[7] = 122 /\ (7 + 9) % 12 = 4
      BY SMT DEF MonthStart
    <3> QED BY <1>1, <1>2, <2>7, <3>1, SMT
  <2>8. CASE m = 8
    <3>1. MonthStart[8] = 153 /\ (8 + 9) % 12 = 5
      BY SMT DEF MonthStart
    <3> QED BY <1>1, <1>2, <2>8, <3>1, SMT
  <2>9. CASE m = 9
    <3>1. MonthStart[9] = 184 /\ (9 + 9) % 12 = 6
      BY SMT DEF MonthStart
    <3> QED BY <1>1, <1>2, <2>9, <3>1, SMT
  <2>10. CASE m = 10
    <3>1. MonthStart[10] = 214 /\ (10 + 9) % 12 = 7
      BY SMT DEF MonthStart
    <3> QED BY <1>1, <1>2, <2>10, <3>1, SMT
  <2>11. CASE m = 11
    <3>1. MonthStart[11] = 245 /\ (11 + 9) % 12 = 8
      BY SMT DEF MonthStart
    <3> QED BY <1>1, <1>2, <2>11, <3>1, SMT
  <2>12. CASE m = 12
    <3>1. MonthStart[12] = 275 /\ (12 + 9) % 12 = 9
      BY SMT DEF MonthStart
    <3> QED BY <1>1, <1>2, <2>12, <3>1, SMT
  <2> QED BY <2>1, <2>2, <2>3, <2>4, <2>5, <2>6, <2>7, <2>8, <2>9, <2>10, <2>11, <2>12, Months
<1>4. (153 * ((m + 9) % 12) + 2) \div 5 = MonthStart[m]
  BY MonthStarts
<1>5. (IF (m + 9) % 12 < 10 THEN ((m + 9) % 12) + 3 ELSE ((m + 9) % 12) - 9) = m
  BY Months
<1> QED BY <1>3, <1>4, <1>5 DEF MonthOf, StartOf

ValidYear(y) == y \in 0..9999
Representable(d) == ValidYear(d.year)

LEMMA RepresentableDates ==
  ASSUME NEW d
  PROVE  IsDate(d) <=> /\ d.month \in 1..12
                       /\ d.day \in 1..DaysInMonth(d.year, d.month)
                       /\ Representable(d)
BY SMT DEF IsDate, Representable, ValidYear

\* FromOrdinal undoes ToOrdinal for every date it can represent.
LEMMA BackToDate ==
  ASSUME NEW d, Dated(d)
  PROVE  FromOrdinal(ToOrdinal(d)) = IF Representable(d) THEN d ELSE NoDate
<1>1. PICK g \in Int, m \in 1..12, j \in Int : d = Date(g, m, j) /\ j \in 1..DaysInMonth(g, m)
  BY MonthLength DEF Dated
<1>2. g = d.year /\ m = d.month /\ j = d.day
  BY <1>1 DEF Date
<1>3. PICK y \in Int : y = IF m <= 2 THEN g - 1 ELSE g
  BY SMT
<1>4. PICK k \in Int : k = MonthStart[m] + j - 1
  BY StartsWithin, SMT
<1>5. y = MarchYear(d) /\ k = SinceMarch(d)
  BY <1>2, <1>3, <1>4 DEF MarchYear, SinceMarch
<1>6. k \in 0..365 /\ (k = 365 => IsLeapYear(y + 1))
  <2>1. 0 <= k /\ k <= DaysInYear(g) - 1
    BY <1>1, <1>4, LastDay, SMT DEF DaysInYear
  <2>2. CASE m <= 2
    <3>1. y + 1 = g
      BY <1>3, <2>2
    <3> QED BY <2>1, <3>1 DEF DaysInYear
  <2>3. CASE m > 2
    <3>1. k <= 364
      BY <1>1, <1>4, <2>3, Months, SMT DEF MonthStart, DaysInMonth
    <3> QED BY <2>1, <3>1
  <2> QED BY <2>2, <2>3
<1>7. PICK e \in Int, z \in 0..399 : y = 400 * e + z /\ e = y \div 400 /\ z = y % 400
  BY SMT
<1>8. PICK x \in Int : x = BeforeYear(z) + k
  BY SMT DEF BeforeYear
<1>9. InCycle(x) /\ YearOfCycle(x) = z
  <2>1. IsLeapYear(z + 1) <=> IsLeapYear(y + 1)
    BY <1>7, SMT DEF IsLeapYear
  <2>2. k = 365 => IsLeapYear(z + 1)
    BY <1>6, <2>1
  <2>3. x = DayOfCycle(z, k)
    BY <1>8 DEF DayOfCycle
  <2>4. k \in 0..365
    BY <1>6
  <2> QED BY ZenonT(40), <2>2, <2>3, <2>4, YearFound
<1>10. PICK n \in Int : n = ToOrdinal(d)
  BY <1>5, OrdinalOf, Numbers
<1>11. n = 146097 * e + x
  <2>1. n = UpTo(y) + k
    BY <1>5, <1>10, OrdinalOf
  <2>2. UpTo(y) = ByCycles(y)
    BY ByCycle
  <2>3. ByCycles(y) = e * 146097 + BeforeYear(z)
    BY <1>7, SMT DEF ByCycles, BeforeYear
  <2>4. BeforeYear(z) \in Int
    BY SMT DEF BeforeYear
  <2> QED BY <1>8, <2>1, <2>2, <2>3, <2>4, SMT
<1>12. n % 146097 = x /\ n \div 146097 = e
  BY <1>9, <1>11, SMT DEF InCycle
<1>13. x - (365 * z + z \div 4 - z \div 100) = k
  BY <1>8, SMT DEF BeforeYear
<1>14. MonthOf(k) = m /\ StartOf(k) = MonthStart[m]
  BY <1>1, <1>4, MonthFound
<1>15. z + e * 400 = y
  BY <1>7, SMT
<1>16. k - StartOf(k) + 1 = j
  BY <1>4, <1>14, StartsWithin, SMT
<1>17. (IF m <= 2 THEN y + 1 ELSE y) = g
  BY <1>3, SMT
<1>18. Date(IF MonthOf(k) <= 2 THEN y + 1 ELSE y, MonthOf(k), k - StartOf(k) + 1) = d
  BY <1>1, <1>14, <1>16, <1>17
<1>19. FromOrdinal(n) = IF IsDate(d) THEN d ELSE NoDate
  BY <1>9, <1>12, <1>13, <1>15, <1>18 DEF FromOrdinal, YearOfCycle, MonthOf, StartOf
<1>20. CASE Representable(d)
  <2>1. IsDate(d)
    BY <1>20, RepresentableDates DEF Dated
  <2> QED BY <1>10, <1>19, <1>20, <2>1
<1>21. CASE ~Representable(d)
  <2>1. ~IsDate(d)
    BY <1>21, RepresentableDates
  <2> QED BY <1>10, <1>19, <1>21, <2>1
<1> QED BY <1>20, <1>21

\* The weeks by which MonthStart is ahead of MonthShift.
Weeks == <<52, 56, 8, 12, 17, 21, 25, 30, 34, 38, 43, 47>>

LEMMA InCycles ==
  ASSUME NEW y \in Int, NEW e \in Int, NEW z \in Int, 0 <= z, z < 400, y = 400 * e + z
  PROVE  y \div 400 = e /\ y % 400 = z
OBVIOUS

LEMMA SameWeekday ==
  ASSUME NEW a \in Int, NEW b \in Int, NEW k \in Int, b = a + 7 * k
  PROVE  b % 7 = a % 7
OBVIOUS

\* MonthShift counts the days of the months before, weeks left out.
LEMMA WeekdayOfOrdinal ==
  ASSUME NEW d, Dated(d)
  PROVE  Weekday(d) = (5 + ToOrdinal(d) - ToOrdinal(Date(0, 1, 1))) % 7
<1>1. PICK g \in Int, m \in 1..12, j \in Int : g = d.year /\ m = d.month /\ j = d.day
  BY MonthLength DEF Dated
<1>2. PICK y \in Int : y = IF m < 3 THEN g - 1 ELSE g
  BY SMT
<1>3. y = MarchYear(d) /\ SinceMarch(d) = MonthStart[m] + j - 1
  BY <1>1, <1>2 DEF MarchYear, SinceMarch
<1>4. PICK l \in Int : l = y \div 4 - y \div 100 + y \div 400
  BY SMT
<1>5. ToOrdinal(d) = 365 * y + l + MonthStart[m] + j - 1
  BY <1>3, <1>4, OrdinalOf, StartsWithin, SMT DEF UpTo
<1>6. ToOrdinal(Date(0, 1, 1)) = -60
  <2>1. PICK u \in Int, v \in Int : u = 0 - 1 /\ v = 399
    BY SMT
  <2>2. u = 400 * u + v
    BY <2>1, SMT
  <2>3. 0 <= v /\ v < 400
    BY <2>1, SMT
  <2>4. u \div 400 = u /\ u % 400 = v
    BY <2>2, <2>3, InCycles
  <2>5. 399 \div 4 = 99 /\ 399 \div 100 = 3
    BY SMT
  <2>6. (153 * ((1 + 9) % 12) + 2) \div 5 = 306
    BY SMT
  <2> QED BY <2>1, <2>4, <2>5, <2>6, SMT DEF ToOrdinal, Date
<1>7. Weeks[m] \in Int /\ MonthStart[m] + 58 = MonthShift[m] + 7 * Weeks[m]
  BY Months DEF Weeks, MonthStart, MonthShift
<1>8. PICK i \in Int : MonthStart[m] + 58 = MonthShift[m] + 7 * i
  BY <1>7
<1>9. MonthShift[m] \in Int /\ MonthStart[m] \in Int
  BY Months DEF MonthShift, MonthStart
<1>10. PICK a \in Int, b \in Int : a = y + l + MonthShift[m] + j + 6 /\ b = 365 * y + l + MonthStart[m] + j + 64
  BY <1>9, SMT
<1>11. b = a + 7 * (52 * y + i)
  BY <1>8, <1>9, <1>10, SMT
<1>12. b % 7 = a % 7
  <2>1. PICK u \in Int : u = 52 * y + i
    BY SMT
  <2> QED BY <1>11, <2>1, SameWeekday
<1>13. 5 + ToOrdinal(d) - ToOrdinal(Date(0, 1, 1)) = b
  BY <1>5, <1>6, <1>9, <1>10, SMT
<1>14. Weekday(d) = a % 7
  BY <1>1, <1>2, <1>4, <1>9, <1>10, SMT DEF Weekday
<1> QED BY <1>12, <1>13, <1>14

\* The days of a year are numbered from January 1 to December 31.
LEMMA DaysNumbered ==
  ASSUME NEW d, Dated(d)
  PROVE  /\ DayOfYear(d) = 1 <=> d.month = 1 /\ d.day = 1
         /\ DayOfYear(d) = DaysInYear(d.year) <=> d.month = 12 /\ d.day = 31
<1>1. PICK g \in Int, m \in 1..12, j \in Int : d = Date(g, m, j) /\ j \in 1..DaysInMonth(g, m)
  BY MonthLength DEF Dated
<1>2. g = d.year /\ m = d.month /\ j = d.day /\ j \in 1..31
  BY <1>1, MonthLength, SMT DEF Date
<1>3. PICK first : first = Date(g, 1, 1)
  OBVIOUS
<1>4. Dated(first) /\ MarchYear(first) = g - 1 /\ SinceMarch(first) = 306
  BY <1>3 DEF Date, Dated, DaysInMonth, MarchYear, SinceMarch, MonthStart
<1>5. ToOrdinal(first) = UpTo(g - 1) + 306 /\ UpTo(g - 1) \in Int
  BY <1>4, OrdinalOf, Numbers
<1>6. UpTo(g) = UpTo(g - 1) + DaysInYear(g)
  <2>1. UpTo((g - 1) + 1) = UpTo(g - 1) + DaysInYear((g - 1) + 1)
    BY NextYear
  <2> QED BY <2>1
<1>7. DaysInYear(g) \in {365, 366} /\ MonthStart[m] \in Int
  BY StartsWithin DEF DaysInYear
<1>8. DayOfYear(d) = ToOrdinal(d) - ToOrdinal(first) + 1
  BY <1>2, <1>3 DEF DayOfYear
<1>9. CASE m <= 2
  <2>1. ToOrdinal(d) = UpTo(g - 1) + MonthStart[m] + j - 1
    BY <1>2, <1>5, <1>7, <1>9, OrdinalOf, SMT DEF MarchYear, SinceMarch
  <2>2. DayOfYear(d) = MonthStart[m] + j - 306
    BY <1>2, <1>5, <1>7, <1>8, <2>1, SMT
  <2>3. m = 1 \/ m = 2
    BY <1>9
  <2> QED BY <1>2, <1>7, <2>2, <2>3, SMT DEF MonthStart
<1>10. CASE m > 2
  <2>1. ToOrdinal(d) = UpTo(g) + MonthStart[m] + j - 1
    BY <1>2, <1>5, <1>6, <1>7, <1>10, OrdinalOf, SMT DEF MarchYear, SinceMarch
  <2>2. DayOfYear(d) = DaysInYear(g) + MonthStart[m] + j - 306
    BY <1>2, <1>5, <1>6, <1>7, <1>8, <2>1, SMT
  <2>3. MonthStart[m] + j <= 306 /\ MonthStart[m] + j >= 1 /\ (MonthStart[m] + j = 306 <=> m = 12 /\ j = 31)
    BY <1>1, <1>2, <1>10, Months, SMT DEF MonthStart, DaysInMonth
  <2> QED BY <1>2, <1>7, <1>10, <2>2, <2>3, SMT
<1> QED BY <1>9, <1>10

-----------------------------------------------------------------------------
\* The walk keeps to dates of the calendar, never goes back, and has counted
\* its days.
Walking ==
  /\ Dated(start) /\ Dated(today)
  /\ Representable(start) /\ today.year >= start.year
  /\ elapsed \in Int
  /\ ToOrdinal(today) = ToOrdinal(start) + elapsed

LEMMA LaterYear ==
  ASSUME NEW d, Dated(d)
  PROVE  Tomorrow(d).year >= d.year
BY DEF Tomorrow, Date, Dated

LEMMA WalkingBegins ==
  ASSUME WalkInit
  PROVE  Walking
<1>1. PICK y \in WalkYears : start = Date(y, 1, 1)
  BY DEF WalkInit
<1>2. y \in Int /\ start.year = y
  <2>1. y \in Int
    BY WalkAssumption, SMT
  <2> QED BY <1>1, <2>1 DEF Date
<1>3. Dated(start)
  BY <1>1, <1>2 DEF Dated, Date, DaysInMonth
<1>4. Representable(start)
  <2>1. y \in 0..9999
    BY SMTT(30), WalkAssumption
  <2> QED BY <1>2, <2>1, SMT DEF Representable, ValidYear
<1>5. today = start /\ elapsed = 0 /\ start.year >= start.year
  BY <1>2 DEF WalkInit
<1>6. ToOrdinal(start) = ToOrdinal(start) + 0
  <2>1. ToOrdinal(start) \in Int
    BY <1>3, OrdinalOf, Numbers
  <2> QED BY <2>1
<1> QED BY <1>3, <1>4, <1>5, <1>6 DEF Walking

LEMMA WalkingGoesOn ==
  ASSUME Walking, [WalkNext]_walkVars
  PROVE  Walking'
<1>1. CASE WalkNext
  <2>1. today' = Tomorrow(today) /\ elapsed' = elapsed + 1 /\ start' = start
    BY <1>1 DEF WalkNext
  <2>2. Dated(today') /\ ToOrdinal(today') = ToOrdinal(today) + 1
    BY <2>1, NextDay DEF Walking
  <2>3. today'.year >= start'.year
    <3>1. today'.year \in Int /\ today.year \in Int /\ start.year \in Int
      BY <2>2 DEF Walking, Dated
    <3>2. today'.year >= today.year
      BY <2>1, LaterYear DEF Walking
    <3> QED BY <2>1, <3>1, <3>2 DEF Walking
  <2>4. ToOrdinal(today') = ToOrdinal(start') + elapsed'
    <3>1. ToOrdinal(start) \in Int
      BY OrdinalOf, Numbers DEF Walking
    <3> QED BY <2>1, <2>2, <3>1 DEF Walking
  <2> QED BY <2>1, <2>2, <2>3, <2>4 DEF Walking
<1>2. CASE UNCHANGED walkVars
  BY <1>2 DEF Walking, walkVars
<1> QED BY <1>1, <1>2

LEMMA InRange ==
  ASSUME NEW n \in Int, NEW t \in Int, t >= 0
  PROVE  t \in 0..n <=> t <= n
OBVIOUS

LEMMA LastRepresentable ==
  ASSUME NEW d, d.year \in Int, d.year >= 0
  PROVE  Representable(d) <=> d.year <= 9999
<1>1. PICK n \in Int : n = 9999
  BY SMT
<1>2. PICK t \in Int : t = d.year
  OBVIOUS
<1>3. t \in 0..n <=> t <= n
  <2>1. t >= 0
    BY <1>2
  <2> QED BY <2>1, InRange
<1>4. Representable(d) <=> t \in 0..n
  BY <1>1, <1>2 DEF Representable, ValidYear
<1>5. d.year <= 9999 <=> t <= n
  BY <1>1, <1>2
<1>6. Representable(d) <=> t <= n
  BY <1>3, <1>4
<1> QED BY <1>5, <1>6

LEMMA ValidYears ==
  ASSUME NEW y, ValidYear(y)
  PROVE  y \in Int /\ y >= 0
<1>1. y \in 0..9999
  BY DEF ValidYear
<1> QED BY <1>1, SMT

LEMMA FirstRepresentable ==
  ASSUME NEW d, Representable(d)
  PROVE  d.year >= 0
<1>1. ValidYear(d.year)
  BY DEF Representable
<1> QED BY <1>1, ValidYears

LEMMA WalkingMatches ==
  ASSUME Walking
  PROVE  FormulasMatchWalk
<1>1. /\ Dated(start) /\ Dated(today) /\ Representable(start)
      /\ ToOrdinal(today) = ToOrdinal(start) + elapsed
      /\ today.year \in Int /\ start.year \in Int /\ elapsed \in Int
      /\ today.year >= start.year
  BY DEF Walking, Dated
<1>2. Representable(today) <=> today.year <= 9999
  <2>1. start.year >= 0
    BY <1>1, FirstRepresentable
  <2>2. today.year >= 0
    BY <1>1, <2>1
  <2> QED BY <1>1, <2>2, LastRepresentable
<1>3. AddDays(start, elapsed) = IF Representable(today) THEN today ELSE NoDate
  BY <1>1, BackToDate DEF AddDays
<1>4. AddDays(today, -elapsed) = start
  <2>1. ToOrdinal(start) \in Int
    BY <1>1, OrdinalOf, Numbers
  <2>2. ToOrdinal(today) + (-elapsed) = ToOrdinal(start)
    BY <1>1, <2>1
  <2> QED BY <1>1, <2>2, BackToDate DEF AddDays
<1>5. Weekday(today) = (5 + ToOrdinal(today) - ToOrdinal(Date(0, 1, 1))) % 7
  BY <1>1, WeekdayOfOrdinal
<1>6. /\ (DayOfYear(today) = 1) = (today.month = 1 /\ today.day = 1)
      /\ (DayOfYear(today) = DaysInYear(today.year)) = (today.month = 12 /\ today.day = 31)
  BY <1>1, DaysNumbered
<1>7. AddDays(start, elapsed) = IF today.year <= 9999 THEN today ELSE NoDate
  <2>1. CASE Representable(today)
    BY <1>2, <1>3, <2>1, SMT
  <2>2. CASE ~Representable(today)
    BY <1>2, <1>3, <2>2, SMT
  <2> QED BY <2>1, <2>2
<1> QED BY <1>1, <1>4, <1>5, <1>6, <1>7 DEF FormulasMatchWalk

\* Walks of any length, from January 1 of any representable year: the number
\* ToOrdinal gives a date is the count of days walked, FromOrdinal takes every
\* number back to its date and reports the others, weekday_of and day_of_year
\* agree with the count (datetime.rs).
THEOREM DateArithmetic == WalkSpec => []FormulasMatchWalk
<1>1. WalkInit => Walking
  BY WalkingBegins
<1>2. Walking /\ [WalkNext]_walkVars => Walking'
  BY WalkingGoesOn
<1>3. Walking => FormulasMatchWalk
  BY WalkingMatches
<1> QED BY <1>1, <1>2, <1>3, PTL DEF WalkSpec

-----------------------------------------------------------------------------
(* Every number is a date's, and the numbers of a year and of a month are *)
(* consecutive.                                                            *)

\* The days since March 1 of a year, and the years of a cycle.
DayOfMarchYear(y, k) == 0 <= k /\ k <= 365 /\ (k = 365 => IsLeapYear(y + 1))
YearInCycle(z) == 0 <= z /\ z < 400

LEMMA CycleDay ==
  ASSUME NEW x \in Int, InCycle(x)
  PROVE  \E z \in Int, k \in Int :
           YearInCycle(z) /\ DayOfMarchYear(z, k) /\ x = BeforeYear(z) + k
<1>1. PICK c \in 0..3, s \in Int :
         x = 36524 * c + s /\ 0 <= s /\ s <= 36524 /\ (s = 36524 => c = 3)
  <2>1. CASE x = 146096
    <3>1. x = 36524 * 3 + 36524
      BY <2>1, SMT
    <3> QED BY <3>1, SMT
  <2>2. CASE x # 146096
    <3>1. x \div 36524 \in 0..3 /\ 0 <= x % 36524 /\ x % 36524 < 36524
      BY <2>2, SMT DEF InCycle
    <3>2. x = 36524 * (x \div 36524) + (x % 36524)
      BY SMT
    <3> QED BY <3>1, <3>2, SMT
  <2> QED BY <2>1, <2>2, SMT
<1>2. PICK q \in 0..24, t \in Int : s = 1461 * q + t /\ 0 <= t /\ t <= 1460
  <2>1. s \div 1461 \in 0..24 /\ 0 <= s % 1461 /\ s % 1461 <= 1460
    BY <1>1, SMT
  <2>2. s = 1461 * (s \div 1461) + (s % 1461)
    BY SMT
  <2> QED BY <2>1, <2>2, SMT
<1>3. PICK r \in 0..3, k \in Int :
         t = 365 * r + k /\ 0 <= k /\ k <= 365 /\ (k = 365 => t = 1460 /\ r = 3)
  <2>1. CASE t = 1460
    <3>1. t = 365 * 3 + 365
      BY <2>1, SMT
    <3> QED BY <2>1, <3>1, SMT
  <2>2. CASE t # 1460
    <3>1. t \div 365 \in 0..3 /\ t % 365 \in 0..364
      BY <1>2, <2>2, SMT
    <3>2. t = 365 * (t \div 365) + (t % 365)
      BY SMT
    <3> QED BY <3>1, <3>2, SMT
  <2> QED BY <2>1, <2>2, SMT
<1>4. PICK z \in Int : z = 100 * c + 4 * q + r
  BY SMT
<1>5. BeforeYear(z) = 36524 * c + 1461 * q + 365 * r
  <2>1. z \div 4 = 25 * c + q /\ z \div 100 = c
    BY <1>4, SMT
  <2> QED BY <1>4, <2>1, SMT DEF BeforeYear
<1>6. ASSUME k = 365
      PROVE  IsLeapYear(z + 1)
  <2>1. r = 3 /\ (q = 24 => c = 3)
    BY <1>1, <1>2, <1>3, <1>6, SMT
  <2>2. z + 1 = 100 * c + 4 * q + 4
    BY <1>4, <2>1, SMT
  <2>3. CASE q = 24
    BY <2>1, <2>2, <2>3, SMT DEF IsLeapYear
  <2>4. CASE q # 24
    <3>1. (z + 1) % 4 = 0
      BY <2>2, SMT
    <3>2. (z + 1) % 100 # 0
      BY <2>2, <2>4, SMT
    <3> QED BY <3>1, <3>2, SMT DEF IsLeapYear
  <2> QED BY <2>3, <2>4, SMT
<1>7. x = BeforeYear(z) + k
  BY <1>1, <1>2, <1>3, <1>5, SMT
<1>8. YearInCycle(z) /\ DayOfMarchYear(z, k)
  BY <1>3, <1>4, <1>6, SMT DEF YearInCycle, DayOfMarchYear
<1> QED BY <1>7, <1>8, ZenonT(20)

LEMMA MonthExists ==
  ASSUME NEW y \in Int, NEW k \in Int, DayOfMarchYear(y, k)
  PROVE  \E g \in {y, y + 1}, m \in 1..12 :
           /\ y = IF m <= 2 THEN g - 1 ELSE g
           /\ k - MonthStart[m] + 1 \in 1..DaysInMonth(g, m)
<1> DEFINE Fits(g, m) == k - MonthStart[m] + 1 \in 1..DaysInMonth(g, m)
<1>1. CASE k < 153
  <2>1. Fits(y, 3) \/ Fits(y, 4) \/ Fits(y, 5) \/ Fits(y, 6) \/ Fits(y, 7)
    BY <1>1, SMT DEF MonthStart, DaysInMonth, DayOfMarchYear
  <2> QED BY <2>1, SMT
<1>2. CASE k >= 153 /\ k < 306
  <2>1. Fits(y, 8) \/ Fits(y, 9) \/ Fits(y, 10) \/ Fits(y, 11) \/ Fits(y, 12)
    BY <1>2, SMT DEF MonthStart, DaysInMonth, DayOfMarchYear
  <2> QED BY <2>1, SMT
<1>3. CASE k >= 306
  <2>1. Fits(y + 1, 1) \/ Fits(y + 1, 2)
    BY <1>3, SMT DEF MonthStart, DaysInMonth, DayOfMarchYear
  <2> QED BY <2>1, SMT
<1> QED BY <1>1, <1>2, <1>3, SMT

\* Every number is some date's, so FromOrdinal leaves none out.
LEMMA EveryNumber ==
  ASSUME NEW n \in Int
  PROVE  \E d : Dated(d) /\ ToOrdinal(d) = n
<1>1. PICK e \in Int, x \in Int : n = 146097 * e + x /\ InCycle(x)
  <2>1. /\ n = 146097 * (n \div 146097) + (n % 146097)
        /\ InCycle(n % 146097)
    BY SMT DEF InCycle
  <2> QED BY <2>1, SMT
<1>2. PICK z \in Int, k \in Int :
         YearInCycle(z) /\ DayOfMarchYear(z, k) /\ x = BeforeYear(z) + k
  <2>1. InCycle(x)
    BY <1>1, SMT
  <2> QED BY <2>1, CycleDay, ZenonT(20)
<1>3. PICK y \in Int : y = 400 * e + z
  BY SMT
<1>4. y \div 400 = e /\ y % 400 = z
  BY <1>2, <1>3, InCycles, SMT DEF YearInCycle
<1>5. n = UpTo(y) + k
  <2>1. BeforeYear(z) \in Int
    BY SMT DEF BeforeYear
  <2>2. ByCycles(y) = e * 146097 + BeforeYear(z)
    BY <1>4, SMT DEF ByCycles, BeforeYear
  <2>3. UpTo(y) = ByCycles(y)
    BY ByCycle, SMT
  <2> QED BY <1>1, <1>2, <2>1, <2>2, <2>3, SMT
<1>6. DayOfMarchYear(y, k)
  <2>1. IsLeapYear(z + 1) <=> IsLeapYear(y + 1)
    BY <1>3, SMT DEF IsLeapYear
  <2> QED BY <1>2, <2>1, SMT DEF DayOfMarchYear
<1>7. PICK g \in {y, y + 1}, m \in 1..12 :
         /\ y = IF m <= 2 THEN g - 1 ELSE g
         /\ k - MonthStart[m] + 1 \in 1..DaysInMonth(g, m)
  BY <1>6, MonthExists, Zenon
<1>8. PICK d : d = Date(g, m, k - MonthStart[m] + 1)
  BY SMT
<1>9. Dated(d) /\ MarchYear(d) = y /\ SinceMarch(d) = k
  <2>1. MonthStart[m] \in Int
    BY StartsWithin, SMT
  <2>2. g \in Int
    BY SMT
  <2>3. Dated(d)
    BY <1>7, <1>8, <2>2, SMT DEF Dated, Date
  <2>4. MarchYear(d) = y
    BY <1>7, <1>8, SMT DEF MarchYear, Date
  <2>5. SinceMarch(d) = MonthStart[m] + (k - MonthStart[m] + 1) - 1
    BY <1>8, SMT DEF SinceMarch, Date
  <2>6. SinceMarch(d) = k
    BY <2>1, <2>5, SMT
  <2> QED BY <2>3, <2>4, <2>6, SMT
<1>10. ToOrdinal(d) = n
  BY <1>5, <1>9, OrdinalOf, SMT
<1> QED BY <1>9, <1>10, SMT

\* The number of January 1.
Jan1(y) == ToOrdinal(Date(y, 1, 1))

LEMMA DatedDate ==
  ASSUME NEW y \in Int, NEW m \in 1..12, NEW i \in 1..DaysInMonth(y, m)
  PROVE  Dated(Date(y, m, i))
BY DEF Dated, Date

LEMMA Jan1Number ==
  ASSUME NEW y \in Int
  PROVE  Jan1(y) = UpTo(y - 1) + 306 /\ Jan1(y) \in Int /\ UpTo(y) \in Int
<1>1. Dated(Date(y, 1, 1))
  <2>1. 1 \in 1..DaysInMonth(y, 1)
    BY MonthLength
  <2> QED BY <2>1, DatedDate
<1>2. MarchYear(Date(y, 1, 1)) = y - 1 /\ SinceMarch(Date(y, 1, 1)) = 306
  BY SMT DEF MarchYear, SinceMarch, Date, MonthStart
<1>3. UpTo(y) \in Int
  BY SMT DEF UpTo
<1> QED BY <1>1, <1>2, <1>3, OrdinalOf, Numbers, SMT DEF Jan1

LEMMA Jan1Next ==
  ASSUME NEW y \in Int
  PROVE  Jan1(y + 1) = Jan1(y) + DaysInYear(y) /\ DaysInYear(y) \in {365, 366}
<1>1. PICK z \in Int : z = y - 1
  BY SMT
<1>2. UpTo(z + 1) = UpTo(z) + DaysInYear(z + 1)
  BY NextYear
<1>3. z + 1 = y /\ y + 1 - 1 = y
  BY <1>1, SMT
<1>4. DaysInYear(y) \in {365, 366}
  BY SMT DEF DaysInYear
<1>5. /\ Jan1(y) = UpTo(z) + 306
      /\ Jan1(y + 1) = UpTo(y) + 306
  BY <1>1, <1>3, Jan1Number, SMT
<1>6. UpTo(z) \in Int /\ UpTo(y) \in Int
  BY Jan1Number
<1> QED BY <1>2, <1>3, <1>4, <1>5, <1>6, SMT

LEMMA UpToGrows ==
  ASSUME NEW a \in Int, NEW b \in Int, a <= b
  PROVE  UpTo(a) <= UpTo(b)
<1>1. PICK a4 \in Int, a100 \in Int, a400 \in Int, b4 \in Int, b100 \in Int, b400 \in Int :
         /\ a4 = a \div 4 /\ a100 = a \div 100 /\ a400 = a \div 400
         /\ b4 = b \div 4 /\ b100 = b \div 100 /\ b400 = b \div 400
  BY SMT
<1>2. /\ a >= 4 * a4 /\ a >= 400 * a400 /\ a < 100 * a100 + 100
      /\ b < 4 * b4 + 4 /\ b < 400 * b400 + 400 /\ b >= 100 * b100
  BY <1>1, SMT
<1>3. UpTo(a) = 365 * a + a4 - a100 + a400 /\ UpTo(b) = 365 * b + b4 - b100 + b400
  BY <1>1 DEF UpTo
<1>4. CASE a = b
  BY <1>4, <1>1, <1>3, SMT
<1>5. CASE a + 1 <= b
  BY <1>5, <1>2, <1>3, SMT
<1> QED BY <1>4, <1>5, SMT

LEMMA Jan1Grows ==
  ASSUME NEW a \in Int, NEW b \in Int, a <= b
  PROVE  Jan1(a) <= Jan1(b)
<1>1. UpTo(a - 1) <= UpTo(b - 1)
  <2>1. PICK x \in Int, y \in Int : x = a - 1 /\ y = b - 1
    BY SMT
  <2>2. UpTo(x) <= UpTo(y)
    BY <2>1, UpToGrows, SMT
  <2> QED BY <2>1, <2>2
<1>2. UpTo(a - 1) \in Int /\ UpTo(b - 1) \in Int
  BY Jan1Number, SMT
<1> QED BY <1>1, <1>2, Jan1Number, SMT

LEMMA WithinItsYear ==
  ASSUME NEW d, Dated(d)
  PROVE  /\ ToOrdinal(d) \in Int
         /\ Jan1(d.year) <= ToOrdinal(d)
         /\ ToOrdinal(d) < Jan1(d.year + 1)
<1>1. PICK g \in Int, m \in 1..12, j \in Int : d = Date(g, m, j) /\ j \in 1..DaysInMonth(g, m)
  BY MonthLength DEF Dated
<1>2. g = d.year /\ m = d.month /\ j = d.day
  BY <1>1 DEF Date
<1>3. PICK k \in Int : k = MonthStart[m] + j - 1
  BY StartsWithin, SMT
<1>4. k = SinceMarch(d)
  BY <1>2, <1>3 DEF SinceMarch
<1>5. 0 <= k /\ k <= DaysInYear(g) - 1
  BY <1>1, <1>3, LastDay, SMT DEF DaysInYear
<1>6. PICK u \in Int, v \in Int : u = UpTo(g - 1) /\ v = UpTo(g)
  <2>1. g - 1 \in Int
    BY SMT
  <2>2. UpTo(g - 1) \in Int /\ UpTo(g) \in Int
    BY <2>1, Jan1Number
  <2> QED BY <2>2
<1>7. Jan1(g) = u + 306 /\ Jan1(g + 1) = v + 306 /\ v = u + DaysInYear(g)
  <2>1. Jan1(g) = u + 306 /\ Jan1(g + 1) = Jan1(g) + DaysInYear(g)
    BY <1>6, Jan1Number, Jan1Next
  <2>2. g + 1 - 1 = g
    BY SMT
  <2>3. Jan1(g + 1) = v + 306
    BY <1>6, <2>2, Jan1Number, SMT
  <2>4. DaysInYear(g) \in Int
    BY SMT DEF DaysInYear
  <2> QED BY <2>1, <2>3, <2>4, SMT
<1>8. DaysInYear(g) \in Int
  BY SMT DEF DaysInYear
<1>9. CASE m <= 2
  <2>1. MarchYear(d) = g - 1
    BY <1>2, <1>9 DEF MarchYear
  <2>2. ToOrdinal(d) = u + k
    BY <1>4, <1>6, <2>1, OrdinalOf
  <2>3. k >= 306
    BY <1>1, <1>3, <1>9, SMT DEF MonthStart
  <2> QED BY <1>2, <1>5, <1>7, <1>8, <2>2, <2>3, SMT
<1>10. CASE m > 2
  <2>1. MarchYear(d) = g
    BY <1>2, <1>10 DEF MarchYear
  <2>2. ToOrdinal(d) = v + k
    BY <1>4, <1>6, <2>1, OrdinalOf
  <2>3. k < 306
    BY <1>1, <1>3, <1>10, Months, SMT DEF MonthStart, DaysInMonth
  <2>4. DaysInYear(g) >= 365
    BY SMT DEF DaysInYear
  <2> QED BY <1>2, <1>5, <1>7, <1>8, <2>2, <2>3, <2>4, SMT
<1> QED BY <1>9, <1>10, SMT

\* A date's year is the one whose numbers its own is among.
LEMMA YearOf ==
  ASSUME NEW d, Dated(d), NEW y \in Int
  PROVE  d.year = y <=> Jan1(y) <= ToOrdinal(d) /\ ToOrdinal(d) < Jan1(y + 1)
<1>1. PICK g \in Int, o \in Int, p \in Int, q \in Int :
         g = d.year /\ o = ToOrdinal(d) /\ p = Jan1(g) /\ q = Jan1(g + 1)
  <2>1. d.year \in Int /\ d.year + 1 \in Int
    BY DEF Dated
  <2>2. Jan1(d.year) \in Int /\ Jan1(d.year + 1) \in Int
    BY <2>1, Jan1Number
  <2> QED BY <2>1, <2>2, WithinItsYear
<1>2. p <= o /\ o < q
  BY <1>1, WithinItsYear
<1>3. PICK r \in Int, s \in Int : r = Jan1(y) /\ s = Jan1(y + 1)
  <2>1. y + 1 \in Int
    OBVIOUS
  <2>2. Jan1(y) \in Int /\ Jan1(y + 1) \in Int
    BY <2>1, Jan1Number
  <2> QED BY <2>2
<1>4. ASSUME y < g PROVE s <= p
  <2>1. y + 1 \in Int /\ y + 1 <= g
    BY <1>4
  <2>2. Jan1(y + 1) <= Jan1(g)
    BY <2>1, Jan1Grows
  <2> QED BY <1>1, <1>3, <2>2
<1>5. ASSUME g < y PROVE q <= r
  <2>1. g + 1 \in Int /\ g + 1 <= y
    BY <1>5
  <2>2. Jan1(g + 1) <= Jan1(y)
    BY <2>1, Jan1Grows
  <2> QED BY <1>1, <1>3, <2>2
<1>6. CASE y = g
  BY <1>1, <1>2, <1>6
<1>7. CASE y < g
  BY <1>1, <1>2, <1>3, <1>4, <1>7, SMT
<1>8. CASE g < y
  BY <1>1, <1>2, <1>3, <1>5, <1>8, SMT
<1> QED BY <1>6, <1>7, <1>8, SMT

LEMMA FoundAgain ==
  ASSUME NEW d, Dated(d), ValidYear(d.year)
  PROVE  FromOrdinal(ToOrdinal(d)) = d
<1>1. Representable(d)
  BY DEF Representable
<1> QED BY <1>1, BackToDate

LEMMA NotADate == NoDate.year = -1 /\ ~Representable(NoDate)
<1>1. NoDate.year = -1
  BY SMT DEF NoDate, Date
<1> QED BY <1>1, FirstRepresentable, SMT

LEMMA DateOfNumber ==
  ASSUME NEW n \in Int
  PROVE  \/ FromOrdinal(n) = NoDate
         \/ /\ Dated(FromOrdinal(n)) /\ Representable(FromOrdinal(n))
            /\ ToOrdinal(FromOrdinal(n)) = n
<1>1. PICK d : Dated(d) /\ ToOrdinal(d) = n
  BY EveryNumber
<1> QED BY <1>1, BackToDate

LEMMA FoundInYear ==
  ASSUME NEW y \in Int, ValidYear(y), NEW n \in Int, Jan1(y) <= n, n < Jan1(y + 1)
  PROVE  LET d == FromOrdinal(n) IN Dated(d) /\ d.year = y /\ ToOrdinal(d) = n
<1>1. PICK d : Dated(d) /\ ToOrdinal(d) = n
  BY EveryNumber
<1>2. d.year = y
  BY <1>1, YearOf
<1>3. Representable(d)
  BY <1>2 DEF Representable
<1>4. FromOrdinal(n) = d
  BY <1>1, <1>3, BackToDate
<1> QED BY <1>1, <1>2, <1>4

\* Consecutive representable days, numbered from a to b.
IsRun(S, a, b) ==
  /\ a \in Int /\ b \in Int /\ a <= b
  /\ \A d \in S : /\ Dated(d) /\ a <= ToOrdinal(d) /\ ToOrdinal(d) <= b
                  /\ FromOrdinal(ToOrdinal(d)) = d
  /\ \A n \in Int : a <= n /\ n <= b =>
       FromOrdinal(n) \in S /\ ToOrdinal(FromOrdinal(n)) = n

LEMMA DaysOfYearAre ==
  ASSUME NEW y \in Int, ValidYear(y), NEW d
  PROVE  d \in DaysOfYear(y) <=> Dated(d) /\ d.year = y
<1>1. PICK j \in Int, n \in Int :
         /\ j = Jan1(y) /\ n = DaysInYear(y) /\ Jan1(y + 1) = j + n
  BY SMTT(30), Jan1Number, Jan1Next DEF DaysInYear
<1>2. d \in DaysOfYear(y) <=> \E i \in 0..(n - 1) : d = FromOrdinal(j + i)
  BY <1>1 DEF DaysOfYear, Jan1
<1>3. ASSUME NEW i \in 0..(n - 1), d = FromOrdinal(j + i)
      PROVE  Dated(d) /\ d.year = y
  <2>1. PICK k \in Int : k = j + i
    BY SMT
  <2>2. Jan1(y) <= k /\ k < Jan1(y + 1)
    BY <1>1, <2>1, SMT
  <2> QED BY <1>3, <2>1, <2>2, FoundInYear
<1>4. ASSUME Dated(d), d.year = y
      PROVE  \E i \in 0..(n - 1) : d = FromOrdinal(j + i)
  <2>1. PICK o \in Int : o = ToOrdinal(d)
    BY <1>4, WithinItsYear
  <2>2. j <= o /\ o < j + n
    BY <1>1, <1>4, <2>1, WithinItsYear
  <2>3. FromOrdinal(o) = d
    BY <1>4, <2>1, FoundAgain
  <2>4. PICK i \in 0..(n - 1) : o = j + i
    <3>1. o - j \in 0..(n - 1) /\ o = j + (o - j)
      BY <2>2, SMT
    <3> QED BY <3>1
  <2> QED BY <2>3, <2>4
<1> QED BY <1>2, <1>3, <1>4

LEMMA YearRun ==
  ASSUME NEW y \in Int, ValidYear(y)
  PROVE  IsRun(DaysOfYear(y), Jan1(y), Jan1(y + 1) - 1)
<1>1. PICK j \in Int, k \in Int : j = Jan1(y) /\ k = Jan1(y + 1) /\ j < k
  <2>1. Jan1(y) \in Int /\ Jan1(y + 1) \in Int
    BY Jan1Number
  <2> QED BY <2>1, Jan1Next, SMT
<1>2. ASSUME NEW d \in DaysOfYear(y)
      PROVE  /\ Dated(d) /\ j <= ToOrdinal(d) /\ ToOrdinal(d) <= k - 1
             /\ FromOrdinal(ToOrdinal(d)) = d
  <2>1. Dated(d) /\ d.year = y
    BY DaysOfYearAre
  <2>2. ToOrdinal(d) \in Int /\ j <= ToOrdinal(d) /\ ToOrdinal(d) < k
    BY <1>1, <2>1, WithinItsYear
  <2>3. FromOrdinal(ToOrdinal(d)) = d
    BY <2>1, FoundAgain
  <2> QED BY <2>1, <2>2, <2>3, SMT
<1>3. ASSUME NEW n \in Int, j <= n, n <= k - 1
      PROVE  FromOrdinal(n) \in DaysOfYear(y) /\ ToOrdinal(FromOrdinal(n)) = n
  <2>1. n < k
    BY <1>3, SMT
  <2> QED BY <1>1, <1>3, <2>1, FoundInYear, DaysOfYearAre
<1>4. j <= k - 1 /\ k - 1 \in Int
  BY <1>1, SMT
<1> QED BY <1>1, <1>2, <1>3, <1>4 DEF IsRun

LEMMA InTheMonth ==
  ASSUME NEW y \in Int, NEW m \in 1..12, NEW i \in 1..DaysInMonth(y, m)
  PROVE  /\ Dated(Date(y, m, i)) /\ Dated(Date(y, m, 1))
         /\ ToOrdinal(Date(y, m, i)) = ToOrdinal(Date(y, m, 1)) + i - 1
<1>1. 1 \in 1..DaysInMonth(y, m) /\ i \in Int
  BY MonthLength
<1>2. Dated(Date(y, m, i)) /\ Dated(Date(y, m, 1))
  BY <1>1, DatedDate
<1>3. MarchYear(Date(y, m, i)) = MarchYear(Date(y, m, 1))
  BY DEF MarchYear, Date
<1>4. PICK s \in Int : s = MonthStart[m]
  BY StartsWithin
<1>5. SinceMarch(Date(y, m, i)) = s + i - 1 /\ SinceMarch(Date(y, m, 1)) = s + 1 - 1
  BY <1>4 DEF SinceMarch, Date
<1> QED BY <1>1, <1>2, <1>3, <1>5, OrdinalOf, Numbers, SMT

LEMMA MonthRun ==
  ASSUME NEW y \in Int, ValidYear(y), NEW m \in 1..12
  PROVE  IsRun({Date(y, m, i) : i \in 1..DaysInMonth(y, m)},
               ToOrdinal(Date(y, m, 1)), ToOrdinal(Date(y, m, 1)) + DaysInMonth(y, m) - 1)
<1> DEFINE S == {Date(y, m, i) : i \in 1..DaysInMonth(y, m)}
<1>1. PICK n \in 28..31 : n = DaysInMonth(y, m)
  BY MonthLength
<1>2. PICK a \in Int : a = ToOrdinal(Date(y, m, 1))
  <2>1. Dated(Date(y, m, 1))
    BY <1>1, DatedDate
  <2> QED BY <2>1, WithinItsYear
<1>3. \A i \in 1..n : /\ Dated(Date(y, m, i)) /\ ToOrdinal(Date(y, m, i)) = a + i - 1
                      /\ FromOrdinal(a + i - 1) = Date(y, m, i)
  <2>1. TAKE i \in 1..n
  <2>2. Dated(Date(y, m, i)) /\ ToOrdinal(Date(y, m, i)) = a + i - 1
    BY <1>1, <1>2, InTheMonth
  <2>3. Representable(Date(y, m, i))
    BY DEF Representable, Date
  <2> QED BY <2>2, <2>3, BackToDate
<1>4. ASSUME NEW d \in S
      PROVE  /\ Dated(d) /\ a <= ToOrdinal(d) /\ ToOrdinal(d) <= a + n - 1
             /\ FromOrdinal(ToOrdinal(d)) = d
  <2>1. PICK i \in 1..n : d = Date(y, m, i)
    BY <1>1
  <2>2. a <= a + i - 1 /\ a + i - 1 <= a + n - 1
    BY SMT
  <2> QED BY <1>3, <2>1, <2>2
<1>5. ASSUME NEW k \in Int, a <= k, k <= a + n - 1
      PROVE  FromOrdinal(k) \in S /\ ToOrdinal(FromOrdinal(k)) = k
  <2>1. PICK i \in 1..n : k = a + i - 1
    <3>1. k - a + 1 \in 1..n /\ k = a + (k - a + 1) - 1
      BY <1>5, SMT
    <3> QED BY <3>1
  <2>2. FromOrdinal(k) = Date(y, m, i) /\ ToOrdinal(Date(y, m, i)) = k
    BY <1>3, <2>1
  <2> QED BY <1>1, <2>2
<1>6. a + n - 1 \in Int /\ a <= a + n - 1
  BY SMT
<1> HIDE DEF S
<1>7. IsRun(S, a, a + n - 1)
  BY <1>4, <1>5, <1>6 DEF IsRun
<1> QED BY <1>1, <1>2, <1>7 DEF S

\* The weekday of a number.
WeekdayAt(n) == (n + 2) % 7

LEMMA WeekdayNumber ==
  ASSUME NEW d, Dated(d)
  PROVE  Weekday(d) = WeekdayAt(ToOrdinal(d))
<1>1. PICK o \in Int : o = ToOrdinal(d)
  BY WithinItsYear
<1>2. ToOrdinal(Date(0, 1, 1)) = -60
  <2>1. Jan1(0) = UpTo(-1) + 306
    <3>1. 0 - 1 = -1
      BY SMT
    <3> QED BY <3>1, Jan1Number
  <2>2. UpTo(-1) = -366
    <3>1. PICK n \in Int : n = -1
      BY SMT
    <3>2. UpTo(n + 1) = UpTo(n) + DaysInYear(n + 1)
      BY NextYear
    <3>3. n + 1 = 0
      BY <3>1, SMT
    <3>4. UpTo(0) = 0 /\ DaysInYear(0) = 366
      BY SMT DEF UpTo, DaysInYear, IsLeapYear
    <3>5. UpTo(n) \in Int
      BY Jan1Number
    <3>6. UpTo(n) = -366
      BY <3>2, <3>3, <3>4, <3>5, SMT
    <3> QED BY <3>1, <3>6
  <2> QED BY <2>1, <2>2, SMT DEF Jan1
<1>3. Weekday(d) = (5 + o - (-60)) % 7
  BY <1>1, <1>2, WeekdayOfOrdinal
<1>4. PICK b \in Int, c \in Int : b = 5 + o - (-60) /\ c = o + 2
  BY SMT
<1>5. b = c + 7 * 9
  BY <1>4, SMT
<1>6. b % 7 = c % 7
  BY <1>5, SameWeekday, SMT
<1> QED BY <1>1, <1>3, <1>4, <1>6 DEF WeekdayAt

LEMMA Weekday7 ==
  ASSUME NEW n \in Int
  PROVE  /\ WeekdayAt(n) \in 0..6
         /\ \E k \in Int : n + 2 = 7 * k + WeekdayAt(n)
<1>1. n + 2 = 7 * ((n + 2) \div 7) + WeekdayAt(n) /\ WeekdayAt(n) \in 0..6
  BY SMT DEF WeekdayAt
<1>2. (n + 2) \div 7 \in Int
  BY SMT
<1> QED BY <1>1, <1>2

LEMMA Until7 ==
  ASSUME NEW a \in 0..6, NEW b \in 0..6
  PROVE  /\ DaysUntil(a, b) \in 0..6
         /\ \E k \in Int : b - a = 7 * k + DaysUntil(a, b)
<1>1. /\ b + 7 - a = 7 * ((b + 7 - a) \div 7) + DaysUntil(a, b)
      /\ DaysUntil(a, b) \in 0..6
  BY SMT DEF DaysUntil
<1>2. PICK k \in Int : k = (b + 7 - a) \div 7 - 1
  BY SMT
<1>3. b - a = 7 * k + DaysUntil(a, b)
  BY <1>1, <1>2, SMT
<1> QED BY <1>1, <1>3

LEMMA WeekdayAgain ==
  ASSUME NEW n \in Int, NEW k \in Int, NEW w \in 0..6, n + 2 = 7 * k + w
  PROVE  WeekdayAt(n) = w
BY SMT DEF WeekdayAt

\* The numbers of a weekday are every seventh, from the first one on ...
LEMMA FromWeekday ==
  ASSUME NEW a \in Int, NEW o \in Int, NEW w \in 0..6, a <= o
  PROVE  WeekdayAt(o) = w <=>
           \E i \in Nat : o = a + DaysUntil(WeekdayAt(a), w) + 7 * i
<1>1. PICK v \in 0..6, k \in Int : v = WeekdayAt(a) /\ a + 2 = 7 * k + v
  BY Weekday7
<1>2. PICK u \in 0..6, h \in Int : u = DaysUntil(v, w) /\ w - v = 7 * h + u
  BY Until7
<1>5. a + 2 = 7 * k + v /\ w - v = 7 * h + u
  BY <1>1, <1>2
<1>3. ASSUME WeekdayAt(o) = w
      PROVE  \E i \in Nat : o = a + u + 7 * i
  <2>1. PICK j \in Int : o + 2 = 7 * j + w
    BY <1>3, Weekday7
  <2>2. PICK i \in Int : i = j - k + h
    BY SMT
  <2>3. o = a + u + 7 * i
    BY <1>5, <2>1, <2>2, SMT
  <2>4. i \in Nat
    BY <2>3, SMT
  <2> QED BY <2>3, <2>4
<1>4. ASSUME NEW i \in Nat, o = a + u + 7 * i
      PROVE  WeekdayAt(o) = w
  <2>1. PICK j \in Int : j = k - h + i
    BY SMT
  <2>2. o + 2 = 7 * j + w
    BY <1>5, <1>4, <2>1, SMT
  <2> QED BY <2>2, WeekdayAgain
<1> QED BY <1>1, <1>2, <1>3, <1>4

\* ... and up to the last one.
LEMMA ToWeekday ==
  ASSUME NEW b \in Int, NEW o \in Int, NEW w \in 0..6, o <= b
  PROVE  WeekdayAt(o) = w <=>
           \E i \in Nat : o = b - DaysUntil(w, WeekdayAt(b)) - 7 * i
<1>1. PICK v \in 0..6, k \in Int : v = WeekdayAt(b) /\ b + 2 = 7 * k + v
  BY Weekday7
<1>2. PICK u \in 0..6, h \in Int : u = DaysUntil(w, v) /\ v - w = 7 * h + u
  BY Until7
<1>5. b + 2 = 7 * k + v /\ v - w = 7 * h + u
  BY <1>1, <1>2
<1>3. ASSUME WeekdayAt(o) = w
      PROVE  \E i \in Nat : o = b - u - 7 * i
  <2>1. PICK j \in Int : o + 2 = 7 * j + w
    BY <1>3, Weekday7
  <2>2. PICK i \in Int : i = k + h - j
    BY SMT
  <2>3. o = b - u - 7 * i
    BY <1>5, <2>1, <2>2, SMT
  <2>4. i \in Nat
    BY <2>3, SMT
  <2> QED BY <2>3, <2>4
<1>4. ASSUME NEW i \in Nat, o = b - u - 7 * i
      PROVE  WeekdayAt(o) = w
  <2>1. PICK j \in Int : j = k + h - i
    BY SMT
  <2>2. o + 2 = 7 * j + w
    BY <1>5, <1>4, <2>1, SMT
  <2> QED BY <2>2, WeekdayAgain
<1> QED BY <1>1, <1>2, <1>3, <1>4

\* Every seventh day, m of them after the first, and no other.
Sevens(S, p, m) ==
  /\ \A i \in 0..m : /\ FromOrdinal(p + 7 * i) \in S
                     /\ ToOrdinal(FromOrdinal(p + 7 * i)) = p + 7 * i
  /\ \A f \in S : \E i \in 0..m : f = FromOrdinal(p + 7 * i)

LEMMA CountBySevens ==
  ASSUME NEW S, NEW p \in Int, NEW m \in Nat, Sevens(S, p, m)
  PROVE  Cardinality(S) = m + 1
<1> DEFINE g == [i \in 0..m |-> FromOrdinal(p + 7 * i)]
<1>1. g \in Surjection(0..m, S)
  BY DEF Surjection, Sevens
<1>2. g \in Injection(0..m, S)
  <2>1. g \in [0..m -> S]
    BY DEF Sevens
  <2>2. ASSUME NEW i \in 0..m, NEW j \in 0..m, g[i] = g[j]
        PROVE  i = j
    <3>1. p + 7 * i = p + 7 * j
      BY <2>2 DEF Sevens
    <3> QED BY <3>1, SMT
  <2> QED BY <2>1, <2>2 DEF Injection, IsInjective
<1>3. ExistsBijection(0..m, S)
  BY <1>1, <1>2 DEF ExistsBijection, Bijection
<1>4. IsFiniteSet(0..m) /\ Cardinality(0..m) = m + 1
  BY FS_Interval, SMT
<1> QED BY <1>3, <1>4, FS_Bijection

LEMMA InRun ==
  ASSUME NEW S, NEW a, NEW b, IsRun(S, a, b), NEW d \in S
  PROVE  /\ a \in Int /\ b \in Int
         /\ ToOrdinal(d) \in Int /\ a <= ToOrdinal(d) /\ ToOrdinal(d) <= b
         /\ FromOrdinal(ToOrdinal(d)) = d
         /\ Weekday(d) = WeekdayAt(ToOrdinal(d))
BY WithinItsYear, WeekdayNumber DEF IsRun

\* A run's days of a weekday up to a day, and from it on.
UpToDay(S, d, w) == {f \in {g \in S : Weekday(g) = w} : ~Before(d, f)}
FromDay(S, d, w) == {f \in {g \in S : Weekday(g) = w} : ~Before(f, d)}

\* Counting a run's days of a weekday finds the day the code computes.
LEMMA CountedFromStart ==
  ASSUME NEW S, NEW a, NEW b, IsRun(S, a, b), NEW d \in S, NEW w \in 0..6,
         NEW m \in Nat, ToOrdinal(d) = a + DaysUntil(WeekdayAt(a), w) + 7 * m
  PROVE  Cardinality(UpToDay(S, d, w)) = m + 1
<1> DEFINE T == UpToDay(S, d, w)
<1>1. PICK o \in Int : o = ToOrdinal(d) /\ a \in Int /\ b \in Int /\ o <= b
  BY InRun
<1>2. WeekdayAt(a) \in 0..6
  BY <1>1, Weekday7
<1>3. PICK u \in 0..6 : u = DaysUntil(WeekdayAt(a), w)
  BY <1>2, Until7
<1>4. PICK p \in Int : p = a + u
  BY <1>1, SMT
<1>5. o = p + 7 * m
  BY <1>1, <1>3, <1>4
<1>6. ASSUME NEW i \in 0..m
      PROVE  FromOrdinal(p + 7 * i) \in T /\ ToOrdinal(FromOrdinal(p + 7 * i)) = p + 7 * i
  <2>1. PICK k \in Int : k = p + 7 * i
    BY SMT
  <2>2. a <= k /\ k <= b /\ k <= o
    BY <1>1, <1>4, <1>5, <2>1, SMT
  <2>3. FromOrdinal(k) \in S /\ ToOrdinal(FromOrdinal(k)) = k
    BY <2>2 DEF IsRun
  <2>4. WeekdayAt(k) = w
    <3>1. k = a + u + 7 * i /\ i \in Nat
      BY <1>4, <2>1
    <3> QED BY SMTT(30), <1>1, <1>3, <2>2, <3>1, FromWeekday
  <2>5. Weekday(FromOrdinal(k)) = w
    BY <2>3, <2>4, InRun
  <2>6. ~Before(d, FromOrdinal(k))
    BY <1>1, <2>2, <2>3, SMT DEF Before
  <2> QED BY <2>1, <2>3, <2>5, <2>6 DEF UpToDay, FromDay
<1>7. ASSUME NEW f \in T
      PROVE  \E i \in 0..m : f = FromOrdinal(p + 7 * i)
  <2>1. f \in S /\ Weekday(f) = w /\ ~Before(d, f)
    BY DEF UpToDay, FromDay
  <2>2. PICK k \in Int : k = ToOrdinal(f) /\ a <= k /\ WeekdayAt(k) = w /\ FromOrdinal(k) = f
    BY <2>1, InRun
  <2>3. PICK i \in Nat : k = a + u + 7 * i
    BY SMTT(30), <1>1, <1>3, <2>2, FromWeekday
  <2>4. k <= o
    BY <1>1, <2>1, <2>2, SMT DEF Before
  <2>5. k = p + 7 * i
    BY <1>4, <2>3
  <2>6. i \in 0..m
    BY <1>5, <2>4, <2>5, SMT
  <2> QED BY <2>2, <2>5, <2>6
<1> HIDE DEF T
<1>8. Cardinality(T) = m + 1
  <2>1. p \in Int /\ m \in Nat /\ Sevens(T, p, m)
    BY <1>5, <1>6, <1>7 DEF Sevens
  <2> QED BY <2>1, CountBySevens
<1> QED BY <1>8 DEF T

LEMMA CountedFromEnd ==
  ASSUME NEW S, NEW a, NEW b, IsRun(S, a, b), NEW d \in S, NEW w \in 0..6,
         NEW m \in Nat, ToOrdinal(d) = b - DaysUntil(w, WeekdayAt(b)) - 7 * m
  PROVE  Cardinality(FromDay(S, d, w)) = m + 1
<1> DEFINE T == FromDay(S, d, w)
<1>1. PICK p \in Int : p = ToOrdinal(d) /\ a \in Int /\ b \in Int /\ a <= p
  BY InRun
<1>2. WeekdayAt(b) \in 0..6
  BY <1>1, Weekday7
<1>3. PICK u \in 0..6 : u = DaysUntil(w, WeekdayAt(b))
  BY <1>2, Until7
<1>5. p = b - u - 7 * m
  BY <1>1, <1>3
<1>6. ASSUME NEW i \in 0..m
      PROVE  FromOrdinal(p + 7 * i) \in T /\ ToOrdinal(FromOrdinal(p + 7 * i)) = p + 7 * i
  <2>1. PICK k \in Int : k = p + 7 * i
    BY SMT
  <2>2. a <= k /\ k <= b /\ p <= k
    BY <1>1, <1>5, <2>1, SMT
  <2>3. FromOrdinal(k) \in S /\ ToOrdinal(FromOrdinal(k)) = k
    BY <2>2 DEF IsRun
  <2>4. WeekdayAt(k) = w
    <3>1. PICK j \in Nat : j = m - i
      BY SMT
    <3>2. k = b - u - 7 * j
      BY <1>1, <1>5, <2>1, <3>1, SMT
    <3> QED BY SMTT(30), <1>1, <1>3, <2>2, <3>2, ToWeekday
  <2>5. Weekday(FromOrdinal(k)) = w
    BY <2>3, <2>4, InRun
  <2>6. ~Before(FromOrdinal(k), d)
    BY <1>1, <2>2, <2>3, SMT DEF Before
  <2> QED BY <2>1, <2>3, <2>5, <2>6 DEF UpToDay, FromDay
<1>7. ASSUME NEW f \in T
      PROVE  \E i \in 0..m : f = FromOrdinal(p + 7 * i)
  <2>1. f \in S /\ Weekday(f) = w /\ ~Before(f, d)
    BY DEF UpToDay, FromDay
  <2>2. PICK k \in Int : k = ToOrdinal(f) /\ k <= b /\ WeekdayAt(k) = w /\ FromOrdinal(k) = f
    BY <2>1, InRun
  <2>3. PICK j \in Nat : k = b - u - 7 * j
    BY SMTT(30), <1>1, <1>3, <2>2, ToWeekday
  <2>4. p <= k
    BY <1>1, <2>1, <2>2, SMT DEF Before
  <2>5. PICK i \in Int : i = m - j
    BY SMT
  <2>6. k = p + 7 * i
    BY <1>1, <1>5, <2>3, <2>5, SMT
  <2>7. i \in 0..m
    BY <2>4, <2>5, <2>6, SMT
  <2> QED BY <2>2, <2>6, <2>7
<1> HIDE DEF T
<1>8. Cardinality(T) = m + 1
  <2>1. p \in Int /\ m \in Nat /\ Sevens(T, p, m)
    BY <1>5, <1>6, <1>7 DEF Sevens
  <2> QED BY <2>1, CountBySevens
<1> QED BY <1>8 DEF T

\* The nth of a weekday in a run.
NthNumber(a, b, w, n) ==
  IF n > 0 THEN a + DaysUntil(WeekdayAt(a), w) + (n - 1) * 7
  ELSE b - DaysUntil(w, WeekdayAt(b)) + (n + 1) * 7

LEMMA CountedIsNth ==
  ASSUME NEW S, NEW a, NEW b, IsRun(S, a, b), NEW d \in S,
         NEW e, e.n \in Int, e.n # 0, e.wd \in 0..6
  PROVE  d \in Counted(e, S) <=> ToOrdinal(d) = NthNumber(a, b, e.wd, e.n)
<1>1. PICK n \in Int, w \in 0..6 : n = e.n /\ w = e.wd /\ n # 0
  OBVIOUS
<1>2. PICK o \in Int : /\ o = ToOrdinal(d) /\ a \in Int /\ b \in Int /\ a <= o /\ o <= b
                       /\ Weekday(d) = WeekdayAt(o)
  BY InRun
<1>3. PICK u \in 0..6, v \in 0..6 :
         u = DaysUntil(WeekdayAt(a), w) /\ v = DaysUntil(w, WeekdayAt(b))
  BY <1>2, Weekday7, Until7
<1>4. d \in Counted(e, S) <=>
        /\ Weekday(d) = w
        /\ \/ n > 0 /\ Cardinality(UpToDay(S, d, w)) = n
           \/ n < 0 /\ Cardinality(FromDay(S, d, w)) = -n
  BY <1>1 DEF Counted, UpToDay, FromDay
<1>5. CASE n > 0
  <2>1. NthNumber(a, b, w, n) = a + u + (n - 1) * 7
    BY <1>3, <1>5 DEF NthNumber
  <2>2. ASSUME Weekday(d) = w
        PROVE  Cardinality(UpToDay(S, d, w)) = n
                 <=> o = a + u + (n - 1) * 7
    <3>0. WeekdayAt(o) = w
      BY <1>2, <2>2
    <3>4. PICK m \in Nat : o = a + DaysUntil(WeekdayAt(a), w) + 7 * m
      BY <1>2, <3>0, FromWeekday
    <3>1. o = a + u + 7 * m
      BY <1>3, <3>4
    <3>2. Cardinality(UpToDay(S, d, w)) = m + 1
      <4>1. ToOrdinal(d) = a + DaysUntil(WeekdayAt(a), w) + 7 * m
        BY <1>2, <3>4
      <4> QED BY <4>1, CountedFromStart
    <3>3. m + 1 = n <=> o = a + u + (n - 1) * 7
      BY <1>2, <3>1, SMT
    <3> QED BY <3>2, <3>3
  <2>3. ASSUME o = a + u + (n - 1) * 7
        PROVE  Weekday(d) = w
    <3>1. PICK m \in Nat : m = n - 1
      BY <1>5, SMT
    <3>2. o = a + u + 7 * m
      BY <1>2, <2>3, <3>1, SMT
    <3> QED BY SMTT(30), <1>2, <1>3, <3>2, FromWeekday
  <2>4. ~(n < 0)
    BY <1>5, SMT
  <2> QED BY <1>1, <1>2, <1>4, <1>5, <2>1, <2>2, <2>3, <2>4
<1>6. CASE n < 0
  <2>0. ~(n > 0)
    BY <1>6, SMT
  <2>1. NthNumber(a, b, w, n) = b - v + (n + 1) * 7
    BY <1>3, <2>0 DEF NthNumber
  <2>2. ASSUME Weekday(d) = w
        PROVE  Cardinality(FromDay(S, d, w)) = -n
                 <=> o = b - v + (n + 1) * 7
    <3>0. WeekdayAt(o) = w
      BY <1>2, <2>2
    <3>4. PICK m \in Nat : o = b - DaysUntil(w, WeekdayAt(b)) - 7 * m
      BY <1>2, <3>0, ToWeekday
    <3>1. o = b - v - 7 * m
      BY <1>3, <3>4
    <3>2. Cardinality(FromDay(S, d, w)) = m + 1
      <4>1. ToOrdinal(d) = b - DaysUntil(w, WeekdayAt(b)) - 7 * m
        BY <1>2, <3>4
      <4> QED BY <4>1, CountedFromEnd
    <3>3. m + 1 = -n <=> o = b - v + (n + 1) * 7
      BY <1>2, <3>1, SMT
    <3> QED BY <3>2, <3>3
  <2>3. ASSUME o = b - v + (n + 1) * 7
        PROVE  Weekday(d) = w
    <3>1. PICK m \in Nat : m = -n - 1
      BY <1>6, SMT
    <3>2. o = b - v - 7 * m
      BY <1>2, <2>3, <3>1, SMT
    <3> QED BY SMTT(30), <1>2, <1>3, <3>2, ToWeekday
  <2> QED BY <1>1, <1>2, <1>4, <1>6, <2>0, <2>1, <2>2, <2>3
<1> QED BY <1>1, <1>5, <1>6, SMT

LEMMA Dec31 ==
  ASSUME NEW y \in Int
  PROVE  Dated(Date(y, 12, 31)) /\ ToOrdinal(Date(y, 12, 31)) = Jan1(y + 1) - 1
<1>1. Dated(Date(y, 12, 31))
  <2>1. 31 \in 1..DaysInMonth(y, 12)
    BY SMT DEF DaysInMonth
  <2> QED BY <2>1, DatedDate
<1>2. MarchYear(Date(y, 12, 31)) = y /\ SinceMarch(Date(y, 12, 31)) = 305
  BY SMT DEF MarchYear, SinceMarch, Date, MonthStart
<1>3. ToOrdinal(Date(y, 12, 31)) = UpTo(y) + 305
  BY <1>1, <1>2, OrdinalOf
<1>4. y + 1 - 1 = y /\ y + 1 \in Int
  BY SMT
<1>5. Jan1(y + 1) = UpTo(y) + 306 /\ UpTo(y) \in Int
  BY <1>4, Jan1Number
<1> QED BY <1>1, <1>3, <1>5, SMT

LEMMA NthIsNumber ==
  ASSUME NEW a \in Int, NEW b \in Int, NEW w \in 0..6, NEW n \in Int
  PROVE  NthNumber(a, b, w, n) \in Int
<1>1. PICK u \in 0..6, v \in 0..6 :
         u = DaysUntil(WeekdayAt(a), w) /\ v = DaysUntil(w, WeekdayAt(b))
  BY Weekday7, Until7
<1> QED BY <1>1, SMT DEF NthNumber

LEMMA NthOfYear ==
  ASSUME NEW y \in Int, ValidYear(y), NEW d \in DaysOfYear(y), NEW w \in 0..6, NEW n \in Int
  PROVE  d \in NthWeekdayOfYear(y, w, n)
           <=> ToOrdinal(d) = NthNumber(Jan1(y), Jan1(y + 1) - 1, w, n)
<1>1. Dated(d) /\ d.year = y /\ FromOrdinal(ToOrdinal(d)) = d
  BY DaysOfYearAre, FoundAgain
<1>2. PICK x : x = NthNumber(Jan1(y), Jan1(y + 1) - 1, w, n)
  OBVIOUS
<1>3. x \in Int
  <2>1. Jan1(y) \in Int /\ Jan1(y + 1) - 1 \in Int
    BY Jan1Number, SMT
  <2> QED BY <1>2, <2>1, NthIsNumber
<1>4. Weekday(Date(y, 1, 1)) = WeekdayAt(Jan1(y))
  <2>1. 1 \in 1..DaysInMonth(y, 1)
    BY MonthLength
  <2>2. Dated(Date(y, 1, 1))
    BY <2>1, DatedDate
  <2> QED BY <2>2, WeekdayNumber DEF Jan1
<1>5. Weekday(Date(y, 12, 31)) = WeekdayAt(Jan1(y + 1) - 1)
  BY Dec31, WeekdayNumber
<1>6. NthWeekdayOfYear(y, w, n) = {e \in {FromOrdinal(x)} : e.year = y}
  BY <1>2, <1>4, <1>5, Dec31 DEF NthWeekdayOfYear, NthNumber, Jan1
<1>7. d \in NthWeekdayOfYear(y, w, n) <=> d = FromOrdinal(x)
  BY <1>1, <1>6
<1>8. ASSUME d = FromOrdinal(x) PROVE ToOrdinal(d) = x
  <2>1. d # NoDate
    <3>1. ~Representable(NoDate) /\ Representable(d)
      <4>1. Representable(d)
        BY <1>1 DEF Representable
      <4> QED BY <4>1, NotADate
    <3> QED BY <3>1
  <2> QED BY <1>3, <1>8, <2>1, DateOfNumber
<1> QED BY <1>1, <1>2, <1>7, <1>8

LEMMA MonthDaysAre ==
  ASSUME NEW y \in Int, NEW m \in 1..12, NEW d
  PROVE  d \in {Date(y, m, i) : i \in 1..DaysInMonth(y, m)}
           <=> Dated(d) /\ d.year = y /\ d.month = m
<1>1. ASSUME NEW i \in 1..DaysInMonth(y, m), d = Date(y, m, i)
      PROVE  Dated(d) /\ d.year = y /\ d.month = m
  BY <1>1, DatedDate DEF Date
<1>2. ASSUME Dated(d), d.year = y, d.month = m
      PROVE  \E i \in 1..DaysInMonth(y, m) : d = Date(y, m, i)
  BY <1>2 DEF Dated
<1> QED BY <1>1, <1>2

LEMMA NthOfMonth ==
  ASSUME NEW y \in Int, ValidYear(y), NEW m \in 1..12, NEW d, Dated(d), d.year = y, d.month = m,
         NEW w \in 0..6, NEW n \in Int
  PROVE  d \in NthWeekdayOfMonth(y, m, w, n) <=>
           ToOrdinal(d) = NthNumber(ToOrdinal(Date(y, m, 1)),
                                    ToOrdinal(Date(y, m, 1)) + DaysInMonth(y, m) - 1, w, n)
<1>1. PICK k \in 28..31 : k = DaysInMonth(y, m)
  BY MonthLength
<1>2. PICK i \in 1..k : d = Date(y, m, i)
  BY <1>1, MonthDaysAre
<1>3. PICK a \in Int : /\ a = ToOrdinal(Date(y, m, 1)) /\ ToOrdinal(d) = a + i - 1
                       /\ ToOrdinal(Date(y, m, k)) = a + k - 1
                       /\ Dated(Date(y, m, k)) /\ Dated(Date(y, m, 1))
  <2>1. k \in 1..k
    BY SMT
  <2>2. Dated(Date(y, m, 1)) /\ ToOrdinal(d) = ToOrdinal(Date(y, m, 1)) + i - 1
    BY <1>1, <1>2, InTheMonth
  <2>3. ToOrdinal(Date(y, m, k)) = ToOrdinal(Date(y, m, 1)) + k - 1 /\ Dated(Date(y, m, k))
    BY <1>1, <2>1, InTheMonth
  <2> QED BY <2>2, <2>3, WithinItsYear
<1>4. /\ Weekday(Date(y, m, 1)) = WeekdayAt(a)
      /\ Weekday(Date(y, m, k)) = WeekdayAt(a + k - 1)
  BY <1>3, WeekdayNumber
<1>5. a + k - 1 \in Int
  BY SMT
<1>6. PICK u \in 0..6, v \in 0..6 :
         u = DaysUntil(WeekdayAt(a), w) /\ v = DaysUntil(w, WeekdayAt(a + k - 1))
  BY <1>5, Weekday7, Until7
<1>7. PICK x \in Int : x = IF n > 0 THEN 1 + u + (n - 1) * 7 ELSE k - v + (n + 1) * 7
  <2>1. 1 + u + (n - 1) * 7 \in Int /\ k - v + (n + 1) * 7 \in Int
    BY SMT
  <2> QED BY <2>1
<1>8. NthWeekdayOfMonth(y, m, w, n) = {Date(y, m, e) : e \in {x} \cap 1..k}
  BY <1>1, <1>4, <1>6, <1>7 DEF NthWeekdayOfMonth
<1>9. d \in NthWeekdayOfMonth(y, m, w, n) <=> i = x
  <2>1. \A e : Date(y, m, e) = Date(y, m, i) => e = i
    BY DEF Date
  <2> QED BY <1>2, <1>8, <2>1
<1>10. NthNumber(a, a + k - 1, w, n) = a + x - 1
  <2>1. NthNumber(a, a + k - 1, w, n)
          = IF n > 0 THEN a + u + (n - 1) * 7 ELSE a + k - 1 - v + (n + 1) * 7
    BY <1>6 DEF NthNumber
  <2> QED BY <1>7, <2>1, SMT
<1>11. i = x <=> a + i - 1 = a + x - 1
  BY SMT
<1> QED BY <1>1, <1>3, <1>9, <1>10, <1>11

LEMMA SelectsAt ==
  ASSUME NEW P \in SUBSET Int, NEW n \in Int, NEW i \in 1..n
  PROVE  Selects(P, i, n) <=> (P # {} => At(P, i, n))
<1>1. \A p \in Int : (p > 0 /\ p = i) \/ (p < 0 /\ -p = n - i + 1) <=> p = i \/ p = i - n - 1
  BY SMT
<1>2. At(P, i, n) <=> \E p \in P : p = i \/ p = i - n - 1
  BY <1>1 DEF At
<1> QED BY <1>2 DEF Selects

\* What the proofs need of a rule: lists of positions, and a DTSTART.
Usable(r) ==
  /\ r.byMonth \subseteq 1..12
  /\ r.byWeekNo \subseteq Int /\ r.byYearDay \subseteq Int /\ r.byMonthDay \subseteq Int
  /\ \A e \in r.byDay : e.n \in Int /\ e.wd \in 0..6
  /\ r.wkst \in 0..6
  /\ r.interval \in Nat /\ r.interval # 0
  /\ Dated(r.start) /\ ValidYear(r.start.year)

LEMMA DayNumber ==
  ASSUME NEW d, Dated(d)
  PROVE  DayOfYear(d) \in 1..DaysInYear(d.year) /\ DaysInYear(d.year) \in Int
<1>1. PICK g \in Int : g = d.year
  BY DEF Dated
<1>2. PICK o \in Int, j \in Int, n \in Int :
         /\ o = ToOrdinal(d) /\ j = Jan1(g) /\ n = DaysInYear(g) /\ Jan1(g + 1) = j + n
  <2>1. ToOrdinal(d) \in Int /\ Jan1(g) \in Int /\ DaysInYear(g) \in Int
    BY SMTT(30), WithinItsYear, Jan1Number, Jan1Next
  <2> QED BY <2>1, Jan1Next
<1>3. j <= o /\ o < j + n
  BY <1>1, <1>2, WithinItsYear
<1>4. DayOfYear(d) = o - j + 1
  BY <1>1, <1>2 DEF DayOfYear, Jan1
<1>5. o - j + 1 \in 1..n
  BY <1>3, SMT
<1> QED BY <1>1, <1>2, <1>4, <1>5

\* The limits of the code are the wording's.
LEMMA CommonPasses ==
  ASSUME Usable(R), NEW d, Dated(d)
  PROVE  Common(d) <=> MonthPasses(R, d) /\ YearDayPasses(R, d) /\ MonthDayPasses(R, d)
<1>1. YearDayPasses(R, d)
        <=> (R.byYearDay # {} => At(R.byYearDay, DayOfYear(d), DaysInYear(d.year)))
  BY DayNumber, SelectsAt DEF YearDayPasses, Usable
<1>2. MonthDayPasses(R, d)
        <=> (R.byMonthDay # {} => At(R.byMonthDay, d.day, DaysInMonth(d.year, d.month)))
  <2>1. DaysInMonth(d.year, d.month) \in Int /\ d.day \in 1..DaysInMonth(d.year, d.month)
    BY MonthLength DEF Dated
  <2> QED BY <2>1, SelectsAt DEF MonthDayPasses, Usable
<1>3. MonthPasses(R, d) <=> (R.byMonth # {} => d.month \in R.byMonth)
  BY DEF MonthPasses
<1> QED BY <1>1, <1>2, <1>3 DEF Common

LEMMA CountedPlain ==
  ASSUME NEW S, NEW d \in S, NEW e, e.n = 0
  PROVE  d \in Counted(e, S) <=> Weekday(d) = e.wd
BY DEF Counted

\* BYDAY, given the days its ordinals select.
LEMMA ByDayCounted ==
  ASSUME Usable(R), NEW S, NEW d \in S, NEW D,
         d \in D <=> \E e \in Ordinal(R) : d \in Counted(e, S)
  PROVE  ByDayPasses(R, d, D) <=> d \in OnListedDays(S)
<1>1. CASE R.byDay = {}
  BY <1>1 DEF ByDayPasses, OnListedDays
<1>2. CASE R.byDay # {}
  <2>1. d \in OnListedDays(S) <=> \E e \in R.byDay : d \in Counted(e, S)
    BY <1>2 DEF OnListedDays
  <2>2. \A e \in Plain(R) : d \in Counted(e, S) <=> Weekday(d) = e.wd
    BY CountedPlain DEF Plain
  <2>3. R.byDay = Plain(R) \cup Ordinal(R)
    BY DEF Plain, Ordinal
  <2>4. d \in OnListedDays(S) <=> (\E e \in Plain(R) : e.wd = Weekday(d)) \/ d \in D
    BY <2>1, <2>2, <2>3
  <2> QED BY <1>2, <2>4 DEF ByDayPasses
<1> QED BY <1>1, <1>2

LEMMA ListedAmong ==
  ASSUME NEW S
  PROVE  OnListedDays(S) \subseteq S
BY DEF OnListedDays, Counted

LEMMA OrdinalEntry ==
  ASSUME Usable(R), NEW e \in Ordinal(R)
  PROVE  e.n \in Int /\ e.n # 0 /\ e.wd \in 0..6
BY DEF Usable, Ordinal, Plain

LEMMA OrdinalsOfYear ==
  ASSUME Usable(R), year \in Int, ValidYear(year), NEW d \in DaysOfYear(year),
         NEW e \in Ordinal(R)
  PROVE  d \in NthWeekdayOfYear(year, e.wd, e.n) <=> d \in Counted(e, DaysOfYear(year))
<1>1. e.n \in Int /\ e.n # 0 /\ e.wd \in 0..6
  BY OrdinalEntry
<1>2. IsRun(DaysOfYear(year), Jan1(year), Jan1(year + 1) - 1)
  BY YearRun
<1>3. d \in Counted(e, DaysOfYear(year))
        <=> ToOrdinal(d) = NthNumber(Jan1(year), Jan1(year + 1) - 1, e.wd, e.n)
  BY <1>1, <1>2, CountedIsNth
<1>4. d \in NthWeekdayOfYear(year, e.wd, e.n)
        <=> ToOrdinal(d) = NthNumber(Jan1(year), Jan1(year + 1) - 1, e.wd, e.n)
  BY <1>1, NthOfYear
<1> QED BY <1>3, <1>4

LEMMA OrdinalsOfMonth ==
  ASSUME Usable(R), year \in Int, ValidYear(year), NEW m \in 1..12, NEW d \in MonthDays(m),
         NEW e \in Ordinal(R)
  PROVE  d \in NthWeekdayOfMonth(year, m, e.wd, e.n) <=> d \in Counted(e, MonthDays(m))
<1>1. e.n \in Int /\ e.n # 0 /\ e.wd \in 0..6
  BY OrdinalEntry
<1> DEFINE a == ToOrdinal(Date(year, m, 1))
           b == a + DaysInMonth(year, m) - 1
<1>2. IsRun(MonthDays(m), a, b)
  BY MonthRun DEF MonthDays
<1>3. d \in Counted(e, MonthDays(m)) <=> ToOrdinal(d) = NthNumber(a, b, e.wd, e.n)
  BY <1>1, <1>2, CountedIsNth
<1>4. Dated(d) /\ d.year = year /\ d.month = m
  BY MonthDaysAre DEF MonthDays
<1>5. d \in NthWeekdayOfMonth(year, m, e.wd, e.n) <=> ToOrdinal(d) = NthNumber(a, b, e.wd, e.n)
  BY <1>1, <1>4, NthOfMonth, SMTT(30)
<1> QED BY <1>3, <1>5

LEMMA YearDaysAreRfc ==
  ASSUME Usable(R), year \in Int, ValidYear(year), R.byWeekNo = {}
  PROVE  YearDays(R, year) = RfcYearly
<1> DEFINE Passes(d) == MonthPasses(R, d) /\ YearDayPasses(R, d) /\ MonthDayPasses(R, d)
<1>1. \A d \in DaysOfYear(year) : Dated(d) /\ d.year = year /\ (Common(d) <=> Passes(d))
  BY DaysOfYearAre, CommonPasses
<1>2. CASE R.byMonth = {}
  <2> DEFINE D == UNION {NthWeekdayOfYear(year, e.wd, e.n) : e \in Ordinal(R)}
  <2>1. ASSUME NEW d \in DaysOfYear(year)
        PROVE  ByDayPasses(R, d, D) <=> d \in OnListedDays(DaysOfYear(year))
    <3>1. d \in D <=> \E e \in Ordinal(R) : d \in Counted(e, DaysOfYear(year))
      BY OrdinalsOfYear
    <3> HIDE DEF D
    <3> QED BY <3>1, ByDayCounted
  <2>2. YearDays(R, year) = {d \in DaysOfYear(year) : Passes(d) /\ ByDayPasses(R, d, D)}
    BY <1>2 DEF YearDays
  <2>3. RfcYearly = {d \in OnListedDays(DaysOfYear(year)) : Common(d)}
    BY <1>2 DEF RfcYearly
  <2> HIDE DEF D, Passes
  <2> QED BY <1>1, <2>1, <2>2, <2>3, ListedAmong
<1>3. CASE R.byMonth # {}
  <2> DEFINE D == UNION {NthWeekdayOfMonth(year, m, e.wd, e.n) : m \in R.byMonth, e \in Ordinal(R)}
             L == UNION {OnListedDays(MonthDays(m)) : m \in R.byMonth}
  <2>1. ASSUME NEW m \in R.byMonth, NEW d \in MonthDays(m)
        PROVE  /\ d \in DaysOfYear(year) /\ d.month = m
               /\ ByDayPasses(R, d, D) <=> d \in OnListedDays(MonthDays(m))
    <3>1. m \in 1..12
      BY DEF Usable
    <3>2. Dated(d) /\ d.year = year /\ d.month = m
      BY <3>1, MonthDaysAre DEF MonthDays
    <3>3. \A k \in R.byMonth, e \in Ordinal(R) :
             d \in NthWeekdayOfMonth(year, k, e.wd, e.n) => k = m
      BY <3>2 DEF NthWeekdayOfMonth, Date
    <3>4. d \in D <=> \E e \in Ordinal(R) : d \in NthWeekdayOfMonth(year, m, e.wd, e.n)
      BY <3>3
    <3>5. d \in D <=> \E e \in Ordinal(R) : d \in Counted(e, MonthDays(m))
      BY <3>1, <3>4, OrdinalsOfMonth
    <3> HIDE DEF D
    <3>6. ByDayPasses(R, d, D) <=> d \in OnListedDays(MonthDays(m))
      BY <3>5, ByDayCounted
    <3> QED BY <3>2, <3>6, DaysOfYearAre
  <2>2. ASSUME NEW d \in DaysOfYear(year), d.month \in R.byMonth
        PROVE  d \in MonthDays(d.month)
    BY <2>2, <1>1, MonthDaysAre DEF MonthDays, Dated
  <2>3. YearDays(R, year) = {d \in DaysOfYear(year) : Passes(d) /\ ByDayPasses(R, d, D)}
    BY <1>3 DEF YearDays
  <2>4. RfcYearly = {d \in L : Common(d)}
    BY <1>3 DEF RfcYearly
  <2>5. \A d : Passes(d) => d.month \in R.byMonth
    BY <1>3 DEF MonthPasses
  <2> HIDE DEF D, Passes
  <2>6. \A d \in DaysOfYear(year) : Passes(d) => (ByDayPasses(R, d, D) <=> d \in L)
    <3>1. TAKE d \in DaysOfYear(year)
    <3>2. HAVE Passes(d)
    <3>3. d.month \in R.byMonth /\ d \in MonthDays(d.month)
      BY <2>2, <2>5, <3>2
    <3>4. ByDayPasses(R, d, D) <=> d \in OnListedDays(MonthDays(d.month))
      BY <2>1, <3>3
    <3>5. \A m \in R.byMonth : d \in OnListedDays(MonthDays(m)) => m = d.month
      BY <2>1, ListedAmong
    <3> QED BY <3>3, <3>4, <3>5
  <2>7. L \subseteq DaysOfYear(year)
    BY <2>1, ListedAmong
  <2> HIDE DEF L
  <2> QED BY <1>1, <2>3, <2>4, <2>6, <2>7
<1> QED BY <1>2, <1>3

LEMMA MonthlyDaysAreRfc ==
  ASSUME Usable(R), year \in Int, ValidYear(year), NEW m \in 1..12
  PROVE  MonthlyDays(R, year, m) = RfcMonthly(m)
<1> DEFINE D == UNION {NthWeekdayOfMonth(year, m, e.wd, e.n) : e \in Ordinal(R)}
<1>1. ASSUME NEW d \in MonthDays(m)
      PROVE  /\ MonthPasses(R, d) <=> (R.byMonth # {} => m \in R.byMonth)
             /\ MonthDayPasses(R, d)
                  <=> (R.byMonthDay # {} => At(R.byMonthDay, d.day, DaysInMonth(year, m)))
             /\ ByDayPasses(R, d, D) <=> d \in OnListedDays(MonthDays(m))
  <2>1. Dated(d) /\ d.year = year /\ d.month = m
    BY MonthDaysAre DEF MonthDays
  <2>2. MonthDayPasses(R, d)
          <=> (R.byMonthDay # {} => At(R.byMonthDay, d.day, DaysInMonth(year, m)))
    <3>1. DaysInMonth(year, m) \in Int /\ d.day \in 1..DaysInMonth(year, m)
      BY <2>1, MonthLength DEF Dated
    <3> QED BY <2>1, <3>1, SelectsAt DEF MonthDayPasses, Usable
  <2>3. d \in D <=> \E e \in Ordinal(R) : d \in Counted(e, MonthDays(m))
    BY OrdinalsOfMonth
  <2> HIDE DEF D
  <2>4. ByDayPasses(R, d, D) <=> d \in OnListedDays(MonthDays(m))
    BY <2>3, ByDayCounted
  <2>5. MonthPasses(R, d) <=> (R.byMonth # {} => m \in R.byMonth)
    BY <2>1 DEF MonthPasses
  <2> QED BY <2>2, <2>4, <2>5
<1>2. MonthlyDays(R, year, m)
        = {d \in MonthDays(m) : /\ MonthPasses(R, d) /\ MonthDayPasses(R, d)
                                /\ ByDayPasses(R, d, D)}
  BY DEF MonthlyDays, MonthDays
<1> HIDE DEF D
<1> QED BY <1>1, <1>2, ListedAmong DEF RfcMonthly

-----------------------------------------------------------------------------
(* Weeks. *)

\* The first number of a number's week.
WeekAt(n, w) == n - DaysUntil(w, WeekdayAt(n))

LEMMA SameDayApart ==
  ASSUME NEW x \in Int, NEW z \in Int, NEW w \in 0..6, WeekdayAt(x) = w, WeekdayAt(z) = w
  PROVE  \E k \in Int : x = z + 7 * k
<1>1. PICK i \in Int : x + 2 = 7 * i + w
  BY Weekday7
<1>2. PICK j \in Int : z + 2 = 7 * j + w
  BY Weekday7
<1>3. PICK k \in Int : k = i - j
  BY SMT
<1>4. x = z + 7 * k
  BY <1>1, <1>2, <1>3, SMT
<1> QED BY <1>4

LEMMA ApartSameDay ==
  ASSUME NEW z \in Int, NEW k \in Int
  PROVE  WeekdayAt(z + 7 * k) = WeekdayAt(z)
<1>1. PICK w \in 0..6, j \in Int : w = WeekdayAt(z) /\ z + 2 = 7 * j + w
  BY Weekday7
<1>2. PICK x \in Int, i \in Int : x = z + 7 * k /\ i = j + k
  BY SMT
<1>5. z + 2 = 7 * j + w
  BY <1>1
<1>3. x + 2 = 7 * i + w
  BY <1>2, <1>5, SMT
<1>4. WeekdayAt(x) = w
  BY <1>3, WeekdayAgain
<1> QED BY <1>1, <1>2, <1>4

LEMMA WeekBegins ==
  ASSUME NEW n \in Int, NEW w \in 0..6
  PROVE  /\ WeekAt(n, w) \in Int /\ WeekAt(n, w) <= n /\ n < WeekAt(n, w) + 7
         /\ WeekdayAt(WeekAt(n, w)) = w
<1>1. PICK v \in 0..6, k \in Int : v = WeekdayAt(n) /\ n + 2 = 7 * k + v
  BY Weekday7
<1>2. PICK u \in 0..6, h \in Int : u = DaysUntil(w, v) /\ v - w = 7 * h + u
  BY Until7
<1>3. WeekAt(n, w) = n - u
  BY <1>1, <1>2 DEF WeekAt
<1>4. PICK x \in Int, j \in Int : x = n - u /\ j = k + h
  BY SMT
<1>5. n + 2 = 7 * k + v /\ v - w = 7 * h + u
  BY <1>1, <1>2
<1>6. x + 2 = 7 * j + w
  BY <1>4, <1>5, SMT
<1>7. WeekdayAt(x) = w
  BY <1>6, WeekdayAgain
<1>8. x <= n /\ n < x + 7
  BY <1>4, SMT
<1> QED BY <1>3, <1>4, <1>7, <1>8

LEMMA WeekUnique ==
  ASSUME NEW n \in Int, NEW w \in 0..6, NEW x \in Int, WeekdayAt(x) = w, x <= n, n < x + 7
  PROVE  WeekAt(n, w) = x
<1>1. PICK z \in Int : z = WeekAt(n, w) /\ z <= n /\ n < z + 7 /\ WeekdayAt(z) = w
  BY WeekBegins
<1>2. PICK k \in Int : x = z + 7 * k
  BY <1>1, SameDayApart
<1>3. k = 0
  BY <1>1, <1>2, SMT
<1> QED BY <1>1, <1>2, <1>3, SMT

LEMMA WeekOfDate ==
  ASSUME Usable(R), NEW d, Dated(d)
  PROVE  WeekOf(d) = WeekAt(ToOrdinal(d), R.wkst)
BY WeekdayNumber DEF WeekOf, WeekAt, DaysUntil

\* The first week begins within three days of January 1.
LEMMA FirstWeekBegins ==
  ASSUME NEW y \in Int, NEW w \in 0..6
  PROVE  /\ Week1Start(y, w) \in Int /\ WeekdayAt(Week1Start(y, w)) = w
         /\ Jan1(y) - 3 <= Week1Start(y, w) /\ Week1Start(y, w) <= Jan1(y) + 3
<1>1. PICK j \in Int : j = Jan1(y)
  BY Jan1Number
<1>2. Weekday(Date(y, 1, 1)) = WeekdayAt(j)
  <2>1. 1 \in 1..DaysInMonth(y, 1)
    BY MonthLength
  <2>2. Dated(Date(y, 1, 1))
    BY <2>1, DatedDate
  <2> QED BY <1>1, <2>2, WeekdayNumber DEF Jan1
<1>3. PICK u \in 0..6 : u = DaysUntil(w, WeekdayAt(j))
  BY Weekday7, Until7
<1>4. Week1Start(y, w) = IF 7 - u >= 4 THEN j - u ELSE j - u + 7
  BY <1>1, <1>2, <1>3 DEF Week1Start, DaysUntil, Jan1
<1>5. WeekAt(j, w) = j - u
  BY <1>3 DEF WeekAt
<1>6. PICK x \in Int : x = j - u /\ WeekdayAt(x) = w
  BY <1>5, WeekBegins
<1>7. WeekdayAt(x + 7) = w /\ x + 7 \in Int
  <2>1. PICK k \in Int : k = 1
    BY SMT
  <2>2. WeekdayAt(x + 7 * k) = WeekdayAt(x)
    BY ApartSameDay
  <2>3. x + 7 * k = x + 7 /\ x + 7 \in Int
    BY <2>1, SMT
  <2> QED BY <1>6, <2>2, <2>3
<1>8. CASE 7 - u >= 4
  <2>1. Week1Start(y, w) = x
    BY <1>4, <1>6, <1>8
  <2>2. j - 3 <= x /\ x <= j + 3
    BY <1>6, <1>8, SMT
  <2> QED BY <1>1, <1>6, <2>1, <2>2
<1>9. CASE ~(7 - u >= 4)
  <2>1. Week1Start(y, w) = x + 7
    BY <1>4, <1>6, <1>9
  <2>2. j - 3 <= x + 7 /\ x + 7 <= j + 3
    BY <1>6, <1>9, SMT
  <2> QED BY <1>1, <1>7, <2>1, <2>2
<1> QED BY <1>8, <1>9

LEMMA YearsOfWeeks ==
  ASSUME NEW y \in Int, NEW w \in 0..6
  PROVE  /\ WeeksInYear(y, w) \in {52, 53}
         /\ Week1Start(y + 1, w) = Week1Start(y, w) + 7 * WeeksInYear(y, w)
<1>1. PICK a \in Int, b \in Int : /\ a = Week1Start(y, w) /\ b = Week1Start(y + 1, w)
                                  /\ WeekdayAt(a) = w /\ WeekdayAt(b) = w
  <2>1. y + 1 \in Int
    BY SMT
  <2> QED BY <2>1, FirstWeekBegins
<1>2. PICK j \in Int, n \in Int : j = Jan1(y) /\ n = DaysInYear(y) /\ n \in {365, 366}
  <2>1. DaysInYear(y) \in {365, 366} /\ Jan1(y) \in Int
    BY Jan1Number, Jan1Next
  <2> QED BY <2>1, SMT
<1>3. j - 3 <= a /\ a <= j + 3 /\ j + n - 3 <= b /\ b <= j + n + 3
  <2>1. Jan1(y + 1) = j + n
    BY <1>2, Jan1Next
  <2>2. y + 1 \in Int
    BY SMT
  <2>3. Jan1(y) - 3 <= a /\ a <= Jan1(y) + 3
    BY <1>1, FirstWeekBegins
  <2>4. Jan1(y + 1) - 3 <= b /\ b <= Jan1(y + 1) + 3
    BY <1>1, <2>2, FirstWeekBegins
  <2> QED BY <1>2, <2>1, <2>3, <2>4
<1>4. PICK k \in Int : b = a + 7 * k
  BY <1>1, SameDayApart
<1>5. k \in {52, 53}
  BY <1>2, <1>3, <1>4, SMT
<1>6. WeeksInYear(y, w) = k
  <2>1. (b - a) \div 7 = k
    BY <1>4, SMT
  <2> QED BY <1>1, <2>1 DEF WeeksInYear
<1> QED BY <1>1, <1>4, <1>5, <1>6

\* A week belongs to the year its fourth day is in.
LEMMA FourthDay ==
  ASSUME NEW y \in Int, NEW w \in 0..6, NEW x \in Int, WeekdayAt(x) = w
  PROVE  Jan1(y) <= x + 3 <=> Week1Start(y, w) <= x
<1>1. PICK s \in Int, j \in Int :
         /\ s = Week1Start(y, w) /\ j = Jan1(y) /\ WeekdayAt(s) = w
         /\ j - 3 <= s /\ s <= j + 3
  <2>1. Jan1(y) \in Int
    BY Jan1Number
  <2>2. /\ Week1Start(y, w) \in Int /\ WeekdayAt(Week1Start(y, w)) = w
        /\ Jan1(y) - 3 <= Week1Start(y, w) /\ Week1Start(y, w) <= Jan1(y) + 3
    BY FirstWeekBegins
  <2> QED BY <2>1, <2>2
<1>2. PICK k \in Int : x = s + 7 * k
  BY <1>1, SameDayApart
<1>3. j - 3 <= s /\ s <= j + 3
  BY <1>1
<1>4. j <= x + 3 <=> s <= x
  BY <1>2, <1>3, SMT
<1> QED BY <1>1, <1>4

LEMMA WeekOfType ==
  ASSUME Usable(R), NEW d, Dated(d)
  PROVE  /\ WeekOf(d) \in Int /\ WeekdayAt(WeekOf(d)) = R.wkst
         /\ WeekOf(d) <= ToOrdinal(d) /\ ToOrdinal(d) < WeekOf(d) + 7
<1>1. ToOrdinal(d) \in Int /\ R.wkst \in 0..6
  BY WithinItsYear DEF Usable
<1> QED BY <1>1, WeekOfDate, WeekBegins

LEMMA MiddleYear ==
  ASSUME Usable(R), NEW d, Dated(d), NEW y \in Int, ValidYear(y)
  PROVE  /\ Middle(d).year = y
              <=> Week1Start(y, R.wkst) <= WeekOf(d) /\ WeekOf(d) < Week1Start(y + 1, R.wkst)
         /\ Middle(d).year = y => Dated(Middle(d)) /\ ToOrdinal(Middle(d)) = WeekOf(d) + 3
<1>1. PICK x \in Int : x = WeekOf(d) /\ WeekdayAt(x) = R.wkst
  BY WeekOfType
<1>2. PICK n \in Int : n = x + 3
  BY SMT
<1>3. Middle(d) = FromOrdinal(n)
  BY <1>1, <1>2 DEF Middle
<1>4. R.wkst \in 0..6 /\ y + 1 \in Int
  BY DEF Usable
<1>5. Jan1(y) <= n <=> Week1Start(y, R.wkst) <= x
  BY <1>1, <1>2, <1>4, FourthDay
<1>6. n < Jan1(y + 1) <=> x < Week1Start(y + 1, R.wkst)
  <2>1. Jan1(y + 1) <= n <=> Week1Start(y + 1, R.wkst) <= x
    BY <1>1, <1>2, <1>4, FourthDay
  <2>2. Jan1(y + 1) \in Int /\ Week1Start(y + 1, R.wkst) \in Int
    BY ZenonT(40), <1>4, Jan1Number, FirstWeekBegins
  <2> QED BY <2>1, <2>2, SMT
<1>7. ASSUME Jan1(y) <= n, n < Jan1(y + 1)
      PROVE  Middle(d).year = y
  BY <1>3, <1>7, FoundInYear
<1>8. ASSUME Middle(d).year = y
      PROVE  /\ Jan1(y) <= n /\ n < Jan1(y + 1)
             /\ Dated(Middle(d)) /\ ToOrdinal(Middle(d)) = n
  <2>1. Representable(Middle(d))
    BY <1>8 DEF Representable
  <2>2. Middle(d) # NoDate
    BY <2>1, NotADate
  <2>3. Dated(Middle(d)) /\ ToOrdinal(Middle(d)) = n
    BY <1>3, <2>2, DateOfNumber
  <2> QED BY <1>8, <2>3, YearOf
<1> QED BY <1>1, <1>2, <1>5, <1>6, <1>7, <1>8

LEMMA WeekNumberIs ==
  ASSUME Usable(R), NEW d, Dated(d), NEW y \in Int, ValidYear(y), Middle(d).year = y
  PROVE  \E k \in 0..(WeeksInYear(y, R.wkst) - 1) :
           WeekOf(d) = Week1Start(y, R.wkst) + 7 * k /\ WeekNumber(d) = k + 1
<1>1. PICK x \in Int, s \in Int, j \in Int, n \in Int :
         /\ x = WeekOf(d) /\ s = Week1Start(y, R.wkst) /\ j = Jan1(y)
         /\ n = WeeksInYear(y, R.wkst)
         /\ WeekdayAt(x) = R.wkst /\ WeekdayAt(s) = R.wkst
         /\ j - 3 <= s /\ s <= j + 3 /\ R.wkst \in 0..6
  <2>1. R.wkst \in 0..6
    BY DEF Usable
  <2>2. WeeksInYear(y, R.wkst) \in Int
    BY <2>1, YearsOfWeeks
  <2>3. LET a == Week1Start(y, R.wkst)
        IN  /\ a \in Int /\ WeekdayAt(a) = R.wkst
            /\ Jan1(y) - 3 <= a /\ a <= Jan1(y) + 3
    BY <2>1, FirstWeekBegins
  <2>4. WeekOf(d) \in Int /\ WeekdayAt(WeekOf(d)) = R.wkst
    BY WeekOfType
  <2>5. Jan1(y) \in Int
    BY Jan1Number
  <2> QED BY <2>1, <2>2, <2>3, <2>4, <2>5
<1>2. PICK k \in Int : x = s + 7 * k
  BY <1>1, SameDayApart
<1>3. s <= x /\ x < s + 7 * n
  <2>1. Week1Start(y + 1, R.wkst) = s + 7 * n
    BY <1>1, YearsOfWeeks
  <2> QED BY <1>1, <2>1, MiddleYear
<1>4. k \in 0..(n - 1)
  BY <1>2, <1>3, SMT
<1>5. DayOfYear(Middle(d)) = x + 3 - j + 1
  BY <1>1, MiddleYear DEF DayOfYear, Jan1
<1>6. (x + 3 - j + 1 + 6) \div 7 = k + 1
  <2>1. j - 3 <= s /\ s <= j + 3
    BY <1>1
  <2> QED BY <1>2, <2>1, SMT
<1>7. WeekNumber(d) = k + 1
  BY <1>5, <1>6 DEF WeekNumber
<1> QED BY <1>1, <1>2, <1>4, <1>7

\* Counting the middles of weeks in a year is counting its weeks.
LEMMA WeekCountIs ==
  ASSUME Usable(R), NEW y \in Int, ValidYear(y)
  PROVE  WeekCount(y) = WeeksInYear(y, R.wkst)
<1>1. PICK w \in 0..6 : w = R.wkst
  BY DEF Usable
<1>2. PICK s \in Int, j \in Int, e \in Int, f \in Int, n \in Int :
         /\ s = Week1Start(y, w) /\ j = Jan1(y) /\ n = WeeksInYear(y, w)
         /\ e = Jan1(y + 1) /\ f = Week1Start(y + 1, w)
         /\ WeekdayAt(s) = w
  <2>1. WeeksInYear(y, w) \in Int /\ y + 1 \in Int
    BY YearsOfWeeks
  <2> QED BY ZenonT(40), <2>1, FirstWeekBegins, Jan1Number
<1>3. j - 3 <= s /\ s <= j + 3 /\ e - 3 <= f /\ f <= e + 3 /\ f = s + 7 * n /\ n \in {52, 53}
  <2>1. y + 1 \in Int
    BY SMT
  <2> QED BY ZenonT(40), <1>2, <2>1, FirstWeekBegins, YearsOfWeeks
<1>4. PICK v \in 0..6, h \in Int : v = (w + 3) % 7 /\ w + 3 = 7 * h + v
  <2>1. (w + 3) % 7 \in 0..6 /\ (w + 3) \div 7 \in Int
    BY SMT
  <2>2. w + 3 = 7 * ((w + 3) \div 7) + ((w + 3) % 7)
    BY SMT
  <2> QED BY <2>1, <2>2
<1>5. PICK p \in Int, m \in Nat : p = s + 3 /\ m = n - 1
  BY <1>3, SMT
<1>6. WeekdayAt(p) = v
  <2>1. PICK i \in Int : s + 2 = 7 * i + w
    BY <1>2, Weekday7
  <2>2. PICK k \in Int : k = i + h
    BY SMT
  <2>3. w + 3 = 7 * h + v
    BY <1>4
  <2>4. p + 2 = 7 * k + v
    BY <1>5, <2>1, <2>2, <2>3, SMT
  <2> QED BY <2>4, WeekdayAgain
<1> DEFINE S == {d \in DaysOfYear(y) : Weekday(d) = v}
<1>7. ASSUME NEW i \in 0..m
      PROVE  FromOrdinal(p + 7 * i) \in S /\ ToOrdinal(FromOrdinal(p + 7 * i)) = p + 7 * i
  <2>1. PICK k \in Int : k = p + 7 * i
    BY SMT
  <2>2. j <= k /\ k < e
    BY <1>3, <1>5, <2>1, SMT
  <2>3. Dated(FromOrdinal(k)) /\ FromOrdinal(k).year = y /\ ToOrdinal(FromOrdinal(k)) = k
    BY <1>2, <2>2, FoundInYear
  <2>4. WeekdayAt(k) = v
    <3>1. i \in Int
      BY SMT
    <3>2. WeekdayAt(p + 7 * i) = WeekdayAt(p)
      BY <3>1, ApartSameDay
    <3> QED BY <1>6, <2>1, <3>2
  <2>5. Weekday(FromOrdinal(k)) = v
    BY <2>3, <2>4, WeekdayNumber
  <2> QED BY <2>1, <2>3, <2>5, DaysOfYearAre
<1>8. ASSUME NEW d \in S
      PROVE  \E i \in 0..m : d = FromOrdinal(p + 7 * i)
  <2>1. Dated(d) /\ d.year = y /\ Weekday(d) = v
    BY DaysOfYearAre
  <2>2. PICK k \in Int : k = ToOrdinal(d) /\ j <= k /\ k < e
    BY <1>2, <2>1, WithinItsYear
  <2>3. WeekdayAt(k) = v /\ FromOrdinal(k) = d
    BY <2>1, <2>2, WeekdayNumber, FoundAgain
  <2>4. PICK i \in Int : k = p + 7 * i
    BY <1>6, <2>3, SameDayApart
  <2>5. j <= k /\ k < e
    BY <2>2
  <2>6. i \in 0..m
    BY <1>3, <1>5, <2>4, <2>5, SMT
  <2> QED BY <2>3, <2>4, <2>6
<1> HIDE DEF S
<1>9. Cardinality(S) = m + 1
  <2>1. p \in Int /\ m \in Nat
    BY <1>5
  <2>2. Sevens(S, p, m)
    BY <1>7, <1>8 DEF Sevens
  <2> QED BY <2>1, <2>2, CountBySevens
<1>10. m + 1 = n
  BY <1>5, SMT
<1> QED BY <1>1, <1>2, <1>4, <1>9, <1>10 DEF S, WeekCount

\* A date in one of the weeks BYWEEKNO selects in a year.
InSelectedWeek(r, y, d) ==
  \E k \in 0..(WeeksInYear(y, r.wkst) - 1) :
    WeekOf(d) = Week1Start(y, r.wkst) + 7 * k /\ k + 1 \in SelectedWeeks(r, y)

Pinned(r) == r.byDay = {} /\ r.byMonthDay = {} /\ r.byYearDay = {}

LEMMA WeekDaysAre ==
  ASSUME Usable(R), NEW y \in Int, ValidYear(y), NEW d
  PROVE  d \in WeekDays(R, y) <=>
           /\ Dated(d) /\ Representable(d)
           /\ InSelectedWeek(R, y, d)
           /\ Pinned(R) => Weekday(d) = Weekday(R.start)
           /\ DayPassesLimits(R, d)
<1>1. PICK w \in 0..6, s \in Int, n \in Int :
         /\ w = R.wkst /\ s = Week1Start(y, w) /\ n = WeeksInYear(y, w)
         /\ WeekdayAt(s) = w
  <2>1. R.wkst \in 0..6
    BY DEF Usable
  <2>2. Week1Start(y, R.wkst) \in Int /\ WeekdayAt(Week1Start(y, R.wkst)) = R.wkst
    BY <2>1, FirstWeekBegins
  <2>3. WeeksInYear(y, R.wkst) \in Int
    BY <2>1, YearsOfWeeks
  <2> QED BY <2>1, <2>2, <2>3
<1> DEFINE Days == {FromOrdinal(s + (v - 1) * 7 + i) : v \in SelectedWeeks(R, y), i \in 0..6}
<1>2. SelectedWeeks(R, y) \subseteq 1..n
  BY <1>1 DEF SelectedWeeks
<1>3. ASSUME d \in Days, d # NoDate
      PROVE  Dated(d) /\ Representable(d) /\ InSelectedWeek(R, y, d)
  <2>1. PICK v \in SelectedWeeks(R, y), i \in 0..6 : d = FromOrdinal(s + (v - 1) * 7 + i)
    BY <1>3
  <2>2. v \in 1..n
    BY <1>2
  <2>3. PICK k \in 0..(n - 1) : k = v - 1 /\ k + 1 = v
    BY <2>2, SMT
  <2>4. PICK x \in Int, o \in Int : x = s + 7 * k /\ o = s + (v - 1) * 7 + i
    <3>1. s + 7 * k \in Int /\ s + (v - 1) * 7 + i \in Int
      BY <2>2, SMT
    <3> QED BY <3>1
  <2>5. Dated(d) /\ Representable(d) /\ ToOrdinal(d) = o
    BY <1>3, <2>1, <2>4, DateOfNumber
  <2>6. x <= o /\ o < x + 7
    BY <2>2, <2>3, <2>4, SMT
  <2>7. WeekdayAt(x) = w
    <3>1. k \in Int
      BY SMT
    <3>2. WeekdayAt(s + 7 * k) = WeekdayAt(s)
      BY <3>1, ApartSameDay
    <3> QED BY <1>1, <2>4, <3>2
  <2>8. WeekAt(o, w) = x
    BY <2>6, <2>7, WeekUnique
  <2>9. WeekOf(d) = s + 7 * k
    BY <1>1, <2>4, <2>5, <2>8, WeekOfDate
  <2> QED BY <1>1, <2>3, <2>5, <2>9 DEF InSelectedWeek
<1>4. ASSUME Dated(d), Representable(d), InSelectedWeek(R, y, d)
      PROVE  d \in Days /\ d # NoDate
  <2>1. PICK k \in 0..(n - 1) : WeekOf(d) = s + 7 * k /\ k + 1 \in SelectedWeeks(R, y)
    BY <1>1, <1>4 DEF InSelectedWeek
  <2>2. PICK o \in Int : /\ o = ToOrdinal(d) /\ WeekOf(d) <= o /\ o < WeekOf(d) + 7
                         /\ FromOrdinal(o) = d
    BY <1>4, WeekOfType, WithinItsYear, BackToDate
  <2>3. PICK i \in 0..6 : o = s + 7 * k + i
    <3>1. s + 7 * k <= o /\ o < s + 7 * k + 7
      BY <2>1, <2>2
    <3>2. o - (s + 7 * k) \in 0..6 /\ o = s + 7 * k + (o - (s + 7 * k))
      BY <3>1, SMT
    <3> QED BY <3>2
  <2>4. o = s + (k + 1 - 1) * 7 + i
    BY <2>3, SMT
  <2> QED BY <1>4, <2>1, <2>2, <2>4, NotADate
<1>5. d \in WeekDays(R, y) <=>
        /\ d \in Days /\ d # NoDate
        /\ Pinned(R) => Weekday(d) = Weekday(R.start)
        /\ DayPassesLimits(R, d)
  BY <1>1 DEF WeekDays, Pinned
<1> HIDE DEF Days
<1> QED BY <1>3, <1>4, <1>5

LEMMA SelectedWeekIs ==
  ASSUME Usable(R), R.byWeekNo # {}, NEW d, Dated(d), year \in Int, ValidYear(year)
  PROVE  InSelectedWeek(R, year, d) <=>
           Middle(d).year = year /\ At(R.byWeekNo, WeekNumber(d), WeekCount(year))
<1>1. PICK w \in 0..6, n \in Int, s \in Int :
         /\ w = R.wkst /\ n = WeeksInYear(year, w) /\ s = Week1Start(year, w)
         /\ Week1Start(year + 1, w) = s + 7 * n
  <2>1. R.wkst \in 0..6
    BY DEF Usable
  <2>2. WeeksInYear(year, R.wkst) \in Int
    BY <2>1, YearsOfWeeks
  <2>3. Week1Start(year, R.wkst) \in Int
    BY <2>1, FirstWeekBegins
  <2>4. Week1Start(year + 1, R.wkst)
          = Week1Start(year, R.wkst) + 7 * WeeksInYear(year, R.wkst)
    BY <2>1, YearsOfWeeks
  <2> QED BY <2>1, <2>2, <2>3, <2>4
<1>2. WeekCount(year) = n
  BY <1>1, WeekCountIs
<1>3. \A i \in 1..n : i \in SelectedWeeks(R, year) <=> At(R.byWeekNo, i, n)
  <2>1. \A i \in 1..n : At(R.byWeekNo, i, n) <=> i \in R.byWeekNo \/ i - n - 1 \in R.byWeekNo
    BY SelectsAt DEF Selects, Usable
  <2> QED BY <1>1, <2>1 DEF SelectedWeeks
<1>4. ASSUME InSelectedWeek(R, year, d)
      PROVE  Middle(d).year = year
  <2>1. PICK k \in 0..(n - 1) : WeekOf(d) = s + 7 * k
    BY <1>1, <1>4 DEF InSelectedWeek
  <2>2. s <= s + 7 * k /\ s + 7 * k < s + 7 * n
    BY SMT
  <2> QED BY <1>1, <2>1, <2>2, MiddleYear
<1>5. ASSUME Middle(d).year = year
      PROVE  InSelectedWeek(R, year, d) <=> At(R.byWeekNo, WeekNumber(d), n)
  <2>1. PICK k \in 0..(n - 1) : WeekOf(d) = s + 7 * k /\ WeekNumber(d) = k + 1
    BY <1>1, <1>5, WeekNumberIs
  <2>2. k + 1 \in 1..n
    BY SMT
  <2>3. \A i \in 0..(n - 1) : s + 7 * i = s + 7 * k => i = k
    BY SMT
  <2>4. InSelectedWeek(R, year, d) <=> k + 1 \in SelectedWeeks(R, year)
    BY <1>1, <2>1, <2>3 DEF InSelectedWeek
  <2> QED BY <1>3, <2>1, <2>2, <2>4
<1> QED BY <1>2, <1>4, <1>5

LEMMA NearItsYear ==
  ASSUME Usable(R), NEW d, Dated(d), NEW y \in Int, ValidYear(y), Middle(d).year = y
  PROVE  Jan1(y) - 7 <= ToOrdinal(d) /\ ToOrdinal(d) <= Jan1(y) + 372
<1>1. PICK w \in 0..6 : w = R.wkst
  BY DEF Usable
<1>2. PICK s \in Int, j \in Int : /\ s = Week1Start(y, w) /\ j = Jan1(y)
                                  /\ j - 3 <= s /\ s <= j + 3
  <2>1. Jan1(y) \in Int
    BY Jan1Number
  <2>2. /\ Week1Start(y, w) \in Int /\ WeekdayAt(Week1Start(y, w)) = w
        /\ Jan1(y) - 3 <= Week1Start(y, w) /\ Week1Start(y, w) <= Jan1(y) + 3
    BY FirstWeekBegins
  <2> QED BY <2>1, <2>2
<1>3. PICK n \in Int : n = WeeksInYear(y, w) /\ n \in {52, 53}
  <2>1. WeeksInYear(y, w) \in {52, 53}
    BY YearsOfWeeks
  <2> QED BY <2>1, SMT
<1>4. PICK k \in 0..(n - 1) : WeekOf(d) = s + 7 * k
  BY <1>1, <1>2, <1>3, WeekNumberIs
<1>5. PICK o \in Int : o = ToOrdinal(d) /\ s + 7 * k <= o /\ o < s + 7 * k + 7
  BY <1>4, WeekOfType, WithinItsYear
<1>6. j - 3 <= s /\ s <= j + 3 /\ n <= 53 /\ s + 7 * k <= o /\ o < s + 7 * k + 7
  BY <1>2, <1>3, <1>5
<1>7. s + 7 * n <= j + 369
  <2>1. PICK z \in Int : z = y + 1
    BY SMT
  <2>2. /\ Week1Start(z, w) \in Int /\ WeekdayAt(Week1Start(z, w)) = w
        /\ Jan1(z) - 3 <= Week1Start(z, w) /\ Week1Start(z, w) <= Jan1(z) + 3
    BY FirstWeekBegins
  <2>3. Jan1(z) = j + DaysInYear(y) /\ DaysInYear(y) \in {365, 366}
    BY <1>2, <2>1, Jan1Next
  <2>4. Week1Start(z, w) = s + 7 * n
    BY <1>2, <1>3, <2>1, YearsOfWeeks
  <2> QED BY <2>2, <2>3, <2>4, SMT
<1>8. j - 7 <= o /\ o <= j + 372
  BY <1>6, <1>7, SMT
<1> QED BY <1>2, <1>5, <1>8

LEMMA WeekYearDaysAreRfc ==
  ASSUME Usable(R), year \in Int, ValidYear(year), R.byWeekNo # {}
  PROVE  WeekDays(R, year) = RfcYearly
<1>1. PICK j \in Int : j = Jan1(year)
  BY Jan1Number
<1> DEFINE near == {FromOrdinal(j + i) : i \in -7..372} \ {NoDate}
<1>2. RfcYearly = {d \in near : /\ WeekdayListed(d) /\ Common(d)
                                /\ Middle(d).year = year
                                /\ At(R.byWeekNo, WeekNumber(d), WeekCount(year))}
  BY <1>1 DEF RfcYearly, Jan1
<1>3. \A d \in near : Dated(d) /\ Representable(d)
  <2>1. TAKE d \in near
  <2>2. PICK i \in -7..372 : d = FromOrdinal(j + i) /\ d # NoDate
    OBVIOUS
  <2>3. j + i \in Int
    BY SMT
  <2> QED BY <2>2, <2>3, DateOfNumber
<1>4. ASSUME NEW d, Dated(d), Representable(d), Middle(d).year = year
      PROVE  d \in near
  <2>1. PICK o \in Int : /\ o = ToOrdinal(d) /\ FromOrdinal(o) = d
                         /\ j - 7 <= o /\ o <= j + 372
    BY <1>1, <1>4, NearItsYear, WithinItsYear, BackToDate
  <2>2. PICK i \in -7..372 : o = j + i
    <3>1. j - 7 <= o /\ o <= j + 372
      BY <2>1
    <3>2. o - j \in -7..372 /\ o = j + (o - j)
      BY <3>1, SMT
    <3> QED BY <3>2, Zenon
  <2>3. d # NoDate
    BY <1>4, NotADate
  <2> QED BY <2>1, <2>2, <2>3
<1> HIDE DEF near
<1>5. \A d : Dated(d) =>
        (WeekdayListed(d) /\ Common(d)
           <=> (Pinned(R) => Weekday(d) = Weekday(R.start)) /\ DayPassesLimits(R, d))
  BY CommonPasses DEF WeekdayListed, Pinned, DayPassesLimits, WeekdayPasses
<1>6. \A d : d \in WeekDays(R, year) <=>
        /\ Dated(d) /\ Representable(d) /\ WeekdayListed(d) /\ Common(d)
        /\ Middle(d).year = year
        /\ At(R.byWeekNo, WeekNumber(d), WeekCount(year))
  BY <1>5, WeekDaysAre, SelectedWeekIs
<1>7. \A d : d \in RfcYearly <=>
        /\ Dated(d) /\ Representable(d) /\ WeekdayListed(d) /\ Common(d)
        /\ Middle(d).year = year
        /\ At(R.byWeekNo, WeekNumber(d), WeekCount(year))
  BY <1>2, <1>3, <1>4
<1> QED BY <1>6, <1>7

-----------------------------------------------------------------------------
(* Weekly periods. *)

LEMMA DivMod ==
  ASSUME NEW n \in Int, NEW s \in Nat, s > 0
  PROVE  /\ n \div s \in Int /\ n % s \in Int
         /\ n = s * (n \div s) + (n % s)
         /\ 0 <= n % s /\ n % s < s
OBVIOUS

LEMMA MultipleMod ==
  ASSUME NEW k \in Int, NEW s \in Nat, s > 0
  PROVE  (s * k) % s = 0
OBVIOUS

LEMMA Product ==
  ASSUME NEW s \in Nat, s > 0, NEW x \in Int, NEW y \in Int, x <= y
  PROVE  s * x \in Int /\ s * y \in Int /\ s * x <= s * y
OBVIOUS

LEMMA BetweenYears ==
  ASSUME NEW a, NEW b, a \in Int, b \in Int, ValidYear(a), ValidYear(b), NEW y \in Int, a <= y, y <= b
  PROVE  ValidYear(y)
<1>1. PICK n \in Int : n = 9999
  BY SMT
<1>2. \A t \in Int : t \in 0..n <=> 0 <= t /\ t <= n
  OBVIOUS
<1>3. \A t : ValidYear(t) <=> t \in 0..n
  BY <1>1 DEF ValidYear
<1>4. 0 <= a /\ b <= n
  BY <1>2, <1>3
<1>5. 0 <= y /\ y <= n
  BY <1>1, <1>4, SMT
<1> QED BY <1>2, <1>3, <1>5

\* Numbers between two representable dates' are representable.
LEMMA BetweenDates ==
  ASSUME NEW a, Dated(a), ValidYear(a.year), NEW b, Dated(b), ValidYear(b.year),
         NEW n \in Int, ToOrdinal(a) <= n, n <= ToOrdinal(b)
  PROVE  Dated(FromOrdinal(n)) /\ ToOrdinal(FromOrdinal(n)) = n /\ ValidYear(FromOrdinal(n).year)
<1>1. PICK d : Dated(d) /\ ToOrdinal(d) = n
  BY EveryNumber
<1>2. PICK x \in Int, y \in Int, z \in Int : x = a.year /\ y = d.year /\ z = b.year
  BY <1>1 DEF Dated
<1>3. \A i, j \in Int : i < j => Jan1(i + 1) <= Jan1(j)
  BY Jan1Grows
<1>4. /\ Jan1(x) <= n /\ n < Jan1(z + 1)
      /\ Jan1(y) <= n /\ n < Jan1(y + 1)
      /\ Jan1(x) \in Int /\ Jan1(y) \in Int /\ Jan1(y + 1) \in Int /\ Jan1(z + 1) \in Int
  <2>1. /\ Jan1(x) <= ToOrdinal(a) /\ ToOrdinal(b) < Jan1(z + 1)
        /\ ToOrdinal(a) \in Int /\ ToOrdinal(b) \in Int
    BY <1>2, WithinItsYear
  <2>2. Jan1(y) <= n /\ n < Jan1(y + 1)
    BY <1>1, <1>2, WithinItsYear
  <2>3. y + 1 \in Int /\ z + 1 \in Int
    BY SMT
  <2>4. Jan1(x) \in Int /\ Jan1(y) \in Int /\ Jan1(y + 1) \in Int /\ Jan1(z + 1) \in Int
    BY <2>3, Jan1Number
  <2> QED BY <2>1, <2>2, <2>4
<1>5. x <= y
  <2>1. y < x => Jan1(y + 1) <= Jan1(x)
    BY <1>3
  <2> QED BY <1>4, <2>1
<1>6. y <= z
  <2>1. z < y => Jan1(z + 1) <= Jan1(y)
    BY <1>3
  <2> QED BY <1>4, <2>1
<1>7. ValidYear(d.year)
  BY <1>2, <1>5, <1>6, BetweenYears
<1>8. FromOrdinal(n) = d
  BY <1>1, <1>7, FoundAgain
<1> QED BY <1>1, <1>7, <1>8

LEMMA FirstWeekIs ==
  ASSUME Usable(R), WeekStartExists
  PROVE  LET f == FirstWeek(R) IN Dated(f) /\ ValidYear(f.year) /\ ToOrdinal(f) = WeekOf(R.start)
<1>1. Dated(R.start)
  BY DEF Usable
<1>2. PICK x \in Int : x = WeekOf(R.start)
  BY <1>1, WeekOfType
<1>3. ToOrdinal(R.start) \in Int
  BY <1>1, WithinItsYear
<1>4. AddDays(R.start, -((Weekday(R.start) + 7 - R.wkst) % 7)) = FromOrdinal(x)
  <2>1. Weekday(R.start) \in Int /\ R.wkst \in Int
    BY SMTT(30), <1>1, <1>3, WeekdayNumber, Weekday7 DEF Usable
  <2>2. PICK s \in Int : s = (Weekday(R.start) + 7 - R.wkst) % 7
    BY <2>1
  <2>3. x = ToOrdinal(R.start) - s
    BY <1>2, <2>2 DEF WeekOf
  <2>4. ToOrdinal(R.start) + (-s) = x
    BY <1>3, <2>3
  <2> QED BY <2>2, <2>4 DEF AddDays
<1>5. FromOrdinal(x) # NoDate
  BY <1>2 DEF WeekStartExists
<1>6. FirstWeek(R) = FromOrdinal(x)
  BY <1>4, <1>5 DEF FirstWeek
<1>7. Dated(FromOrdinal(x)) /\ Representable(FromOrdinal(x)) /\ ToOrdinal(FromOrdinal(x)) = x
  BY <1>5, DateOfNumber
<1>8. ValidYear(FromOrdinal(x).year)
  BY <1>7 DEF Representable
<1> QED BY <1>2, <1>6, <1>7, <1>8

\* Of the weeks the code steps through, those from lead to lead + 53 are enough
\* for a year: all of the year's are among them.
LEMMA StepsOfYear ==
  ASSUME NEW I \in Nat, I # 0, NEW j \in Int, NEW s \in Int, NEW x \in Int, NEW k \in Int,
         x = s + 7 * (I * k), j - 6 <= x, x <= j + 365
  PROVE  LET lead == (j - s) \div (7 * I) IN lead <= k /\ k <= lead + 53
<1>1. PICK c \in Nat : c = 7 * I /\ c >= 7
  BY SMT
<1>2. PICK lead \in Int, r \in Int : lead = (j - s) \div c /\ j - s = c * lead + r /\ 0 <= r /\ r < c
  <2>1. PICK n \in Int : n = j - s
    BY SMT
  <2>2. c > 0
    BY <1>1
  <2> QED BY <2>1, <2>2, DivMod
<1>3. PICK p \in Int, q \in Int : p = c * k /\ q = c * lead
  BY SMT
<1>4. x = s + p
  <2>1. 7 * (I * k) = c * k
    BY <1>1
  <2> QED BY <1>3, <2>1
<1>5. ASSUME k + 1 <= lead PROVE FALSE
  <2>1. PICK m \in Int : m = k + 1
    BY SMT
  <2>2. c * m <= c * lead
    BY <1>1, <1>5, <2>1, Product
  <2>3. c * m = p + c
    BY <1>3, <2>1
  <2>4. p + c <= q
    BY <1>3, <2>2, <2>3
  <2>5. j - s = q + r /\ 0 <= r /\ r < c
    BY <1>2, <1>3
  <2>6. c >= 7
    BY <1>1
  <2> QED BY <1>4, <2>4, <2>5, <2>6, SMT
<1>6. ASSUME lead + 54 <= k PROVE FALSE
  <2>1. PICK m \in Int : m = lead + 54
    BY SMT
  <2>2. c * m <= c * k
    BY <1>1, <1>6, <2>1, Product
  <2>3. c * m = q + 54 * c
    BY <1>3, <2>1
  <2>4. q + 54 * c <= p
    BY <1>3, <2>2, <2>3
  <2>5. j - s = q + r /\ 0 <= r /\ r < c
    BY <1>2, <1>3
  <2>6. c >= 7
    BY <1>1
  <2> QED BY <1>4, <2>4, <2>5, <2>6, SMT
<1>7. lead <= k /\ k <= lead + 53
  BY <1>5, <1>6, SMT
<1> QED BY <1>1, <1>2, <1>7

LEMMA AddDaysIs ==
  ASSUME NEW f, Dated(f), NEW i \in Int, AddDays(f, i) # NoDate
  PROVE  LET d == AddDays(f, i) IN Dated(d) /\ ToOrdinal(d) = ToOrdinal(f) + i
<1>1. PICK n \in Int : n = ToOrdinal(f) + i
  BY WithinItsYear
<1> QED BY <1>1, DateOfNumber DEF AddDays

LEMMA WeeklyDaysAreRfc ==
  ASSUME Usable(R), year \in Int, ValidYear(year), R.byDay # {}, WeekStartExists
  PROVE  WeeklyDaysOfYear = RfcWeekly
<1>1. PICK I \in Nat, w \in 0..6, j \in Int, s \in Int :
         /\ I = R.interval /\ I # 0 /\ w = R.wkst /\ j = Jan1(year)
         /\ s = WeekOf(R.start) /\ WeekdayAt(s) = w
  BY WeekOfType, Jan1Number DEF Usable
<1>2. PICK b \in Int : b = ToOrdinal(R.start) /\ s <= b /\ b < s + 7
  BY <1>1, WeekOfType, WithinItsYear DEF Usable
<1>3. Dated(R.start)
  BY DEF Usable
<1>4. PICK lead \in Int : lead = (j - s) \div (7 * I)
  <2>1. 7 * I \in Nat /\ 7 * I > 0 /\ j - s \in Int
    BY <1>1, SMT
  <2> QED BY <2>1, DivMod
<1> DEFINE Weeks0 == {FromOrdinal(s + 7 * I * k) : k \in {i \in lead..(lead + 53) : i >= 0}}
           Taken(d) == WeekdayPasses(R, d) /\ MonthPasses(R, d)
<1>5. WeeklyDaysOfYear =
        {d \in UNION {WeeklyDays(R, f) : f \in Weeks0 \ {NoDate}} :
           d.year = year /\ ~Before(d, R.start)}
  BY <1>1, <1>4, FirstWeekIs DEF WeeklyDaysOfYear, Jan1
<1>6. RfcWeekly =
        {d \in DaysOfYear(year) :
           /\ ~Before(d, R.start) /\ ((WeekOf(d) - s) \div 7) % I = 0 /\ Taken(d)}
  BY <1>1 DEF RfcWeekly, WeekdayListed, WeekdayPasses, MonthPasses
<1>7. ASSUME NEW d \in WeeklyDaysOfYear
      PROVE  d \in RfcWeekly
  <2>1. PICK f \in Weeks0 \ {NoDate} : d \in WeeklyDays(R, f) /\ d.year = year /\ ~Before(d, R.start)
    BY <1>5
  <2>2. PICK k \in Int : f = FromOrdinal(s + 7 * I * k)
    BY <2>1
  <2>3. PICK x \in Int, q \in Int : q = I * k /\ x = s + 7 * q /\ x = s + 7 * I * k
    <3>1. I * k \in Int
      BY SMT
    <3>2. s + 7 * (I * k) \in Int /\ s + 7 * (I * k) = s + 7 * I * k
      BY SMT
    <3> QED BY <3>1, <3>2
  <2>4. Dated(f) /\ ToOrdinal(f) = x
    BY <2>1, <2>2, <2>3, DateOfNumber
  <2>5. PICK i \in 0..6 : d = AddDays(f, i) /\ d # NoDate
    BY <2>1 DEF WeeklyDays
  <2>6. Taken(d)
    BY <2>1 DEF WeeklyDays
  <2>7. i \in Int
    BY SMT
  <2>8. Dated(d) /\ ToOrdinal(d) = x + i
    BY <2>4, <2>5, <2>7, AddDaysIs
  <2>9. WeekdayAt(x) = w
    <3>1. WeekdayAt(s + 7 * q) = WeekdayAt(s)
      BY ApartSameDay
    <3> QED BY <1>1, <2>3, <3>1
  <2>10. WeekOf(d) = x
    <3>1. PICK o \in Int : o = x + i /\ x <= o /\ o < x + 7
      BY SMT
    <3>2. WeekAt(o, w) = x
      BY <2>9, <3>1, WeekUnique
    <3> QED BY <1>1, <2>8, <3>1, <3>2, WeekOfDate
  <2>11. ((WeekOf(d) - s) \div 7) % I = 0
    <3>1. (x - s) \div 7 = q
      BY <2>3, SMT
    <3>2. q % I = 0
      <4>1. I > 0
        BY <1>1
      <4>2. (I * k) % I = 0
        BY <4>1, MultipleMod
      <4> QED BY <2>3, <4>2
    <3> QED BY <2>10, <3>1, <3>2
  <2>12. d \in DaysOfYear(year)
    BY <2>1, <2>8, DaysOfYearAre
  <2> HIDE DEF Taken
  <2> QED BY <1>6, <2>1, <2>6, <2>11, <2>12
<1>8. ASSUME NEW d \in RfcWeekly
      PROVE  d \in WeeklyDaysOfYear
  <2>1. /\ d \in DaysOfYear(year) /\ Taken(d) /\ ~Before(d, R.start)
        /\ ((WeekOf(d) - s) \div 7) % I = 0
    BY <1>6
  <2>2. Dated(d) /\ d.year = year
    BY <2>1, DaysOfYearAre
  <2>3. PICK o \in Int, x \in Int : /\ o = ToOrdinal(d) /\ x = WeekOf(d)
                                    /\ x <= o /\ o < x + 7 /\ WeekdayAt(x) = w
    BY <1>1, <2>2, WeekOfType, WithinItsYear
  <2>4. PICK q \in Int : x = s + 7 * q
    BY <1>1, <2>3, SameDayApart
  <2>5. b <= o
    BY <1>2, <2>1, <2>3 DEF Before
  <2>6. q >= 0 /\ s <= x
    <3>1. s <= b /\ o < x + 7
      BY <1>2, <2>3
    <3> QED BY <2>4, <2>5, <3>1, SMT
  <2>7. PICK k \in Int : q = I * k
    <3>1. (x - s) \div 7 = q
      BY <2>4, SMT
    <3>2. q % I = 0
      BY <2>1, <2>3, <3>1
    <3>3. I > 0
      BY <1>1
    <3> QED BY <3>2, <3>3, DivMod
  <2>8. k >= 0
    <3>1. ASSUME k <= -1 PROVE FALSE
      <4>1. PICK n \in Int : n = -1
        BY SMT
      <4>2. I * k <= I * n
        BY <1>1, <3>1, <4>1, Product
      <4>3. I * n < 0
        BY <1>1, <4>1
      <4> QED BY <2>6, <2>7, <4>2, <4>3
    <3> QED BY <3>1, SMT
  <2>9. j - 6 <= x /\ x <= j + 365
    <3>1. j <= o /\ o < Jan1(year + 1)
      BY <1>1, <2>2, <2>3, WithinItsYear
    <3>2. Jan1(year + 1) = j + DaysInYear(year) /\ DaysInYear(year) \in {365, 366}
      BY <1>1, Jan1Next
    <3>3. x <= o /\ o < x + 7
      BY <2>3
    <3> QED BY <3>1, <3>2, <3>3, SMT
  <2>10. lead <= k /\ k <= lead + 53
    <3>1. x = s + 7 * (I * k)
      BY <2>4, <2>7
    <3> QED BY <1>1, <1>4, <2>9, <3>1, StepsOfYear
  <2>11. PICK f : f = FromOrdinal(x)
    OBVIOUS
  <2>12. Dated(f) /\ ToOrdinal(f) = x /\ f # NoDate
    <3>1. x <= ToOrdinal(d) /\ WeekOf(R.start) <= x
      BY <1>1, <2>3, <2>6
    <3>2. ValidYear(d.year)
      BY <2>2
    <3>3. LET g == FirstWeek(R) IN Dated(g) /\ ValidYear(g.year) /\ ToOrdinal(g) = WeekOf(R.start)
      BY FirstWeekIs
    <3>4. Dated(f) /\ ToOrdinal(f) = x /\ ValidYear(f.year)
      BY <2>2, <2>11, <3>1, <3>2, <3>3, BetweenDates
    <3>5. Representable(f)
      BY <3>4 DEF Representable
    <3> QED BY <3>4, <3>5, NotADate
  <2>13. f \in Weeks0
    <3>1. s + 7 * I * k = x
      BY <2>4, <2>7
    <3>2. k \in {i \in lead..(lead + 53) : i >= 0}
      BY <2>8, <2>10, SMT
    <3> QED BY <2>11, <3>1, <3>2
  <2>14. d \in WeeklyDays(R, f)
    <3>1. PICK i \in 0..6 : o = x + i
      <4>1. x <= o /\ o < x + 7
        BY <2>3
      <4>2. o - x \in 0..6 /\ o = x + (o - x)
        BY <4>1, SMT
      <4> QED BY <4>2
    <3>2. d = AddDays(f, i)
      BY <2>2, <2>3, <2>12, <3>1, FoundAgain DEF AddDays
    <3>3. d # NoDate
      <4>1. Representable(d)
        BY <2>2 DEF Representable
      <4> QED BY <4>1, NotADate
    <3> QED BY <2>1, <3>2, <3>3 DEF WeeklyDays
  <2> HIDE DEF Weeks0
  <2> QED BY <1>5, <2>1, <2>2, <2>12, <2>13, <2>14
<1> QED BY <1>7, <1>8

-----------------------------------------------------------------------------
(* The order of the years of weeks. *)

LEMMA FirstWeeksGrow ==
  ASSUME NEW w \in 0..6, NEW y \in Int, NEW z \in Int, y <= z
  PROVE  Week1Start(y, w) <= Week1Start(z, w)
<1>1. PICK x \in Int : x = y + 1
  BY SMT
<1>2. PICK a \in Int, c \in Int, i \in Int, k \in Int :
         /\ a = Week1Start(y, w) /\ c = Week1Start(z, w) /\ i = Jan1(x) /\ k = Jan1(z)
         /\ WeekdayAt(a) = w /\ WeekdayAt(c) = w
  <2>1. Jan1(x) \in Int /\ Jan1(z) \in Int
    BY Jan1Number
  <2>2. Week1Start(y, w) \in Int /\ WeekdayAt(Week1Start(y, w)) = w
    BY FirstWeekBegins
  <2>3. Week1Start(z, w) \in Int /\ WeekdayAt(Week1Start(z, w)) = w
    BY FirstWeekBegins
  <2> QED BY <2>1, <2>2, <2>3
<1>3. a <= Jan1(y) + 3 /\ k - 3 <= c
  BY <1>2, FirstWeekBegins
<1>4. i = Jan1(y) + DaysInYear(y) /\ DaysInYear(y) \in {365, 366}
  BY <1>1, <1>2, Jan1Next
<1>5. CASE y = z
  BY <1>2, <1>5
<1>6. CASE x <= z
  <2>1. i <= k
    BY <1>2, <1>6, Jan1Grows
  <2>2. Jan1(y) \in Int
    BY Jan1Number
  <2> QED BY <1>2, <1>3, <1>4, <2>1, <2>2, SMT
<1> QED BY <1>1, <1>5, <1>6, SMT

\* A year's candidates are in its own weeks.
LEMMA WithinWeekYear ==
  ASSUME Usable(R), NEW y \in Int, ValidYear(y), NEW d \in WeekDays(R, y)
  PROVE  /\ Dated(d) /\ Week1Start(y, R.wkst) <= WeekOf(d)
         /\ WeekOf(d) + 7 <= Week1Start(y + 1, R.wkst)
<1>1. Dated(d) /\ InSelectedWeek(R, y, d)
  BY WeekDaysAre
<1>2. PICK w \in 0..6, s \in Int, n \in Int :
         /\ w = R.wkst /\ s = Week1Start(y, w) /\ n = WeeksInYear(y, w)
         /\ Week1Start(y + 1, w) = s + 7 * n
  <2>1. R.wkst \in 0..6
    BY DEF Usable
  <2>2. Week1Start(y, R.wkst) \in Int
    BY <2>1, FirstWeekBegins
  <2>3. /\ WeeksInYear(y, R.wkst) \in {52, 53}
        /\ Week1Start(y + 1, R.wkst) = Week1Start(y, R.wkst) + 7 * WeeksInYear(y, R.wkst)
    BY <2>1, YearsOfWeeks
  <2> QED BY <2>1, <2>2, <2>3
<1>3. PICK k \in 0..(n - 1) : WeekOf(d) = s + 7 * k
  BY <1>1, <1>2 DEF InSelectedWeek
<1>4. s <= s + 7 * k /\ s + 7 * k + 7 <= s + 7 * n
  BY SMT
<1> QED BY <1>1, <1>2, <1>3, <1>4

LEMMA WeekYearBegan ==
  ASSUME NEW d, Dated(d), NEW w \in 0..6
  PROVE  WeekYear(d, w) \in Int /\ Week1Start(WeekYear(d, w), w) <= ToOrdinal(d)
<1>1. PICK y \in Int, o \in Int : y = d.year /\ o = ToOrdinal(d)
  BY WithinItsYear DEF Dated
<1>2. PICK x \in Int, z \in Int : x = y - 1 /\ z = y + 1
  BY SMT
<1>3. WeekYear(d, w) = IF o >= Week1Start(z, w) THEN z ELSE IF o < Week1Start(y, w) THEN x ELSE y
  BY <1>1, <1>2 DEF WeekYear
<1>4. PICK b \in Int, c \in Int : b = Week1Start(y, w) /\ c = Week1Start(z, w)
  BY FirstWeekBegins
<1>5. Week1Start(x, w) \in Int /\ Week1Start(x, w) <= o
  <2>1. /\ Week1Start(x, w) \in Int /\ WeekdayAt(Week1Start(x, w)) = w
        /\ Jan1(x) - 3 <= Week1Start(x, w) /\ Week1Start(x, w) <= Jan1(x) + 3
    BY FirstWeekBegins
  <2>2. x + 1 = y
    BY <1>2
  <2>3. Jan1(y) = Jan1(x) + DaysInYear(x) /\ DaysInYear(x) \in {365, 366}
    BY <2>2, Jan1Next
  <2>4. Jan1(x) \in Int /\ Jan1(y) \in Int
    BY Jan1Number
  <2>5. Jan1(y) <= o
    BY <1>1, WithinItsYear
  <2> QED BY <2>1, <2>3, <2>4, <2>5, SMT
<1>6. CASE o >= c
  <2>1. WeekYear(d, w) = z
    BY <1>3, <1>4, <1>6
  <2> QED BY <1>1, <1>4, <1>6, <2>1
<1>7. CASE o < c /\ o < b
  <2>1. ~(o >= c)
    BY <1>7
  <2>2. WeekYear(d, w) = x
    BY <1>3, <1>4, <1>7, <2>1
  <2> QED BY <1>1, <1>5, <2>2
<1>8. CASE o < c /\ o >= b
  <2>1. ~(o >= c) /\ ~(o < b)
    BY <1>8
  <2>2. WeekYear(d, w) = y
    BY <1>3, <1>4, <1>8, <2>1
  <2> QED BY <1>1, <1>4, <1>8, <2>2
<1> QED BY <1>6, <1>7, <1>8

LEMMA NextYearsFollow ==
  ASSUME Usable(R), NEW y \in Int, ValidYear(y), ValidYear(y + 1),
         NEW d \in WeekDays(R, y), NEW e \in WeekDays(R, y + 1)
  PROVE  Before(d, e)
<1>1. y + 1 \in Int
  OBVIOUS
<1>2. Dated(d) /\ WeekOf(d) + 7 <= Week1Start(y + 1, R.wkst)
  BY WithinWeekYear
<1>3. Dated(e) /\ Week1Start(y + 1, R.wkst) <= WeekOf(e)
  BY <1>1, WithinWeekYear
<1>4. PICK a \in Int, b \in Int, o \in Int, p \in Int :
         /\ a = WeekOf(d) /\ o = ToOrdinal(d) /\ o < a + 7
         /\ b = WeekOf(e) /\ p = ToOrdinal(e) /\ b <= p
  BY <1>2, <1>3, WeekOfType, WithinItsYear
<1>5. Week1Start(y + 1, R.wkst) \in Int
  BY <1>1, FirstWeekBegins DEF Usable
<1>6. a + 7 <= Week1Start(y + 1, R.wkst) /\ Week1Start(y + 1, R.wkst) <= b /\ o < a + 7 /\ b <= p
  BY <1>2, <1>3, <1>4
<1>7. o < p
  BY <1>5, <1>6
<1> QED BY <1>4, <1>7 DEF Before

LEMMA NoneSkipped ==
  ASSUME Usable(R), NEW y \in Int, ValidYear(y), y < FirstYear(R), NEW d \in WeekDays(R, y)
  PROVE  Before(d, R.start) \/ WeekOf(d) = WeekOf(R.start)
<1>1. PICK w \in 0..6 : w = R.wkst
  BY DEF Usable
<1>2. Dated(R.start) /\ R.start.year \in Int
  BY DEF Usable, Dated
<1>3. PICK b \in Int, o \in Int, x \in Int, t \in Int :
         /\ b = ToOrdinal(R.start) /\ o = ToOrdinal(d) /\ x = WeekOf(d) /\ t = WeekOf(R.start)
         /\ x <= o /\ o < x + 7 /\ t <= b /\ b < t + 7
         /\ WeekdayAt(x) = w /\ WeekdayAt(t) = w
  BY <1>1, <1>2, WithinWeekYear, WeekOfType, WithinItsYear
<1>4. PICK z \in Int : z = y + 1
  BY SMT
<1>5. PICK e \in Int : e = Week1Start(z, w) /\ x + 7 <= e
  BY <1>1, <1>3, <1>4, WithinWeekYear, FirstWeekBegins
<1>6. PICK v \in Int : v = WeekYear(R.start, w) /\ Week1Start(v, w) <= b
  BY <1>2, <1>3, WeekYearBegan
<1>7. FirstYear(R) \in {v, R.start.year}
  BY <1>1, <1>6 DEF FirstYear
<1>8. CASE y < v
  <2>1. z <= v
    BY <1>4, <1>8
  <2>2. e <= Week1Start(v, w)
    BY <1>5, <2>1, FirstWeeksGrow
  <2>3. Week1Start(v, w) \in Int
    BY FirstWeekBegins
  <2>4. o < b
    <3>1. o < x + 7 /\ x + 7 <= e
      BY <1>3, <1>5
    <3> QED BY <1>6, <2>2, <2>3, <3>1
  <2> QED BY <1>3, <2>4 DEF Before
<1>9. CASE y < R.start.year
  <2>1. PICK g \in Int : g = R.start.year
    BY <1>2
  <2>2. e <= Week1Start(g, w)
    <3>1. z <= g
      BY <1>4, <1>9, <2>1
    <3> QED BY <1>5, <3>1, FirstWeeksGrow
  <2>3. PICK f \in Int, j \in Int : /\ f = Week1Start(g, w) /\ j = Jan1(g) /\ f <= j + 3
                                    /\ WeekdayAt(f) = w
    <3>1. /\ Week1Start(g, w) \in Int /\ WeekdayAt(Week1Start(g, w)) = w
          /\ Jan1(g) - 3 <= Week1Start(g, w) /\ Week1Start(g, w) <= Jan1(g) + 3
      BY FirstWeekBegins
    <3> QED BY <3>1, Jan1Number
  <2>4. j <= b
    BY <1>2, <1>3, <2>1, <2>3, WithinItsYear
  <2>5. PICK k \in Int : t = f + 7 * k
    BY <1>3, <2>3, SameDayApart
  <2>6. k >= -1
    <3>1. b < t + 7 /\ f <= j + 3
      BY <1>3, <2>3
    <3> QED BY <2>4, <2>5, <3>1, SMT
  <2>7. PICK i \in Int : x = f + 7 * i
    BY <1>3, <2>3, SameDayApart
  <2>8. i <= -1
    <3>1. x + 7 <= e /\ e <= f
      BY <1>5, <2>2, <2>3
    <3> QED BY <2>7, <3>1, SMT
  <2>9. CASE i = k
    BY <1>3, <2>5, <2>7, <2>9
  <2>10. CASE i < k
    <3>1. x + 7 <= t
      BY <2>5, <2>7, <2>10, SMT
    <3>2. o < x + 7 /\ t <= b
      BY <1>3
    <3>3. o < b
      BY <3>1, <3>2
    <3> QED BY <1>3, <3>3 DEF Before
  <2> QED BY <2>6, <2>8, <2>9, <2>10, SMT
<1> QED BY <1>2, <1>7, <1>8, <1>9

-----------------------------------------------------------------------------
(* The properties. *)

Checking == rule \in Rules /\ year \in Years

LEMMA DateRecord ==
  ASSUME NEW Y, NEW M, NEW D, NEW d \in [year : Y, month : M, day : D], IsDate(d)
  PROVE  Dated(d) /\ ValidYear(d.year)
<1>1. d = Date(d.year, d.month, d.day)
  BY DEF Date
<1>2. /\ d.month \in 1..12 /\ d.day \in 1..DaysInMonth(d.year, d.month)
      /\ Representable(d)
  BY RepresentableDates
<1>3. ValidYear(d.year)
  BY <1>2 DEF Representable
<1> QED BY <1>1, <1>2, <1>3, ValidYears DEF Dated

LEMMA RecordFields ==
  ASSUME NEW F, NEW I, NEW M, NEW W, NEW Y, NEW D, NEW E, NEW K, NEW S,
         NEW r \in [freq : F, interval : I, byMonth : M, byWeekNo : W, byYearDay : Y,
                    byMonthDay : D, byDay : E, wkst : K, start : S]
  PROVE  /\ r.interval \in I /\ r.byMonth \in M /\ r.byWeekNo \in W
         /\ r.byYearDay \in Y /\ r.byMonthDay \in D /\ r.byDay \in E
         /\ r.wkst \in K /\ r.start \in S
OBVIOUS

LEMMA RecordChanged ==
  ASSUME NEW F, NEW I, NEW M, NEW W, NEW Y, NEW D, NEW E, NEW K, NEW S,
         NEW r \in [freq : F, interval : I, byMonth : M, byWeekNo : W, byYearDay : Y,
                    byMonthDay : D, byDay : E, wkst : K, start : S],
         NEW x, NEW y
  PROVE  /\ LET q == [r EXCEPT !.byMonthDay = x, !.byMonth = y]
            IN  /\ q.byMonthDay = x /\ q.byMonth = y /\ q.freq = r.freq
                /\ q.interval = r.interval /\ q.byWeekNo = r.byWeekNo
                /\ q.byYearDay = r.byYearDay /\ q.byDay = r.byDay
                /\ q.wkst = r.wkst /\ q.start = r.start
         /\ LET q == [r EXCEPT !.byMonthDay = x]
            IN  /\ q.byMonthDay = x /\ q.byMonth = r.byMonth /\ q.freq = r.freq
                /\ q.interval = r.interval /\ q.byWeekNo = r.byWeekNo
                /\ q.byYearDay = r.byYearDay /\ q.byDay = r.byDay
                /\ q.wkst = r.wkst /\ q.start = r.start
         /\ LET q == [r EXCEPT !.byDay = x]
            IN  /\ q.byMonthDay = r.byMonthDay /\ q.byMonth = r.byMonth /\ q.freq = r.freq
                /\ q.interval = r.interval /\ q.byWeekNo = r.byWeekNo
                /\ q.byYearDay = r.byYearDay /\ q.byDay = x
                /\ q.wkst = r.wkst /\ q.start = r.start
OBVIOUS

\* The parts of a rule are in their ranges, and the rule with one or two of its
\* parts replaced keeps the others.
LEMMA RuleParts ==
  ASSUME NEW r \in Rule
  PROVE  /\ r.byMonth \subseteq 1..12
         /\ r.byWeekNo \subseteq Int /\ r.byYearDay \subseteq Int /\ r.byMonthDay \subseteq Int
         /\ \A e \in r.byDay : e.n \in Int /\ e.wd \in 0..6
         /\ r.wkst \in 0..6
         /\ r.interval \in Nat /\ r.interval # 0
         /\ \E A, B, C : r.start \in [year : A, month : B, day : C]
<1> DEFINE F == {"YEARLY", "MONTHLY", "WEEKLY"}
           I == Nat \ {0}
           M == SUBSET (1..12)
           W == SUBSET (-53..53)
           Y == SUBSET (-366..366)
           D == SUBSET (-31..31)
           N == -53..53
           E == SUBSET [n : N, wd : 0..6]
           K == 0..6
           A == 0..9999
           B == 1..12
           C == 1..31
           S == [year : A, month : B, day : C]
<1>1. Rule = [freq : F, interval : I, byMonth : M, byWeekNo : W, byYearDay : Y,
              byMonthDay : D, byDay : E, wkst : K, start : S]
  BY DEF Rule
<1> HIDE DEF F, I, M, W, Y, D, N, E, K, A, B, C, S
<1>2. /\ r.interval \in I /\ r.byMonth \in M /\ r.byWeekNo \in W
      /\ r.byYearDay \in Y /\ r.byMonthDay \in D /\ r.byDay \in E
      /\ r.wkst \in K /\ r.start \in S
  BY <1>1, RecordFields
<1>3. r.byMonth \subseteq 1..12 /\ r.interval \in Nat /\ r.interval # 0
  BY <1>2 DEF M, I
<1>4. r.byWeekNo \subseteq Int
  BY <1>2 DEF W
<1>5. r.byYearDay \subseteq Int
  BY SMTT(30), <1>2 DEF Y
<1>6. r.byMonthDay \subseteq Int
  BY <1>2 DEF D
<1>7. \A n \in N : n \in Int
  BY DEF N
<1>8. \A e \in r.byDay : e.n \in Int /\ e.wd \in 0..6
  BY <1>2, <1>7 DEF E
<1>9. \E O, P, Q : r.start \in [year : O, month : P, day : Q]
  BY <1>2 DEF S
<1> QED BY <1>2, <1>3, <1>4, <1>5, <1>6, <1>8, <1>9 DEF K

LEMMA Defaulted ==
  ASSUME NEW r \in Rule, NEW x, NEW y
  PROVE  /\ LET q == [r EXCEPT !.byMonthDay = x, !.byMonth = y]
            IN  /\ q.byMonthDay = x /\ q.byMonth = y /\ q.freq = r.freq
                /\ q.interval = r.interval /\ q.byWeekNo = r.byWeekNo
                /\ q.byYearDay = r.byYearDay /\ q.byDay = r.byDay
                /\ q.wkst = r.wkst /\ q.start = r.start
         /\ LET q == [r EXCEPT !.byMonthDay = x]
            IN  /\ q.byMonthDay = x /\ q.byMonth = r.byMonth /\ q.freq = r.freq
                /\ q.interval = r.interval /\ q.byWeekNo = r.byWeekNo
                /\ q.byYearDay = r.byYearDay /\ q.byDay = r.byDay
                /\ q.wkst = r.wkst /\ q.start = r.start
         /\ LET q == [r EXCEPT !.byDay = x]
            IN  /\ q.byMonthDay = r.byMonthDay /\ q.byMonth = r.byMonth /\ q.freq = r.freq
                /\ q.interval = r.interval /\ q.byWeekNo = r.byWeekNo
                /\ q.byYearDay = r.byYearDay /\ q.byDay = x
                /\ q.wkst = r.wkst /\ q.start = r.start
<1> DEFINE F == {"YEARLY", "MONTHLY", "WEEKLY"}
           I == Nat \ {0}
           M == SUBSET (1..12)
           W == SUBSET (-53..53)
           Y == SUBSET (-366..366)
           D == SUBSET (-31..31)
           E == SUBSET [n : -53..53, wd : 0..6]
           K == 0..6
           S == [year : 0..9999, month : 1..12, day : 1..31]
<1>1. Rule = [freq : F, interval : I, byMonth : M, byWeekNo : W, byYearDay : Y,
              byMonthDay : D, byDay : E, wkst : K, start : S]
  BY DEF Rule
<1> HIDE DEF F, I, M, W, Y, D, E, K, S
<1>2. r \in [freq : F, interval : I, byMonth : M, byWeekNo : W, byYearDay : Y,
              byMonthDay : D, byDay : E, wkst : K, start : S]
  BY <1>1
<1> QED BY <1>2, RecordChanged

LEMMA StartUsable ==
  ASSUME NEW r \in Rule, IsDate(r.start)
  PROVE  Dated(r.start) /\ ValidYear(r.start.year)
<1>1. PICK A, B, C : r.start \in [year : A, month : B, day : C]
  BY RuleParts
<1> QED BY <1>1, DateRecord

\* What DTSTART supplies is of the rule's own kind.
LEMMA DefaultsUsable ==
  ASSUME NEW r \in Rule, IsDate(r.start)
  PROVE  LET q == WithDefaults(r)
         IN  Usable(q) /\ (q.freq = "WEEKLY" => q.byDay # {})
<1>1. Dated(r.start) /\ ValidYear(r.start.year)
  BY StartUsable
<1>2. r.start.month \in 1..12 /\ r.start.day \in Int
  BY <1>1, MonthLength DEF Dated
<1>3. Weekday(r.start) \in 0..6
  BY <1>1, WeekdayNumber, Weekday7, WithinItsYear
<1>4. /\ r.byMonth \subseteq 1..12
      /\ r.byWeekNo \subseteq Int /\ r.byYearDay \subseteq Int /\ r.byMonthDay \subseteq Int
      /\ \A e \in r.byDay : e.n \in Int /\ e.wd \in 0..6
      /\ r.wkst \in 0..6
      /\ r.interval \in Nat /\ r.interval # 0
  BY RuleParts
<1>5. Usable(r)
  BY <1>1, <1>4 DEF Usable
<1> DEFINE md == IF r.byMonthDay = {} THEN {r.start.day} ELSE r.byMonthDay
           mo == IF r.byMonth = {} THEN {r.start.month} ELSE r.byMonth
           bd == {[n |-> 0, wd |-> Weekday(r.start)]}
<1>6. md \subseteq Int /\ mo \subseteq 1..12 /\ {r.start.day} \subseteq Int
  BY <1>2, <1>4
<1>7. (\A e \in bd : e.n \in Int /\ e.wd \in 0..6) /\ bd # {}
  BY <1>3
<1> HIDE DEF md, mo, bd
<1>8. CASE /\ r.freq = "YEARLY" /\ r.byYearDay = {} /\ r.byDay = {} /\ r.byWeekNo = {}
  <2>1. WithDefaults(r) = [r EXCEPT !.byMonthDay = md, !.byMonth = mo]
    BY <1>8 DEF WithDefaults, md, mo
  <2> DEFINE q == [r EXCEPT !.byMonthDay = md, !.byMonth = mo]
  <2>2. /\ q.byMonthDay = md
        /\ q.byMonth = mo /\ q.freq = r.freq
        /\ q.interval = r.interval /\ q.byWeekNo = r.byWeekNo
        /\ q.byYearDay = r.byYearDay /\ q.byDay = r.byDay
        /\ q.wkst = r.wkst /\ q.start = r.start
    BY Defaulted
  <2> HIDE DEF q
  <2> QED BY <1>5, <1>6, <1>8, <2>1, <2>2 DEF Usable, q
<1>9. CASE /\ r.freq = "MONTHLY" /\ r.byMonthDay = {} /\ r.byDay = {}
  <2>1. WithDefaults(r) = [r EXCEPT !.byMonthDay = {r.start.day}]
    BY <1>9 DEF WithDefaults
  <2> DEFINE q == [r EXCEPT !.byMonthDay = {r.start.day}]
  <2>2. /\ q.byMonthDay = {r.start.day}
        /\ q.byMonth = r.byMonth /\ q.freq = r.freq
        /\ q.interval = r.interval /\ q.byWeekNo = r.byWeekNo
        /\ q.byYearDay = r.byYearDay /\ q.byDay = r.byDay
        /\ q.wkst = r.wkst /\ q.start = r.start
    BY Defaulted
  <2> HIDE DEF q
  <2> QED BY <1>5, <1>6, <1>9, <2>1, <2>2 DEF Usable, q
<1>10. CASE r.freq = "WEEKLY" /\ r.byDay = {}
  <2>1. WithDefaults(r) = [r EXCEPT !.byDay = bd]
    BY <1>10 DEF WithDefaults, bd
  <2> DEFINE q == [r EXCEPT !.byDay = bd]
  <2>2. /\ q.byMonthDay = r.byMonthDay
        /\ q.byMonth = r.byMonth /\ q.freq = r.freq
        /\ q.interval = r.interval /\ q.byWeekNo = r.byWeekNo
        /\ q.byYearDay = r.byYearDay /\ q.byDay = bd
        /\ q.wkst = r.wkst /\ q.start = r.start
    BY Defaulted
  <2> HIDE DEF q
  <2> QED BY <1>5, <1>7, <1>10, <2>1, <2>2 DEF Usable, q
<1>11. CASE /\ ~(r.freq = "YEARLY" /\ r.byYearDay = {} /\ r.byDay = {} /\ r.byWeekNo = {})
            /\ ~(r.freq = "MONTHLY" /\ r.byMonthDay = {} /\ r.byDay = {})
            /\ ~(r.freq = "WEEKLY" /\ r.byDay = {})
  <2>1. WithDefaults(r) = r
    BY <1>11 DEF WithDefaults
  <2> QED BY <1>5, <1>11, <2>1
<1> QED BY <1>8, <1>9, <1>10, <1>11

LEMMA Begins == Init => Checking
BY DEF Init, Checking

LEMMA GoesOn == Checking /\ [Next]_vars => Checking'
BY DEF Checking, Next, vars

LEMMA CheckedYears ==
  ASSUME NEW y \in Years
  PROVE  y \in Int /\ ValidYear(y)
<1>1. ValidYear(y)
  BY SMTT(30), RulesAssumption DEF ValidYear
<1> QED BY <1>1, ValidYears

LEMMA CheckedRule ==
  ASSUME rule \in Rules
  PROVE  Usable(R) /\ (R.freq = "WEEKLY" => R.byDay # {})
<1>1. rule \in Rule /\ IsDate(rule.start)
  BY SMTT(30), RulesAssumption
<1> QED BY <1>1, DefaultsUsable DEF R

LEMMA CheckedDays == Checking => DaysAreRfc
<1>1. SUFFICES ASSUME Checking PROVE DaysAreRfc
  OBVIOUS
<1>2. Usable(R) /\ (R.freq = "WEEKLY" => R.byDay # {})
  BY <1>1, CheckedRule DEF Checking
<1>3. year \in Int /\ ValidYear(year)
  BY <1>1, CheckedYears DEF Checking
<1>4. YearlyDays(R, year) = RfcYearly
  <2>1. CASE R.byWeekNo = {}
    BY <1>2, <1>3, <2>1, YearDaysAreRfc DEF YearlyDays
  <2>2. CASE R.byWeekNo # {}
    BY <1>2, <1>3, <2>2, WeekYearDaysAreRfc DEF YearlyDays
  <2> QED BY <2>1, <2>2
<1>5. \A m \in 1..12 : MonthlyDays(R, year, m) = RfcMonthly(m)
  BY <1>2, <1>3, MonthlyDaysAreRfc
<1>6. R.freq = "WEEKLY" /\ WeekStartExists => WeeklyDaysOfYear = RfcWeekly
  BY <1>2, <1>3, WeeklyDaysAreRfc
<1> QED BY <1>4, <1>5, <1>6 DEF DaysAreRfc

LEMMA CheckedOrder == Checking => YearsInOrder
<1>1. SUFFICES ASSUME Checking, R.byWeekNo # {}
               PROVE  /\ year + 1 \in Years =>
                           \A d \in YearlyDays(R, year), e \in YearlyDays(R, year + 1) : Before(d, e)
                      /\ year < FirstYear(R) =>
                           \A d \in YearlyDays(R, year) :
                             Before(d, R.start) \/ WeekOf(d) = WeekOf(R.start)
  BY DEF YearsInOrder
<1>2. Usable(R)
  BY <1>1, CheckedRule DEF Checking
<1>3. year \in Int /\ ValidYear(year)
  BY <1>1, CheckedYears DEF Checking
<1>4. \A y : YearlyDays(R, y) = WeekDays(R, y)
  BY <1>1 DEF YearlyDays
<1>5. ASSUME year + 1 \in Years
      PROVE  \A d \in WeekDays(R, year), e \in WeekDays(R, year + 1) : Before(d, e)
  BY <1>2, <1>3, <1>5, CheckedYears, NextYearsFollow
<1>6. ASSUME year < FirstYear(R)
      PROVE  \A d \in WeekDays(R, year) : Before(d, R.start) \/ WeekOf(d) = WeekOf(R.start)
  BY <1>2, <1>3, <1>6, NoneSkipped
<1> QED BY <1>4, <1>5, <1>6

\* For any rules and years: the days yearly_days and monthly_days collect from
\* their masks, and the weeks advance_period steps through, are the days that
\* counting weekdays and numbering weeks by their middle day select.
THEOREM CandidatesAreRfc == Spec => []DaysAreRfc
<1> QED BY Begins, GoesOn, CheckedDays, PTL DEF Spec

\* For any rules and years: with BYWEEKNO a year's candidates all come before
\* the next year's, and starting at expand_gregorian's first year skips none
\* from DTSTART's week on.
THEOREM CandidatesInOrder == Spec => []YearsInOrder
<1> QED BY Begins, GoesOn, CheckedOrder, PTL DEF Spec
=============================================================================
