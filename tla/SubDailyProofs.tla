---------------------------- MODULE SubDailyProofs ----------------------------
(***************************************************************************)
(* For every set of rules, every last day and every end of the calendar:   *)
(* the sub-daily cursor keeps to the grid of DTSTART and INTERVAL, jumps   *)
(* over no slot the rule's filters accept, and fills the buffer in order.  *)
(***************************************************************************)
EXTENDS SubDailySteps, WellFoundedInduction, TLAPS

(* Numbers. *)

\* A set of numbers has a least one.
LEMMA Least ==
  ASSUME NEW S \in SUBSET Nat, S # {}
  PROVE  \E m \in S : \A n \in S : m <= n
<1> DEFINE R == OpToRel(<, Nat)
<1>1. R = {p \in Nat \X Nat : p[1] < p[2]}
  BY DEF OpToRel
<1>2. IsWellFoundedOn(R, Nat)
  BY NatLessThanWellFounded
<1> HIDE DEF R
<1>3. PICK m \in S : \A n \in S : ~(<<n, m>> \in R)
  BY <1>2, WFMin
<1>4. \A n \in S : ~(n < m)
  BY <1>1, <1>3
<1> QED BY <1>4

\* Quotient and remainder, for a divisor the prover need not know.
LEMMA DivMod ==
  ASSUME NEW n \in Int, NEW s \in Nat, s > 0
  PROVE  /\ n \div s \in Int /\ n % s \in Int
         /\ n = s * (n \div s) + (n % s)
         /\ 0 <= n % s /\ n % s < s
OBVIOUS

\* Rounding a quotient up.
LEMMA Ceiling ==
  ASSUME NEW a \in Int, NEW s \in Nat, s > 0
  PROVE  LET q == (a + s - 1) \div s
         IN  q \in Int /\ q * s >= a /\ (q - 1) * s < a
<1> DEFINE n == a + s - 1
           q == n \div s
           r == n % s
<1>1. n \in Int /\ q \in Int /\ r \in Int /\ n = s * q + r /\ 0 <= r /\ r < s
  BY DivMod
<1>2. s * q = q * s /\ (q - 1) * s = q * s - s
  BY <1>1
<1> HIDE DEF q, r
<1>3. q * s >= a /\ (q - 1) * s < a
  BY <1>1, <1>2
<1> QED BY <1>1, <1>3 DEF q

\* Multiples leave no remainder, and adding one changes none.
LEMMA MultipleMod ==
  ASSUME NEW k \in Int, NEW s \in Nat, s > 0
  PROVE  (k * s) % s = 0
OBVIOUS

LEMMA ShiftedMod ==
  ASSUME NEW a \in Int, NEW k \in Int, NEW s \in Nat, s > 0, a % s = 0
  PROVE  (a + k * s) % s = 0
<1> DEFINE q == a \div s
<1>1. q \in Int /\ a = s * q
  BY DivMod
<1> HIDE DEF q
<1>2. s * q + k * s = (q + k) * s
  BY <1>1
<1>3. q + k \in Int
  BY <1>1
<1> QED BY <1>1, <1>2, <1>3, MultipleMod

-----------------------------------------------------------------------------
(* Types. *)

\* A step is a positive number of seconds.
LEMMA StepNat == ASSUME rule \in Rules PROVE Step \in Nat /\ Step > 0
<1>1. rule.freq \in Frequencies /\ rule.interval \in Nat \ {0}
  BY StepsAssumption DEF Rule
<1>2. Unit[rule.freq] \in {1, 60, 3600}
  BY <1>1 DEF Unit, Frequencies
<1>3. \A u \in {1, 60, 3600}, i \in Nat \ {0} : u * i \in Nat /\ u * i > 0
  OBVIOUS
<1> QED BY <1>1, <1>2, <1>3 DEF Step

\* The slots between here and a boundary ahead.
LEMMA SlotBeforeBoundary ==
  ASSUME TypeOK, NEW boundary \in Int, boundary > current
  PROVE  \E steps \in Nat :
           /\ steps > 0
           /\ SlotBefore(boundary) = current + (steps - 1) * Step
           /\ SlotBefore(boundary) + Step = current + steps * Step
           /\ SlotBefore(boundary) < boundary
           /\ SlotBefore(boundary) + Step >= boundary
<1> DEFINE steps == (boundary - current + Step - 1) \div Step
           s == Step
<1>1. s \in Nat /\ s > 0 /\ current \in Int
  BY StepNat, StepsAssumption DEF TypeOK, PastEnd
<1>2. steps \in Int /\ steps * s >= boundary - current
        /\ (steps - 1) * s < boundary - current
  BY <1>1, Ceiling
<1>3. SlotBefore(boundary) = current + (steps - 1) * s
  BY DEF SlotBefore
<1> HIDE DEF steps, s
<1>4. steps > 0
  <2>1. ASSUME steps <= 0 PROVE steps * s <= 0
    BY <1>1, <1>2, <2>1
  <2> QED BY <2>1, <1>1, <1>2
<1>5. (steps - 1) * s = steps * s - s
  BY <1>1, <1>2
<1>6. steps * s \in Int /\ SlotBefore(boundary) + s = current + steps * s
  BY <1>1, <1>2, <1>3, <1>5
<1>7. steps \in Nat /\ SlotBefore(boundary) < boundary /\ SlotBefore(boundary) + s >= boundary
  BY <1>1, <1>2, <1>3, <1>4, <1>5, <1>6
<1> QED BY <1>3, <1>4, <1>6, <1>7 DEF s

-----------------------------------------------------------------------------
(* Days, hours and minutes. *)

\* A second lies within its minute, its minute within its hour, its hour
\* within its day.
LEMMA Clock ==
  ASSUME NEW t \in Nat
  PROVE  /\ Day(t) \in Nat /\ DayStart(t) \in Nat /\ DayStart(t) = 86400 * Day(t)
         /\ DayStart(t) <= t /\ t < DayStart(t) + 86400
         /\ Hour(t) \in 0..23 /\ HourStart(t) \in Nat /\ DayStart(t) <= HourStart(t)
         /\ HourStart(t) = DayStart(t) + Hour(t) * 3600
         /\ HourStart(t) <= t /\ t < HourStart(t) + 3600
         /\ Minute(t) \in 0..59 /\ MinuteStart(t) \in Nat /\ HourStart(t) <= MinuteStart(t)
         /\ MinuteStart(t) = HourStart(t) + Minute(t) * 60
         /\ MinuteStart(t) <= t /\ t < MinuteStart(t) + 60
BY DEF Day, DayStart, Hour, HourStart, Minute, MinuteStart

\* What lies within a day, or an hour, has that day, or hour.
LEMMA SameDay ==
  ASSUME NEW t \in Nat, NEW u \in Nat, DayStart(t) <= u, u < DayStart(t) + 86400
  PROVE  Day(u) = Day(t) /\ DayStart(u) = DayStart(t)
<1>1. /\ Day(t) \in Nat /\ DayStart(t) = 86400 * Day(t)
      /\ Day(u) \in Nat /\ DayStart(u) = 86400 * Day(u)
      /\ DayStart(u) <= u /\ u < DayStart(u) + 86400
  BY Clock
<1> QED BY <1>1

LEMMA SameHour ==
  ASSUME NEW t \in Nat, NEW u \in Nat, HourStart(t) <= u, u < HourStart(t) + 3600
  PROVE  Day(u) = Day(t) /\ Hour(u) = Hour(t) /\ HourStart(u) = HourStart(t)
<1>1. /\ DayStart(t) \in Nat /\ DayStart(t) <= HourStart(t) /\ Hour(t) \in 0..23
      /\ HourStart(t) = DayStart(t) + Hour(t) * 3600
  BY Clock
<1>2. Day(u) = Day(t) /\ DayStart(u) = DayStart(t)
  BY <1>1, SameDay
<1>3. /\ Hour(u) \in 0..23 /\ HourStart(u) = DayStart(u) + Hour(u) * 3600
      /\ HourStart(u) <= u /\ u < HourStart(u) + 3600
  BY Clock
<1> QED BY <1>1, <1>2, <1>3

\* A slot no earlier than now, and in another unit than now's, lies in a later
\* one.
LEMMA LaterUnit ==
  ASSUME NEW base \in Nat, NEW now \in Nat, NEW t \in Nat, NEW size \in {60, 3600},
         NEW i \in Nat, NEW j \in Nat, i # j,
         base + i * size <= now, now < base + i * size + size,
         now <= t, t < base + j * size + size
  PROVE  base + j * size \in Nat /\ base + j * size > now
<1>1. CASE size = 60
  <2>1. base + i * 60 <= now /\ now < base + i * 60 + 60 /\ t < base + j * 60 + 60
    BY <1>1
  <2>2. j > i
    BY <2>1
  <2> QED BY <1>1, <2>1, <2>2
<1>2. CASE size = 3600
  <2>1. base + i * 3600 <= now /\ now < base + i * 3600 + 3600 /\ t < base + j * 3600 + 3600
    BY <1>2
  <2>2. j > i
    BY <2>1
  <2> QED BY <1>2, <2>1, <2>2
<1> QED BY <1>1, <1>2

\* NextAllowed is the first start ahead, or the end.
LEMMA NextAllowedIsFirst ==
  ASSUME NEW starts \in SUBSET Nat, NEW now \in Nat, NEW end \in Nat, end > now
  PROVE  LET n == NextAllowed(starts, now, end)
         IN  /\ n \in Nat /\ n > now
             /\ n = end \/ n \in starts
             /\ \A s \in starts : s > now => n <= s
<1> DEFINE later == {s \in starts : s > now}
           n == NextAllowed(starts, now, end)
<1>1. n = IF later = {} THEN end ELSE CHOOSE s \in later : \A u \in later : s <= u
  BY DEF NextAllowed
<1>2. later \in SUBSET Nat /\ \A s \in starts : s > now <=> s \in later
  OBVIOUS
<1>3. later \subseteq starts /\ \A s \in later : s > now
  OBVIOUS
<1> HIDE DEF later, n
<1>4. CASE later = {}
  BY <1>1, <1>2, <1>4 DEF n
<1>5. CASE later # {}
  <2>1. \E m \in later : \A u \in later : m <= u
    BY <1>2, <1>5, Least
  <2>2. n \in later /\ \A u \in later : n <= u
    BY <1>1, <1>5, <2>1
  <2> QED BY <1>2, <1>3, <2>2 DEF n
<1> QED BY <1>4, <1>5

\* A rejected hour: up to the next allowed one, every hour is rejected.
LEMMA NoneBeforeNextHour ==
  ASSUME TypeOK, ~HourOk(current)
  PROVE  /\ NextHour \in Nat /\ NextHour > current
         /\ \A t \in Nat : current <= t /\ t < NextHour => ~HourOk(t)
<1> DEFINE hours == {DayStart(current) + h * 3600 : h \in rule.byHour}
           end == DayStart(current) + 86400
<1>1. current \in Nat /\ rule.byHour \subseteq 0..23 /\ rule.byHour # {}
        /\ Hour(current) \notin rule.byHour
  BY StepsAssumption DEF TypeOK, PastEnd, HourOk, Rule
<1>2. /\ DayStart(current) \in Nat /\ DayStart(current) <= current
      /\ current < DayStart(current) + 86400
      /\ DayStart(current) + Hour(current) * 3600 <= current
      /\ current < DayStart(current) + Hour(current) * 3600 + 3600
      /\ Hour(current) \in 0..23
  BY <1>1, Clock
<1>3. NextHour = NextAllowed(hours, current, end)
  BY DEF NextHour
<1>4. hours \in SUBSET Nat /\ end \in Nat /\ end > current /\ \A s \in hours : s <= end
  BY <1>1, <1>2
<1>5. \A h \in rule.byHour : DayStart(current) + h * 3600 \in hours
  OBVIOUS
<1>6. end = DayStart(current) + 86400
  OBVIOUS
<1> HIDE DEF hours, end
<1>7. NextHour \in Nat /\ NextHour > current /\ NextHour \in hours \cup {end}
        /\ \A s \in hours : s > current => NextHour <= s
  BY <1>1, <1>4, <1>3, NextAllowedIsFirst
<1>8. NextHour <= DayStart(current) + 86400
  BY <1>7, <1>4, <1>6
<1>9. ASSUME NEW t \in Nat, current <= t, t < NextHour, HourOk(t) PROVE FALSE
  <2>1. Day(t) = Day(current) /\ DayStart(t) = DayStart(current)
    BY <1>1, <1>2, <1>7, <1>8, <1>9, SameDay
  <2>2. Hour(t) \in rule.byHour /\ Hour(t) # Hour(current)
    BY <1>1, <1>9 DEF HourOk
  <2> DEFINE s == DayStart(current) + Hour(t) * 3600
  <2>3. Hour(t) \in 0..23 /\ s <= t /\ t < s + 3600
    BY <2>1, Clock
  <2>4. s \in hours
    BY <1>5, <2>2
  <2>5. s \in Nat /\ s > current
    BY <1>1, <1>2, <1>9, <2>2, <2>3, LaterUnit
  <2> HIDE DEF s
  <2>6. NextHour <= s
    BY <1>7, <2>4, <2>5
  <2> QED BY <1>7, <1>9, <2>3, <2>5, <2>6
<1> QED BY <1>7, <1>9

\* A rejected minute, likewise.
LEMMA NoneBeforeNextMinute ==
  ASSUME TypeOK, ~MinuteOk(current)
  PROVE  /\ NextMinute \in Nat /\ NextMinute > current
         /\ \A t \in Nat : current <= t /\ t < NextMinute => ~MinuteOk(t)
<1> DEFINE minutes == {HourStart(current) + m * 60 : m \in rule.byMinute}
           end == HourStart(current) + 3600
<1>1. current \in Nat /\ rule.byMinute \subseteq 0..59 /\ rule.byMinute # {}
        /\ Minute(current) \notin rule.byMinute
  BY StepsAssumption DEF TypeOK, PastEnd, MinuteOk, Rule
<1>2. /\ HourStart(current) \in Nat /\ HourStart(current) <= current
      /\ current < HourStart(current) + 3600
      /\ HourStart(current) + Minute(current) * 60 <= current
      /\ current < HourStart(current) + Minute(current) * 60 + 60
      /\ Minute(current) \in 0..59
  BY <1>1, Clock
<1>3. NextMinute = NextAllowed(minutes, current, end)
  BY DEF NextMinute
<1>4. minutes \in SUBSET Nat /\ end \in Nat /\ end > current /\ \A s \in minutes : s <= end
  BY <1>1, <1>2
<1>5. \A m \in rule.byMinute : HourStart(current) + m * 60 \in minutes
  OBVIOUS
<1>6. end = HourStart(current) + 3600
  OBVIOUS
<1> HIDE DEF minutes, end
<1>7. NextMinute \in Nat /\ NextMinute > current /\ NextMinute \in minutes \cup {end}
        /\ \A s \in minutes : s > current => NextMinute <= s
  BY <1>1, <1>4, <1>3, NextAllowedIsFirst
<1>8. NextMinute <= HourStart(current) + 3600
  BY <1>7, <1>4, <1>6
<1>9. ASSUME NEW t \in Nat, current <= t, t < NextMinute, MinuteOk(t) PROVE FALSE
  <2>1. HourStart(t) = HourStart(current)
    BY <1>1, <1>2, <1>7, <1>8, <1>9, SameHour
  <2>2. Minute(t) \in rule.byMinute /\ Minute(t) # Minute(current)
    BY <1>1, <1>9 DEF MinuteOk
  <2> DEFINE s == HourStart(current) + Minute(t) * 60
  <2>3. Minute(t) \in 0..59 /\ s <= t /\ t < s + 60
    BY <2>1, Clock
  <2>4. s \in minutes
    BY <1>5, <2>2
  <2>5. s \in Nat /\ s > current
    BY <1>1, <1>2, <1>9, <2>2, <2>3, LaterUnit
  <2> HIDE DEF s
  <2>6. NextMinute <= s
    BY <1>7, <2>4, <2>5
  <2> QED BY <1>7, <1>9, <2>3, <2>5, <2>6
<1> QED BY <1>7, <1>9

\* A rejected day, to its end.
LEMMA NoneBeforeNextDay ==
  ASSUME TypeOK, ~DayOk(current)
  PROVE  /\ DayStart(current) + 86400 \in Nat /\ DayStart(current) + 86400 > current
         /\ \A t \in Nat : current <= t /\ t < DayStart(current) + 86400 => ~DayOk(t)
<1>1. current \in Nat
  BY StepsAssumption DEF TypeOK, PastEnd
<1>2. /\ DayStart(current) \in Nat /\ DayStart(current) <= current
      /\ current < DayStart(current) + 86400
  BY <1>1, Clock
<1>3. ASSUME NEW t \in Nat, current <= t, t < DayStart(current) + 86400
      PROVE  Day(t) = Day(current)
  BY <1>1, <1>2, <1>3, SameDay
<1> QED BY <1>2, <1>3 DEF DayOk

-----------------------------------------------------------------------------
(* What a step does to the cursor. *)

\* Multiplying by a positive number keeps the order.
LEMMA Products ==
  ASSUME NEW s \in Nat, s > 0, NEW i \in Int, NEW j \in Int
  PROVE  /\ i * s \in Int
         /\ i <= j => i * s <= j * s
         /\ i * s < j * s => i <= j - 1
<1>1. i <= j => i * s <= j * s
  <2>1. ASSUME i <= j PROVE (j - i) * s >= 0
    BY <2>1
  <2>2. (j - i) * s = j * s - i * s
    OBVIOUS
  <2> QED BY <2>1, <2>2
<1>2. i * s < j * s => i <= j - 1
  <2>1. ASSUME i >= j PROVE (i - j) * s >= 0
    BY <2>1
  <2>2. (i - j) * s = i * s - j * s
    OBVIOUS
  <2> QED BY <2>1, <2>2
<1> QED BY <1>1, <1>2

\* The cursor moves on along the grid, or is parked, and what it passes over is
\* a whole number of steps away.
Moved(past) ==
  /\ current' \in 0..PastEnd /\ current <= current'
  /\ \/ current' = PastEnd
     \/ \E k \in Nat : k > 0 /\ current' = current + k * Step
  /\ \A k \in Nat \ {0} : current + k * Step < current' => current + k * Step \in past

\* A jump passes only slots before its boundary.
LEMMA Jump ==
  ASSUME TypeOK, NEW boundary \in Nat, boundary > current,
         current <= MaxEpoch, StepFrom(SlotBefore(boundary))
  PROVE  Moved({t \in Nat : current <= t /\ t < boundary})
<1> DEFINE s == Step
<1>1. s \in Nat /\ s > 0 /\ current \in Nat /\ MaxEpoch \in Nat
  BY StepNat, StepsAssumption DEF TypeOK, PastEnd
<1>2. PICK steps \in Nat :
        /\ steps > 0
        /\ SlotBefore(boundary) = current + (steps - 1) * s
        /\ SlotBefore(boundary) + s = current + steps * s
        /\ SlotBefore(boundary) < boundary
        /\ SlotBefore(boundary) + s >= boundary
  BY SlotBeforeBoundary
<1>3. current' = IF current + steps * s > MaxEpoch THEN PastEnd ELSE current + steps * s
  BY <1>2 DEF StepFrom
<1> HIDE DEF s
<1>4. steps * s \in Nat
  BY <1>1, <1>2
<1>5. /\ current' \in 0..PastEnd /\ current <= current' /\ current' <= current + steps * s
      /\ current' = PastEnd \/ current' = current + steps * s
  BY <1>1, <1>3, <1>4 DEF PastEnd
<1>6. ASSUME NEW k \in Nat \ {0}, current + k * s < current'
      PROVE  current + k * s \in Nat /\ current <= current + k * s /\ current + k * s < boundary
  <2>1. k * s \in Nat
    BY <1>1
  <2>2. k * s < steps * s
    BY <1>1, <1>4, <1>5, <1>6, <2>1
  <2>3. k <= steps - 1
    BY <1>1, <1>2, <2>2, Products
  <2>4. k * s <= (steps - 1) * s /\ (steps - 1) * s \in Int
    BY <1>1, <1>2, <2>3, Products
  <2>5. current + (steps - 1) * s < boundary
    BY <1>2
  <2> QED BY <1>1, <2>1, <2>4, <2>5
<1> QED BY <1>2, <1>5, <1>6 DEF Moved, s

\* A single step passes no slot at all.
LEMMA OneStep ==
  ASSUME TypeOK, current <= MaxEpoch, StepFrom(current)
  PROVE  Moved({})
<1> DEFINE s == Step
<1>1. s \in Nat /\ s > 0 /\ current \in Nat /\ MaxEpoch \in Nat
  BY StepNat, StepsAssumption DEF TypeOK, PastEnd
<1>2. current' = IF current + s > MaxEpoch THEN PastEnd ELSE current + s
  BY DEF StepFrom
<1>3. 1 \in Nat \ {0} /\ 1 * s = s
  BY <1>1
<1> HIDE DEF s
<1>4. /\ current' \in 0..PastEnd /\ current <= current' /\ current' <= current + s
      /\ current' = PastEnd \/ current' = current + 1 * s
  BY <1>1, <1>2, <1>3 DEF PastEnd
<1>5. ASSUME NEW k \in Nat \ {0}, current + k * s < current' PROVE FALSE
  <2>1. 1 * s <= k * s /\ k * s \in Int
    BY <1>1, Products
  <2> QED BY <1>1, <1>3, <1>4, <1>5, <2>1
<1> QED BY <1>3, <1>4, <1>5 DEF Moved, s

\* While the cursor runs it is on the calendar.
LEMMA RunningOnCalendar == ASSUME TypeOK, Running PROVE current <= MaxEpoch
<1>1. current \in Nat /\ MaxEpoch \in Nat /\ MaxEpoch % 86400 = 86399
        /\ LastDay \in 0..(MaxEpoch \div 86400)
  BY StepsAssumption DEF TypeOK, PastEnd
<1> DEFINE q == MaxEpoch \div 86400
<1>2. q \in Nat /\ MaxEpoch = 86400 * q + 86399
  BY <1>1
<1> HIDE DEF q
<1>3. Day(current) \in Nat /\ current < 86400 * Day(current) + 86400
  BY <1>1, Clock
<1>4. Day(current) <= q
  BY <1>1, <1>3 DEF Running, q
<1> QED BY <1>1, <1>2, <1>3, <1>4

\* Every action but Stop moves the cursor over slots the filters reject.
LEMMA MovesOverRejected ==
  ASSUME TypeOK, Produce \/ JumpDay \/ JumpHour \/ JumpMinute \/ SkipSecond
  PROVE  /\ Moved({t \in Nat : ~Accepted(t)})
         /\ UNCHANGED <<rule, stopped>>
<1>1. Running /\ UNCHANGED <<rule, stopped>>
  BY DEF Produce, JumpDay, JumpHour, JumpMinute, SkipSecond, Buffer
<1>2. current <= MaxEpoch
  BY <1>1, RunningOnCalendar
<1>3. ASSUME NEW past, Moved(past), NEW wider, past \subseteq wider PROVE Moved(wider)
  BY <1>3 DEF Moved
<1>4. CASE Produce \/ SkipSecond
  <2>1. Moved({})
    BY <1>2, <1>4, OneStep DEF Produce, SkipSecond
  <2> QED BY <1>1, <1>3, <2>1
<1>5. CASE JumpDay
  <2> DEFINE boundary == DayStart(current) + 86400
  <2>1. boundary \in Nat /\ boundary > current
          /\ \A t \in Nat : current <= t /\ t < boundary => ~DayOk(t)
    BY <1>5, NoneBeforeNextDay DEF JumpDay
  <2>2. StepFrom(SlotBefore(boundary))
    BY <1>5 DEF JumpDay
  <2> HIDE DEF boundary
  <2>3. Moved({t \in Nat : current <= t /\ t < boundary})
    BY <1>2, <2>1, <2>2, Jump
  <2>4. {t \in Nat : current <= t /\ t < boundary} \subseteq {t \in Nat : ~Accepted(t)}
    BY <2>1 DEF Accepted
  <2> QED BY <1>1, <1>3, <2>3, <2>4
<1>6. CASE JumpHour
  <2>1. NextHour \in Nat /\ NextHour > current
          /\ \A t \in Nat : current <= t /\ t < NextHour => ~HourOk(t)
    BY <1>6, NoneBeforeNextHour DEF JumpHour
  <2>2. StepFrom(SlotBefore(NextHour))
    BY <1>6 DEF JumpHour
  <2>3. Moved({t \in Nat : current <= t /\ t < NextHour})
    BY <1>2, <2>1, <2>2, Jump
  <2>4. {t \in Nat : current <= t /\ t < NextHour} \subseteq {t \in Nat : ~Accepted(t)}
    BY <2>1 DEF Accepted
  <2> QED BY <1>1, <1>3, <2>3, <2>4
<1>7. CASE JumpMinute
  <2>1. NextMinute \in Nat /\ NextMinute > current
          /\ \A t \in Nat : current <= t /\ t < NextMinute => ~MinuteOk(t)
    BY <1>7, NoneBeforeNextMinute DEF JumpMinute
  <2>2. StepFrom(SlotBefore(NextMinute)) /\ rule.freq # "HOURLY"
    BY <1>7 DEF JumpMinute
  <2>3. Moved({t \in Nat : current <= t /\ t < NextMinute})
    BY <1>2, <2>1, <2>2, Jump
  <2>4. {t \in Nat : current <= t /\ t < NextMinute} \subseteq {t \in Nat : ~Accepted(t)}
    BY <2>1, <2>2 DEF Accepted
  <2> QED BY <1>1, <1>3, <2>3, <2>4
<1> QED BY <1>4, <1>5, <1>6, <1>7

-----------------------------------------------------------------------------
(* Candidates. *)

\* Where a slot's hour, minute or second begins: its candidates lie there and
\* up to the next one's beginning.
UnitStart(t) == t - (t % Unit[rule.freq])

\* Whole steps take one unit's start to another's.
LEMMA UnitStarts ==
  ASSUME rule \in Rules, NEW t \in Nat
  PROVE  /\ UnitStart(t) \in Nat /\ UnitStart(t) <= t
         /\ \A k \in Nat : UnitStart(t + k * Step) = UnitStart(t) + k * Step
<1> DEFINE u == Unit[rule.freq]
           i == rule.interval
<1>1. rule.freq \in Frequencies /\ i \in Nat \ {0}
  BY StepsAssumption DEF Rule
<1>2. u \in Nat /\ u > 0 /\ Step = u * i
  BY <1>1 DEF Unit, Frequencies, Step
<1>3. ASSUME NEW n \in Nat PROVE UnitStart(n) = n - (n % u)
  BY DEF UnitStart
<1> HIDE DEF u, i
<1>4. t % u \in 0..t
  BY <1>2
<1>5. ASSUME NEW k \in Nat PROVE (t + k * Step) % u = t % u
  <2> DEFINE r == t % u
             q == t \div u
  <2>1. q \in Int /\ r \in Nat /\ r < u /\ t = u * q + r
    BY <1>2, DivMod
  <2> HIDE DEF q, r
  <2>2. k * Step = u * (k * i)
    BY <1>1, <1>2
  <2>3. t + k * Step = u * (q + k * i) + r
    BY <1>1, <1>2, <2>1, <2>2
  <2>4. q + k * i \in Int
    BY <1>1, <2>1
  <2>5. \A n \in Int : (u * n + r) % u = r
    BY <1>2, <2>1
  <2> QED BY <2>3, <2>4, <2>5 DEF r
<1>6. ASSUME NEW k \in Nat PROVE UnitStart(t + k * Step) = UnitStart(t) + k * Step
  <2> DEFINE n == t + k * Step
  <2>1. k * Step \in Nat /\ n \in Nat /\ n = t + k * Step
    BY StepNat
  <2>2. n % u = t % u
    BY <1>5
  <2> HIDE DEF n
  <2>3. UnitStart(n) = n - (n % u) /\ UnitStart(t) = t - (t % u)
    BY <1>3, <2>1
  <2>4. UnitStart(n) = UnitStart(t) + k * Step
    BY <1>4, <2>1, <2>2, <2>3
  <2> QED BY <2>4 DEF n
<1>7. UnitStart(t) \in Nat /\ UnitStart(t) <= t
  BY <1>3, <1>4
<1> QED BY <1>6, <1>7

\* A period's candidates.  Second 60 is the next minute's first.
LEMMA ExpandWithin ==
  ASSUME rule \in Rules, NEW t \in Nat
  PROVE  \A c \in Expand(t) :
           c \in Nat /\ UnitStart(t) <= c /\ c <= UnitStart(t) + Step
<1>1. /\ rule.freq \in Frequencies /\ rule.interval \in Nat \ {0}
      /\ rule.byMinute \subseteq 0..59 /\ rule.bySecond \subseteq 0..60
  BY StepsAssumption DEF Rule
<1>2. HourStart(t) \in Nat /\ MinuteStart(t) \in Nat
  BY Clock
<1>3. CASE rule.freq = "HOURLY"
  <2>1. UnitStart(t) = HourStart(t) /\ Step >= 3600
    BY <1>1, <1>3 DEF UnitStart, HourStart, Unit, Step
  <2>2. Expand(t) = {HourStart(t) + m * 60 + s : m \in rule.byMinute, s \in rule.bySecond}
    BY <1>3 DEF Expand
  <2>3. ASSUME NEW m \in rule.byMinute, NEW s \in rule.bySecond
        PROVE  LET c == HourStart(t) + m * 60 + s
               IN  c \in Nat /\ HourStart(t) <= c /\ c <= HourStart(t) + 3600
    <3>1. m \in 0..59 /\ s \in 0..60
      BY <1>1
    <3> QED BY <1>2, <3>1
  <2> QED BY <1>2, <2>1, <2>2, <2>3, StepNat
<1>4. CASE rule.freq = "MINUTELY"
  <2>1. UnitStart(t) = MinuteStart(t) /\ Step >= 60
    BY <1>1, <1>4 DEF UnitStart, MinuteStart, Unit, Step
  <2>2. Expand(t) = {MinuteStart(t) + s : s \in rule.bySecond}
    BY <1>4 DEF Expand
  <2> QED BY <1>1, <1>2, <2>1, <2>2, StepNat
<1>5. CASE rule.freq = "SECONDLY"
  <2>1. UnitStart(t) = t
    BY <1>5 DEF UnitStart, Unit, Frequencies
  <2>2. Expand(t) = {t}
    BY <1>5 DEF Expand
  <2> QED BY <2>1, <2>2, StepNat
<1> QED BY <1>1, <1>3, <1>4, <1>5 DEF Frequencies

-----------------------------------------------------------------------------
(* The invariant.  PeriodsInOrder needs that the buffered candidates lie      *)
(* behind the unit the cursor has reached, and that needs the grid.           *)

LatestBehind == current = PastEnd \/ \A c \in latest : c <= UnitStart(current)

IInv == TypeOK /\ Aligned /\ LatestBehind

\* The cursor starts on the grid, with nothing buffered.
LEMMA InitIInv == Init => IInv
<1> SUFFICES ASSUME Init PROVE IInv
  OBVIOUS
<1>1. rule \in Rules /\ current = rule.start /\ latest = {} /\ candidates = {}
        /\ stopped = FALSE
  BY DEF Init
<1>2. rule.start \in Nat /\ rule.start <= MaxEpoch /\ MaxEpoch \in Nat
  BY <1>1, StepsAssumption DEF Rule
<1>3. current \in 0..PastEnd
  BY <1>1, <1>2 DEF PastEnd
<1>4. TypeOK
  BY <1>1, <1>3 DEF TypeOK
<1>5. Aligned
  <2>1. 0 * Step = 0 /\ rule.start - rule.start = 0
    BY <1>1, <1>2, StepNat
  <2>2. (0 * Step) % Step = 0
    BY <1>1, StepNat, MultipleMod
  <2> QED BY <1>1, <2>1, <2>2 DEF Aligned
<1> QED BY <1>1, <1>4, <1>5 DEF IInv, LatestBehind

\* A step on the grid keeps the cursor on it, and never takes its unit back.
LEMMA MovedKeeps ==
  ASSUME IInv, NEW past, Moved(past), UNCHANGED rule
  PROVE  /\ current' \in 0..PastEnd
         /\ Aligned'
         /\ \/ current' = PastEnd
            \/ /\ current # PastEnd
               /\ UnitStart(current)' >= UnitStart(current) + Step
<1>1. rule \in Rules /\ current \in Nat /\ PastEnd \in Nat /\ rule.start \in Nat
        /\ current <= PastEnd
  BY StepsAssumption DEF IInv, TypeOK, PastEnd, Rule
<1>2. Step \in Nat /\ Step > 0 /\ Step' = Step
  BY <1>1, StepNat DEF Step
<1>3. PastEnd' = PastEnd
  BY DEF PastEnd
<1>4. CASE current' = PastEnd
  BY <1>3, <1>4 DEF Moved, Aligned
<1>5. CASE current' # PastEnd
  <2>1. PICK k \in Nat : k > 0 /\ current' = current + k * Step
    BY <1>5 DEF Moved
  <2>2. k * Step \in Nat /\ 1 * Step <= k * Step
    BY <1>2, <2>1, Products
  <2>3. current' \in 0..PastEnd
    BY DEF Moved
  <2>4. current # PastEnd
    BY <1>1, <1>2, <1>5, <2>1, <2>2, <2>3
  <2>5. (current' - rule.start) % Step = 0
    <3>1. (current - rule.start) % Step = 0
      BY <2>4 DEF IInv, Aligned
    <3> DEFINE a == current - rule.start
    <3>2. a \in Int /\ a % Step = 0 /\ current' - rule.start = a + k * Step
      BY <1>1, <2>1, <2>2, <3>1
    <3> HIDE DEF a
    <3>3. (a + k * Step) % Step = 0
      BY <1>2, <3>2, ShiftedMod
    <3> QED BY <3>2, <3>3
  <2>6. UnitStart(current)' = UnitStart(current + k * Step)
    BY <2>1 DEF UnitStart
  <2>7. UnitStart(current)' = UnitStart(current) + k * Step /\ UnitStart(current) \in Nat
    BY <1>1, <2>6, UnitStarts
  <2>8. UnitStart(current)' >= UnitStart(current) + Step
    BY <1>2, <2>2, <2>7
  <2> QED BY <1>2, <2>3, <2>4, <2>5, <2>8 DEF Aligned
<1> QED BY <1>4, <1>5

\* Every action keeps the invariant.
LEMMA NextIInv == IInv /\ [Next]_vars => IInv'
<1> SUFFICES ASSUME IInv, [Next]_vars PROVE IInv'
  OBVIOUS
<1>0. /\ TypeOK /\ PastEnd' = PastEnd /\ rule \in Rules /\ current \in Nat
      /\ latest \subseteq Nat
  BY StepsAssumption DEF IInv, TypeOK, PastEnd
<1>1. CASE Produce \/ JumpDay \/ JumpHour \/ JumpMinute \/ SkipSecond
  <2>1. Moved({t \in Nat : ~Accepted(t)}) /\ UNCHANGED <<rule, stopped>>
    BY <1>0, <1>1, MovesOverRejected
  <2>2. /\ candidates' \subseteq Expand(current)
        /\ latest' \subseteq latest \cup Expand(current)
    BY <1>1 DEF Produce, JumpDay, JumpHour, JumpMinute, SkipSecond, Buffer
  <2>3. \A c \in Expand(current) : c \in Nat /\ c <= UnitStart(current) + Step
    BY <1>0, ExpandWithin
  <2>4. /\ current' \in 0..PastEnd
        /\ Aligned'
        /\ \/ current' = PastEnd
           \/ /\ current # PastEnd
              /\ UnitStart(current)' >= UnitStart(current) + Step
    BY <2>1, MovedKeeps
  <2>5. TypeOK'
    BY <1>0, <2>1, <2>2, <2>3, <2>4 DEF TypeOK
  <2>6. CASE current' = PastEnd
    BY <1>0, <2>4, <2>5, <2>6 DEF IInv, LatestBehind
  <2>7. CASE current # PastEnd /\ UnitStart(current)' >= UnitStart(current) + Step
    <3>1. \A c \in latest : c \in Nat /\ c <= UnitStart(current)
      BY <1>0, <2>7 DEF IInv, LatestBehind
    <3>2. UnitStart(current) \in Nat /\ Step \in Nat
      BY <1>0, UnitStarts, StepNat
    <3>3. UnitStart(current)' \in Nat
      <4>1. rule' \in Rules /\ rule' = rule /\ current' \in Nat
        BY <2>1, <2>5, StepsAssumption DEF TypeOK, PastEnd
      <4>2. UnitStart(current)' = UnitStart(current')
        BY <2>1 DEF UnitStart
      <4> QED BY <4>1, <4>2, UnitStarts
    <3>4. \A c \in latest' : c \in Nat /\ c <= UnitStart(current) + Step
      BY <2>2, <2>3, <3>1, <3>2
    <3>5. \A c \in latest' : c <= UnitStart(current)'
      BY <2>7, <3>2, <3>3, <3>4
    <3> QED BY <2>4, <2>5, <3>5 DEF IInv, LatestBehind
  <2> QED BY <2>4, <2>6, <2>7
<1>2. CASE Stop \/ UNCHANGED vars
  BY <1>2 DEF IInv, TypeOK, Aligned, LatestBehind, PastEnd, UnitStart, Step, Stop, vars
<1> QED BY <1>1, <1>2 DEF Next

\* So it holds throughout.
LEMMA AlwaysIInv == Spec => []IInv
BY InitIInv, NextIInv, PTL DEF Spec

-----------------------------------------------------------------------------
(* The theorems. *)

\* Every variable keeps its type: the cursor stays between DTSTART's calendar
\* and the place it is parked at (advance_period's checked additions).
THEOREM Spec_TypeOK == Spec => []TypeOK
<1>1. IInv => TypeOK
  BY DEF IInv
<1> QED BY AlwaysIInv, <1>1, PTL

\* Whatever the rule's filters, the cursor stays on the grid of DTSTART and
\* INTERVAL: the division that finds the last slot before a boundary never
\* rounds off it.
THEOREM Spec_Aligned == Spec => []Aligned
<1>1. IInv => Aligned
  BY DEF IInv
<1> QED BY AlwaysIInv, <1>1, PTL

\* No jump over a rejected day, hour or minute passes a slot that the rule's
\* filters accept, for every rule and calendar.
THEOREM Spec_NothingSkipped == Spec => NothingSkipped
<1> DEFINE A == \A k \in 1..((current' - current) \div Step) :
                  current + k * Step < current' => ~Accepted(current + k * Step)
<1>1. ASSUME IInv, [Next]_vars PROVE [A]_vars
  <2>1. TypeOK /\ rule \in Rules /\ current \in Nat /\ Step \in Nat /\ Step > 0
    BY <1>1, StepNat, StepsAssumption DEF IInv, TypeOK, PastEnd
  <2>2. CASE Produce \/ JumpDay \/ JumpHour \/ JumpMinute \/ SkipSecond
    <3>1. \A k \in Nat \ {0} : current + k * Step < current' => ~Accepted(current + k * Step)
      BY <2>1, <2>2, MovesOverRejected DEF Moved
    <3>2. (current' - current) \div Step \in Int
      <4>1. current' \in Int
        BY <2>1, <2>2, MovesOverRejected, StepsAssumption DEF Moved, PastEnd
      <4> QED BY <2>1, <4>1
    <3> QED BY <3>1, <3>2
  <2>3. CASE Stop
    <3>1. current' - current = 0 /\ 0 \div Step = 0
      BY <2>1, <2>3 DEF Stop
    <3> QED BY <3>1
  <2>4. CASE UNCHANGED vars
    BY <2>4
  <2> QED BY <1>1, <2>2, <2>3, <2>4 DEF Next
<1> QED BY <1>1, AlwaysIInv, PTL DEF Spec, NothingSkipped

\* A period's candidates never lie before those of an earlier one, for every
\* rule: not even when second 60 of a minute is the next one's first second.
THEOREM Spec_PeriodsInOrder == Spec => PeriodsInOrder
<1> DEFINE A == stopped' \/ \A t \in candidates', u \in latest : u <= t
<1>1. ASSUME IInv, [Next]_vars PROVE [A]_vars
  <2>1. TypeOK /\ rule \in Rules /\ current \in Nat /\ latest \subseteq Nat
    BY <1>1, StepsAssumption DEF IInv, TypeOK, PastEnd
  <2>2. CASE Produce
    <3>1. Running /\ candidates' = Expand(current)
      BY <2>2 DEF Produce, Buffer
    <3>2. current # PastEnd
      BY <2>1, <3>1, RunningOnCalendar, StepsAssumption DEF PastEnd
    <3>3. \A u \in latest : u <= UnitStart(current)
      BY <1>1, <3>2 DEF IInv, LatestBehind
    <3>4. UnitStart(current) \in Nat
            /\ \A t \in Expand(current) : t \in Nat /\ UnitStart(current) <= t
      BY <2>1, UnitStarts, ExpandWithin
    <3> QED BY <2>1, <3>1, <3>3, <3>4
  <2>3. CASE JumpDay \/ JumpHour \/ JumpMinute \/ SkipSecond
    BY <2>3 DEF JumpDay, JumpHour, JumpMinute, SkipSecond, Buffer
  <2>4. CASE Stop \/ UNCHANGED vars
    BY <2>4 DEF Stop
  <2> QED BY <1>1, <2>2, <2>3, <2>4 DEF Next
<1> QED BY <1>1, AlwaysIInv, PTL DEF Spec, PeriodsInOrder
=============================================================================
