--------------------------- MODULE SubDailySteps ---------------------------
(***************************************************************************)
(* The sub-daily arm of RRuleIter::advance_period (crates/vobject-core/src *)
(* /rrule.rs:711-843): HOURLY, MINUTELY and SECONDLY rules step from slot  *)
(* to slot, INTERVAL units apart and aligned with DTSTART, and jump over   *)
(* the slots a filter is known to reject.  Times are seconds since day 0.  *)
(***************************************************************************)
EXTENDS Integers

CONSTANTS
  Rules,        \* the rules: see Rule
  MaxEpoch,     \* 9999-12-31T23:59:59
  LastDay       \* the last day of max_year

Frequencies == {"HOURLY", "MINUTELY", "SECONDLY"}

\* A rule after Config::new; `days` are those day_passes_limits accepts.
Rule ==
  [freq : Frequencies, interval : Nat \ {0}, byHour : SUBSET (0..23),
   byMinute : SUBSET (0..59), bySecond : SUBSET (0..60), days : SUBSET Nat,
   start : Nat]

ASSUME StepsAssumption ==
  /\ Rules \subseteq Rule
  /\ MaxEpoch \in Nat /\ MaxEpoch % 86400 = 86399
  /\ LastDay \in 0..(MaxEpoch \div 86400)
  /\ \A r \in Rules : r.start <= MaxEpoch

VARIABLES
  rule,
  current,      \* PeriodCursor::SubDaily's slot; PastEnd when parked
  candidates,   \* what the last period put in the buffer
  latest,       \* those of the last period that had any
  stopped       \* advance_period returned false
vars == <<rule, current, candidates, latest, stopped>>

PastEnd == MaxEpoch + 1

Day(t) == t \div 86400
DayStart(t) == t - (t % 86400)
Hour(t) == (t % 86400) \div 3600
HourStart(t) == t - (t % 3600)
Minute(t) == (t % 3600) \div 60
MinuteStart(t) == t - (t % 60)
Second(t) == t % 60

Unit == [f \in Frequencies |->
           IF f = "HOURLY" THEN 3600 ELSE IF f = "MINUTELY" THEN 60 ELSE 1]
Step == Unit[rule.freq] * rule.interval

DayOk(t) == Day(t) \in rule.days
HourOk(t) == rule.byHour = {} \/ Hour(t) \in rule.byHour
MinuteOk(t) == rule.byMinute = {} \/ Minute(t) \in rule.byMinute
SecondOk(t) == rule.bySecond = {} \/ Second(t) \in rule.bySecond

\* Which filters apply to a slot: the units below the frequency's own are
\* expanded instead.
Accepted(t) ==
  /\ DayOk(t) /\ HourOk(t)
  /\ rule.freq # "HOURLY" => MinuteOk(t)
  /\ rule.freq = "SECONDLY" => SecondOk(t)

\* The candidates of an accepted slot.  Second 60 belongs to the next minute.
Expand(t) ==
  CASE rule.freq = "HOURLY" ->
         {HourStart(t) + m * 60 + s : m \in rule.byMinute, s \in rule.bySecond}
    [] rule.freq = "MINUTELY" -> {MinuteStart(t) + s : s \in rule.bySecond}
    [] rule.freq = "SECONDLY" -> {t}

-----------------------------------------------------------------------------

Init ==
  /\ rule \in Rules
  /\ current = rule.start
  /\ candidates = {} /\ latest = {}
  /\ stopped = FALSE

\* Step on from a slot; past the last representable second the cursor is
\* parked where the next call stops.
StepFrom_Saturates(t) ==
  current' = IF t + Step > MaxEpoch
               THEN DayStart(MaxEpoch) + ((t + Step) % 86400) ELSE t + Step
StepFrom(t) == current' = IF t + Step > MaxEpoch THEN PastEnd ELSE t + Step

\* The last aligned slot before a boundary that lies ahead.
SlotBefore_Boundary(boundary) == IF boundary > current THEN boundary - Step ELSE current
SlotBefore(boundary) ==
  LET steps == (boundary - current + Step - 1) \div Step
  IN  IF boundary > current THEN current + (steps - 1) * Step ELSE current

\* The earliest start, later in its day or hour, of an allowed hour or minute;
\* the end of the day or hour if there is none.
NextAllowed(starts, now, end) ==
  LET later == {s \in starts : s > now}
  IN  IF later = {} THEN end ELSE CHOOSE s \in later : \A u \in later : s <= u
NextHour_SkipsDay ==
  LET hours == {DayStart(current) + h * 3600 : h \in rule.byHour}
  IN  NextAllowed(hours, current, DayStart(current) + 2 * 86400)
NextHour ==
  LET hours == {DayStart(current) + h * 3600 : h \in rule.byHour}
  IN  NextAllowed(hours, current, DayStart(current) + 86400)
NextMinute ==
  LET minutes == {HourStart(current) + m * 60 : m \in rule.byMinute}
  IN  NextAllowed(minutes, current, HourStart(current) + 3600)

Running == ~stopped /\ Day(current) <= LastDay

Buffer(found) ==
  /\ candidates' = found
  /\ latest' = IF found = {} THEN latest ELSE found
  /\ UNCHANGED <<rule, stopped>>

Produce ==
  /\ Running /\ Accepted(current)
  /\ Buffer(Expand(current))
  /\ StepFrom(current)

\* The whole day is rejected.
JumpDay ==
  /\ Running /\ ~DayOk(current)
  /\ Buffer({})
  /\ StepFrom(SlotBefore(DayStart(current) + 86400))

\* The hour is rejected.
JumpHour ==
  /\ Running /\ DayOk(current) /\ ~HourOk(current)
  /\ Buffer({})
  /\ StepFrom(SlotBefore(NextHour))

\* The minute is rejected; minutes do not filter HOURLY slots.
JumpMinute ==
  /\ Running /\ DayOk(current) /\ HourOk(current) /\ ~MinuteOk(current)
  /\ rule.freq \in {"MINUTELY", "SECONDLY"}
  /\ Buffer({})
  /\ StepFrom(SlotBefore(NextMinute))

\* Only the second is rejected: no jump.
SkipSecond ==
  /\ Running /\ DayOk(current) /\ HourOk(current) /\ MinuteOk(current)
  /\ rule.freq = "SECONDLY" /\ ~SecondOk(current)
  /\ Buffer({})
  /\ StepFrom(current)

Stop ==
  /\ ~stopped /\ Day(current) > LastDay
  /\ stopped' = TRUE
  /\ UNCHANGED <<rule, current, candidates, latest>>

Next == Produce \/ JumpDay \/ JumpHour \/ JumpMinute \/ SkipSecond \/ Stop

\* The caller keeps drawing occurrences.
Spec == Init /\ [][Next]_vars /\ WF_vars(Next)

-----------------------------------------------------------------------------
(* Properties. *)

TypeOK ==
  /\ rule \in Rules
  /\ current \in 0..PastEnd
  /\ candidates \subseteq Nat /\ latest \subseteq Nat
  /\ stopped \in BOOLEAN

\* The cursor never leaves the grid of DTSTART and INTERVAL, through any
\* sequence of jumps.
Aligned == current = PastEnd \/ (current - rule.start) % Step = 0

\* A jump passes over no slot that the filters accept, not even when it leads
\* past the end of the calendar.
NothingSkipped ==
  [][\A k \in 1..((current' - current) \div Step) :
       current + k * Step < current' => ~Accepted(current + k * Step)]_vars

\* Candidates never go back in time from one period to the next, so that the
\* iterator's filters see them in order; second 60 included.
PeriodsInOrder == [][stopped' \/ \A t \in candidates', u \in latest : u <= t]_vars

\* Every rule, however sparse, reaches the end of the calendar.
Terminates == <>stopped
=============================================================================
