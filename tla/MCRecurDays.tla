---------------------------- MODULE MCRecurDays ----------------------------
(***************************************************************************)
(* RecurDaysCheck for TLC: combinations of the BY rules a day can be       *)
(* selected by, from DTSTARTs in the last and the first week of a year;    *)
(* and GregorianWalk's walks through the calendar that they stand on.      *)
(***************************************************************************)
EXTENDS RecurDaysCheck, GregorianWalk

E(n, wd) == [n |-> n, wd |-> wd]

MCRules ==
  {r \in
    [freq : {"YEARLY", "MONTHLY", "WEEKLY"}, interval : {1, 2},
     byMonth : {{}, {1, 2, 12}},
     byWeekNo : {{}, {1, 20, 53, -1}},
     byYearDay : {{}, {1, 60, -1}},
     byMonthDay : {{}, {29, -1, -31}},
     byDay : {{}, {E(0, 0), E(0, 6)}, {E(1, 1), E(-1, 6), E(5, 4)}, {E(0, 5), E(53, 3)}},
     wkst : {0, 6},
     start : {Date(1998, 12, 31), Date(2000, 1, 1)}] :
   \* RFC 5545 allows BYWEEKNO and BYYEARDAY only where they are meaningful.
   /\ r.freq # "YEARLY" => r.byWeekNo = {} /\ r.byYearDay = {}
   /\ r.freq = "WEEKLY" => r.byMonthDay = {} /\ \A e \in r.byDay : e.n = 0
   /\ r.freq # "WEEKLY" => r.interval = 1}

MCYears == {0, 1, 1998, 1999, 2000, 2009, 9999}

\* A behaviour either takes a rule through the years or walks the calendar.
NoRule == [freq |-> "none", start |-> Date(2000, 1, 1)]

Parked == start = Date(2000, 1, 1) /\ today = start /\ elapsed = 0

CalendarInit ==
  \/ Init /\ Parked
  \/ rule = NoRule /\ year = 0 /\ WalkInit
CalendarNext ==
  \/ Next /\ rule # NoRule /\ UNCHANGED walkVars
  \/ WalkNext /\ rule = NoRule /\ UNCHANGED vars
CalendarSpec == CalendarInit /\ [][CalendarNext]_<<vars, walkVars>>
=============================================================================
