-------------------------- MODULE MCSubDailySteps --------------------------
(***************************************************************************)
(* SubDailySteps for TLC: a calendar of three days, of which the middle or *)
(* the first may be rejected, and filters around the ends of hours and     *)
(* days.                                                                   *)
(***************************************************************************)
EXTENDS SubDailySteps

At(d, h, m, s) == d * 86400 + h * 3600 + m * 60 + s

Common(f, intervals, minutes, seconds) ==
  [freq : {f}, interval : intervals, byHour : {{}, {0, 23}, {5}},
   byMinute : minutes, bySecond : seconds, days : {{0, 2}, {1, 2}},
   start : {At(0, 0, 0, 0), At(0, 22, 59, 59)}]

MCRules ==
  Common("HOURLY", {1, 5, 30}, {{0}, {15, 59}}, {{0, 60}})
    \cup Common("MINUTELY", {7, 60, 1441}, {{}, {0, 58}}, {{59}, {0, 60}})
    \cup Common("SECONDLY", {61, 3599, 50000}, {{}, {0, 58}}, {{}, {0, 59}})
=============================================================================
