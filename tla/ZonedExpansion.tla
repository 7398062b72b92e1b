--------------------------- MODULE ZonedExpansion ---------------------------
(***************************************************************************)
(* expand_rrule (python/calcard/__init__.py) from a DTSTART in a zone: the *)
(* core expands the rule on the zone's wall clock, with UNTIL turned into  *)
(* a wall time as well, and each wall time is then resolved through the    *)
(* zone, to an instant and back.  The zone here is a VTimezone, whose      *)
(* table is rebuilt while the expansion goes on.                           *)
(***************************************************************************)
EXTENDS VTimezone

CONSTANTS
  Rules,       \* wall times of a rule without its UNTIL, in order
  UntilRange   \* how far UNTIL is from the rule's times

\* The times of a rule come in order; and the next change of the clock is not so
\* soon that a skipped time would land after it.
ASSUME ExpansionAssumption ==
  /\ UntilRange \in Nat
  /\ \A walls \in Rules :
       /\ walls \in Seq(Times)
       /\ \A i, j \in DOMAIN walls : i < j => walls[i] < walls[j]
  /\ \A z \in Zones : \A j, k \in DOMAIN Full[z] :
       j < k => Full[z][j].utc + Full[z][j].after - Full[z][j].before <= Full[z][k].utc

VARIABLE task  \* the call of expand_rrule under way

NoTask == [step |-> "none"]
NoUntil == -1

Untils(walls) ==
  {NoUntil} \cup ({walls[i] + d : i \in DOMAIN walls, d \in -UntilRange..UntilRange} \cap Times)

ExpInit ==
  /\ Init
  /\ \E walls \in Rules : \E until \in Untils(walls) :
       task = [walls |-> walls, until |-> until,
               step |-> IF until = NoUntil THEN "next" ELSE "until",
               left |-> walls, instant |-> 0, out |-> <<>>]

\* _rewrite_until_to_local: the wall time that the zone shows at UNTIL.
AskUntil == task.step = "until" /\ Fromutc(task.until) /\ UNCHANGED task
UpTo(walls, until) == SubSeq(walls, 1, Cardinality({i \in DOMAIN walls : walls[i] <= until}))

TakeUntil_AsItIs ==
  /\ task.step = "until" /\ answer.query = "fromutc"
  /\ task' = [task EXCEPT !.step = "next", !.left = UpTo(task.walls, task.until)]
  /\ Proceed
TakeUntil ==
  /\ task.step = "until" /\ answer.query = "fromutc"
  /\ task' = [task EXCEPT !.step = "next", !.left = UpTo(task.walls, answer.wall)]
  /\ Proceed

\* An instance is resolved with fold=0 ...
AskOffset_Fold1 ==
  task.step = "next" /\ task.left # <<>> /\ Utcoffset(Head(task.left), 1) /\ UNCHANGED task
AskOffset ==
  task.step = "next" /\ task.left # <<>> /\ Utcoffset(Head(task.left), 0) /\ UNCHANGED task
TakeOffset ==
  /\ task.step = "next" /\ answer.query = "utcoffset"
  /\ task' = [task EXCEPT !.step = "clock", !.instant = answer.wall - answer.offset]
  /\ Proceed

\* ... and shown as the zone's clock shows that instant.
AskClock == task.step = "clock" /\ Fromutc(task.instant) /\ UNCHANGED task
TakeClock ==
  /\ task.step = "clock" /\ answer.query = "fromutc"
  /\ task' = [task EXCEPT !.step = "next", !.left = Tail(@),
                !.out = Append(@, [instant |-> task.instant, wall |-> answer.wall,
                                   fold |-> answer.fold])]
  /\ Proceed

\* An exception ends the call.
Abandon == answer = Raised /\ task' = [task EXCEPT !.step = "raised"] /\ Proceed

ExpNext ==
  \/ Build /\ UNCHANGED task
  \/ AskUntil \/ TakeUntil \/ AskOffset \/ TakeOffset \/ AskClock \/ TakeClock \/ Abandon

ExpSpec == ExpInit /\ [][ExpNext]_<<vars, task>>

-----------------------------------------------------------------------------
\* The change of the clock that skips a wall time.
Skipping(wall) ==
  {k \in DOMAIN Full[zone] :
     LET tr == Full[zone][k] IN tr.utc + tr.before <= wall /\ wall < tr.utc + tr.after}

First(times) == CHOOSE u \in times : \A v \in times : u <= v

\* The instant that a wall time stands for: the first at which the clock shows
\* it; if it is skipped, that at which the clock before the gap would have.
Resolved(wall) ==
  IF Instants(wall) # {} THEN First(Instants(wall))
  ELSE wall - Full[zone][First(Skipping(wall))].before

Expanding == task # NoTask
Done == Expanding /\ task.step = "next" /\ task.left = <<>>

\* "a wall time that falls in a spring-forward gap takes the pre-gap offset (so
\* it lands after the gap), and an ambiguous fall-back time takes its first
\* occurrence" (__init__.py:226-229): whatever part of the table was there when
\* the expansion began, an instance is the instant that its wall time stands
\* for, shown as the clock shows it, and only gaps put instances out of order.
InstancesResolved ==
  Expanding =>
    \A i \in DOMAIN task.out :
      LET wall == task.walls[i]  instance == task.out[i]
      IN  /\ instance.instant = Resolved(wall)
          /\ instance.wall = instance.instant + ClockOffset(instance.instant)
          /\ instance.fold = 0
          /\ IF Skipping(wall) = {} THEN instance.wall = wall ELSE instance.wall > wall
          /\ \A j \in 1..(i - 1) :
               task.out[j].instant < instance.instant \/ Skipping(task.walls[j]) # {}

\* "A UTC UNTIL is compared as an instant" (__init__.py:229), although the
\* engine compares wall times: the instances are those up to UNTIL, except that
\* an UNTIL in the second showing of an hour leaves out instances in the first,
\* and that an UNTIL after a gap lets in an instance that lands after it.
UntilIsInstant ==
  Done /\ task.until # NoUntil =>
    \A i \in DOMAIN task.walls :
      LET kept == i <= Len(task.out)
          inTime == Resolved(task.walls[i]) <= task.until
          repeated == \E u \in Instants(task.until + ClockOffset(task.until)) : u < task.until
      IN  /\ kept => inTime \/ Skipping(task.walls[i]) # {}
          /\ inTime => kept \/ repeated
=============================================================================
