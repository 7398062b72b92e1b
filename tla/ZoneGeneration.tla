--------------------------- MODULE ZoneGeneration ---------------------------
(***************************************************************************)
(* add_missing_timezones and vtimezone_from_tzinfo (timezones.py): for the *)
(* wall times of a document that refer to a zone, a VTIMEZONE component    *)
(* is written that describes the zone around them, and that VTimezone will *)
(* read.  The zone's changes are found by asking for its state step by     *)
(* step and halving a step in which it changed.                            *)
(***************************************************************************)
EXTENDS VTimezone

CONSTANTS
  Spans,       \* the first and the last wall time referred to, in pairs
  Padding,     \* how much more than these is described: 366 days
  ProbeStep    \* a day

VARIABLES span, component   \* the references, and the observances written
genVars == <<span, component>>

NoSpan == <<0, -1>>
GenInit == Init /\ span = NoSpan /\ component = <<>>

-----------------------------------------------------------------------------
\* The zone's state at an instant, as datetime shows it; whether that is summer
\* time, which _probe asks as well, goes with the name.
Probe(u) ==
  LET n == UtcCount(Full[zone], u)
  IN  [offset |-> OffsetAfter(Full[zone], n), name |-> IF n = 0 THEN "" ELSE Full[zone][n].name]

\* The first tick in (lo, hi] whose state is not that at lo: the step is halved
\* until it is a tick long, at the latest after as many times as it has ticks.
Halved(lo, step) ==
  LET mid == step.lo + (step.hi - step.lo) \div 2
  IN  IF step.hi - step.lo <= 1 THEN step
      ELSE IF Probe(mid) = Probe(lo) THEN [step EXCEPT !.lo = mid] ELSE [step EXCEPT !.hi = mid]
Refined(lo, hi) ==
  LET halving[k \in 0..(hi - lo)] ==
        IF k = 0 THEN [lo |-> lo, hi |-> hi] ELSE Halved(lo, halving[k - 1])
  IN  halving[hi - lo].hi

\* _transitions: the changes in (start, end], for at most one in a step.
Changes(start, end) ==
  LET steps == {at \in start..(end - 1) : (at - start) % ProbeStep = 0}
      Upto(at) == Smaller(at + ProbeStep, end)
  IN  {[at |-> Refined(at, Upto(at)), before |-> Probe(at), after |-> Probe(Refined(at, Upto(at)))] :
         at \in {s \in steps : Probe(s) # Probe(Upto(s))}}

\* Onsets are wall times of the offset before.
Onset_NewOffset(change) == change.at + change.after.offset
Onset(change) == change.at + change.before.offset

Earliest(changes) == CHOOSE c \in changes : \A d \in changes : c.at <= d.at

\* One observance for the changes that have offsets and name in common.
Observance(changes) ==
  LET first == Earliest(changes)
  IN  [from |-> first.before.offset, to |-> first.after.offset, name |-> first.after.name,
       dtstart |-> Onset(first), rdates |-> {Onset(c) : c \in changes \ {first}},
       rule |-> {}, unbounded |-> FALSE]
Fixed(start) ==
  [from |-> Probe(start).offset, to |-> Probe(start).offset, name |-> Probe(start).name,
   dtstart |-> start + Probe(start).offset, rdates |-> {}, rule |-> {}, unbounded |-> FALSE]

\* vtimezone_from_tzinfo: the observances in the order of their first onsets.
FromTzinfo(start, end) ==
  LET changes == Changes(start, end)
      Alike(c, d) == <<c.before.offset, c.after>> = <<d.before.offset, d.after>>
      groups == {{d \in changes : Alike(c, d)} : c \in changes}
      Rank(g) == Cardinality({h \in groups : Earliest(h).at <= Earliest(g).at})
  IN  IF changes = {} THEN <<Fixed(start)>>
      ELSE [k \in 1..Cardinality(groups) |-> Observance(CHOOSE g \in groups : Rank(g) = k)]

\* add_missing_timezones, for one zone, which has a clock; a window that leaves
\* the calendar raises.
Generate(lo, hi) ==
  /\ status = "new" /\ span = NoSpan /\ zone # <<>>
  /\ {lo - Padding, hi + Padding} \subseteq Times
  /\ span' = <<lo, hi>> /\ component' = FromTzinfo(lo - Padding, hi + Padding)
  /\ UNCHANGED vars

GenNext == \E s \in Spans : Generate(s[1], s[2])

GenSpec == GenInit /\ [][GenNext]_<<vars, genVars>>

-----------------------------------------------------------------------------
\* No two changes within one step: "real zones never transition twice in one
\* day" (timezones.py:240-241).
ASSUME ProbeAssumption ==
  /\ ProbeStep \in Nat \ {0}
  /\ \A z \in Zones : \A j, k \in DOMAIN Full[z] : j < k => Full[z][k].utc - Full[z][j].utc >= ProbeStep

\* "The padding dwarfs the offset error" of taking wall times for instants
\* (timezones.py:365-366).
ASSUME PaddingAssumption ==
  /\ Padding \in Nat /\ 2 * Padding >= YearLen
  /\ \A s \in Spans : s \in Int \X Int /\ s[1] <= s[2]

\* "the component describes exactly the covered window" (timezones.py:278): at
\* every instant of it, a VTimezone of the component has the zone's offset, and
\* it reads every wall time that the document refers to, with either fold, as
\* the zone does.
GeneratedAgrees ==
  span # NoSpan =>
    LET start == span[1] - Padding  end == span[2] + Padding
        read == Table(component, Larger(FirstHorizon, Year(end) + 1) + Slack)
    IN  /\ \A u \in start..end : OffsetAfter(read, UtcCount(read, u)) = ClockOffset(u)
        /\ \A wall \in span[1]..span[2], fold \in {0, 1} :
             WallOffset(read, wall, fold) = WallOffset(Full[zone], wall, fold)
=============================================================================
