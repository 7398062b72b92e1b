----------------------------- MODULE VTimezone -----------------------------
(***************************************************************************)
(* python/calcard/timezones.py: a tzinfo backed by a VTIMEZONE component.  *)
(* Its transition table is built out to a horizon and rebuilt further out  *)
(* when a later year is asked for.                                         *)
(*                                                                         *)
(* A time, wall-clock or UTC, is a number of ticks since year 0, and a     *)
(* year has YearLen of them.  An observance gives its offsets and name, its  *)
(* DTSTART and RDATEs, the occurrences of its RRULE, and whether that has  *)
(* no end.                                                                 *)
(***************************************************************************)
EXTENDS Integers, Sequences, FiniteSets

CONSTANTS
  Zones,          \* sequences of observances, in document order
  YearLen,        \* ticks in a year
  FirstHorizon,   \* the year the first table is built for: 20 years from now
  Slack,          \* how much further a table is built than asked for: 10 years
  PerYear,        \* onsets drawn from a rule per year: 60
  MaxYears,       \* how many years past DTSTART a rule is expanded: 2200
  MaxYear         \* the last year a date can be in: 9999

VARIABLES
  zone,
  status,         \* "new", "ready", or "malformed"
  horizon, table, \* _horizon, and the transitions up to it
  answer,         \* what the last query was, and what it returned
  failed          \* a query has raised an exception
vars == <<zone, status, horizon, table, answer, failed>>

Year(t) == t \div YearLen
Larger(a, b) == IF a > b THEN a ELSE b
Smaller(a, b) == IF a < b THEN a ELSE b

-----------------------------------------------------------------------------
(* The table. *)

\* expand_rrule, under its default limits: the rule for so many years, not for ever
\* as the docstring says ("arbitrarily far into the future").  (These
\* limits also end a rule that lapses for 10,000 periods: what came after that
\* is not among its occurrences here.)
Drawn(obs) == {o \in obs.rule : Year(o) <= Year(obs.dtstart) + MaxYears}

\* onsets_through: the first onsets drawn from the rule, enough for the years
\* from DTSTART on, then those in the years asked for.
FirstOf(n, S) == {o \in S : Cardinality({p \in S : p < o}) < n}

OnsetsThrough_RecentOnly(obs, year) ==
  {obs.dtstart} \cup {o \in obs.rdates \cup Drawn(obs) : Year(o) \in (year - Slack)..year}
OnsetsThrough(obs, year) ==
  LET span == Larger(year - Year(obs.dtstart) + 2, 2)
      within == {o \in Drawn(obs) : obs.unbounded => Year(o) <= year}
  IN  {o \in {obs.dtstart} \cup obs.rdates \cup FirstOf(span * PerYear, within) :
         Year(o) <= year}

\* An unbounded rule is given an UNTIL, which has to be a date.
Expandable(z, year) ==
  \A i \in DOMAIN z : z[i].rule # {} /\ z[i].unbounded => year <= MaxYear

\* _ensure: all onsets (of each observance) as instants, in order (at the same
\* instant, in document order); before each transition the offset that the one
\* before led to.
Events(z, onsets) ==
  UNION {{[utc |-> w - z[i].from, obs |-> i] : w \in onsets[i]} : i \in DOMAIN z}

Earlier(e, f) == e.utc < f.utc \/ (e.utc = f.utc /\ e.obs < f.obs)

InOrder(events) ==
  [k \in 1..Cardinality(events) |->
     CHOOSE e \in events : Cardinality({f \in events : Earlier(f, e)}) = k - 1]

Transitions(z, onsets) ==
  LET sorted == InOrder(Events(z, onsets))
  IN  [k \in DOMAIN sorted |->
         [utc |-> sorted[k].utc, name |-> z[sorted[k].obs].name,
          before |-> IF k = 1 THEN z[sorted[1].obs].from ELSE z[sorted[k - 1].obs].to,
          after |-> z[sorted[k].obs].to]]

Table(z, year) == Transitions(z, [i \in DOMAIN z |-> OnsetsThrough(z[i], year)])

\* _wall_fold0 and _wall_fold1: when a wall clock is taken to change over.
WallFold(tr, fold) ==
  tr.utc + IF fold = 1 THEN Smaller(tr.before, tr.after) ELSE Larger(tr.before, tr.after)

-----------------------------------------------------------------------------
(* Looking up. *)

\* How many transitions have happened (bisect_right), and the offset then.
OffsetAfter(t, n) == IF n = 0 THEN t[1].before ELSE t[n].after

\* _entry_for
WallOffset_IgnoresFold(t, wall, fold) ==
  OffsetAfter(t, Cardinality({k \in DOMAIN t : WallFold(t[k], 0) <= wall}))
WallOffset(t, wall, fold) ==
  OffsetAfter(t, Cardinality({k \in DOMAIN t : WallFold(t[k], fold) <= wall}))

UtcCount(t, u) == Cardinality({k \in DOMAIN t : t[k].utc <= u})

\* fromutc: the second occurrence of a wall time is that in the window after
\* the clocks went back.
FoldAt_Inclusive(t, u) ==
  LET n == UtcCount(t, u)
  IN  IF n # 0 /\ u - t[n].utc <= t[n].before - t[n].after THEN 1 ELSE 0
FoldAt(t, u) ==
  LET n == UtcCount(t, u)
  IN  IF n # 0 /\ u - t[n].utc < t[n].before - t[n].after THEN 1 ELSE 0

-----------------------------------------------------------------------------
NoAnswer == [query |-> "none"]
Raised == [query |-> "raised"]

Init ==
  /\ zone \in Zones
  /\ status = "new" /\ horizon = 0 /\ table = <<>>
  /\ answer = NoAnswer /\ failed = FALSE

\* __init__: a zone without any onset up to the first horizon is malformed.
Build ==
  LET first == FirstHorizon + Slack
      built == Table(zone, first)
  IN
  /\ status = "new"
  /\ horizon' = first /\ table' = built
  /\ status' = IF Expandable(zone, first) /\ built # <<>> THEN "ready" ELSE "malformed"
  /\ UNCHANGED <<zone, answer, failed>>

Ensure(year) ==
  \/ year <= horizon /\ UNCHANGED <<horizon, table>>
  \/ /\ year > horizon /\ Expandable(zone, year + Slack)
     /\ horizon' = year + Slack /\ table' = Table(zone, year + Slack)

\* The horizon moves although the onsets cannot be computed.
EnsureFails(year) ==
  /\ year > horizon /\ ~Expandable(zone, year + Slack)
  /\ horizon' = year + Slack /\ UNCHANGED table
  /\ answer' = Raised /\ failed' = TRUE

Utcoffset(wall, fold) ==
  /\ status = "ready" /\ answer = NoAnswer
  /\ \/ /\ Ensure(Year(wall))
        /\ answer' = [query |-> "utcoffset", wall |-> wall, fold |-> fold,
                      offset |-> WallOffset(table', wall, fold)]
        /\ UNCHANGED failed
     \/ EnsureFails(Year(wall))
  /\ UNCHANGED <<zone, status>>

Fromutc(u) ==
  /\ status = "ready" /\ answer = NoAnswer
  /\ \/ /\ Ensure(Year(u) + 1)
        /\ LET offset == OffsetAfter(table', UtcCount(table', u))
           IN  answer' = [query |-> "fromutc", utc |-> u, wall |-> u + offset,
                          fold |-> FoldAt(table', u), offset |-> offset]
        /\ UNCHANGED failed
     \/ EnsureFails(Year(u) + 1)
  /\ UNCHANGED <<zone, status>>

\* The caller goes on from the answer.
Proceed ==
  /\ answer # NoAnswer
  /\ answer' = NoAnswer
  /\ UNCHANGED <<zone, status, horizon, table, failed>>

Times == 0..((MaxYear + 1) * YearLen - 1)

Next ==
  \/ Build \/ Proceed
  \/ \E t \in Times, fold \in {0, 1} : Utcoffset(t, fold)
  \/ \E t \in Times : Fromutc(t)

Spec == Init /\ [][Next]_vars

-----------------------------------------------------------------------------
(* The zone's clock: at any instant the offset of the last transition,       *)
(* horizons aside; and PEP 495's reading of wall times.  It is the one the   *)
(* document defines as far as its rules are drawn, MaxYears from DTSTART.    *)

Onsets(obs) == {obs.dtstart} \cup obs.rdates \cup Drawn(obs)

Full == [z \in Zones |-> Transitions(z, [i \in DOMAIN z |-> Onsets(z[i])])]

ClockOffset(u) == OffsetAfter(Full[zone], UtcCount(Full[zone], u))

\* The instants at which the clock shows a wall time.
Offsets(z) == {z[i].to : i \in DOMAIN z} \cup {z[i].from : i \in DOMAIN z}
Instants(wall) == {u \in {wall - o : o \in Offsets(zone)} : u + ClockOffset(u) = wall}

\* fold=0 is the first of them and fold=1 the last; of a wall time that is
\* skipped, the offset before the gap and the one after.
Pep495(wall, fold, offset) ==
  IF Instants(wall) # {}
    THEN \E u \in Instants(wall) :
           /\ offset = wall - u
           /\ \A v \in Instants(wall) : IF fold = 1 THEN v <= u ELSE u <= v
    ELSE \E k \in DOMAIN Full[zone] :
           LET tr == Full[zone][k] IN
           /\ tr.utc + tr.before <= wall /\ wall < tr.utc + tr.after
           /\ offset = IF fold = 1 THEN tr.after ELSE tr.before

\* Changes of the clock are further apart than the times they repeat or skip.
\* (Where they are not, wall times have no good reading.)
WellSpaced(z) ==
  \A j, k \in DOMAIN Full[z] :
    j < k => WallFold(Full[z][j], 0) <= WallFold(Full[z][k], 1)

\* The change of the clock that comes first is the first on the wall, too.
StartsFirst(z) ==
  \A i \in DOMAIN z : \A w \in Onsets(z[i]) :
    Full[z][1].utc + Full[z][1].before <= w

\* Onsets are given on a clock that is not a year ahead of both those before and
\* after.  (RFC 5545 wants it to be the one before.)
StartsInUse(z) ==
  \A i \in DOMAIN z : \A w \in Onsets(z[i]) : \A k \in DOMAIN Full[z] :
    Full[z][k].utc = w - z[i].from => Year(w) <= Year(WallFold(Full[z][k], 0))

\* The rule starts at DTSTART and gives no more onsets in a year than are drawn
\* from it; offsets are those of a clock, of less than half a year.
ObservanceRecord ==
  [from : Int, to : Int, name : STRING, rule : SUBSET Nat, unbounded : BOOLEAN,
   rdates : SUBSET Nat, dtstart : Nat]
WellFormed(obs) ==
  /\ IsFiniteSet(obs.rule) /\ IsFiniteSet(obs.rdates)
  /\ \A o \in obs.rule :
       /\ obs.dtstart <= o
       /\ Cardinality({p \in obs.rule : Year(p) = Year(o)}) <= PerYear
  /\ \A offset \in {obs.from, obs.to} : -YearLen < 2 * offset /\ 2 * offset < YearLen

ASSUME NumbersAssumption ==
  /\ YearLen \in Nat \ {0}
  /\ {FirstHorizon, Slack, PerYear, MaxYears, MaxYear} \subseteq Nat
ASSUME ZonesAssumption ==
  \A z \in Zones :
    /\ z \in Seq(ObservanceRecord) /\ \A i \in DOMAIN z : WellFormed(z[i])
    /\ WellSpaced(z) /\ StartsFirst(z) /\ StartsInUse(z)

-----------------------------------------------------------------------------
(* Properties. *)

\* With fold=1, a wall time near the end of the horizon's year may belong to a
\* transition of the year after, which the table does not have.
AtHorizon(wall) ==
  Year(wall) = horizon /\ \E o, p \in Offsets(zone) : Year(wall + o - p) > horizon

\* Answers are PEP 495's on the clock drawn (up to MaxYears after a rule's DTSTART
\* the document's), whatever was asked before and however often the table was
\* rebuilt.  utcoffset reads any wall time with either fold; fromutc gives
\* the wall time and fold that stand for the instant, fold=1 for no other than
\* the second showing of a wall time, also across New Year.
AnswersArePep495 ==
  ~failed =>
    /\ answer.query = "utcoffset" /\ ~(answer.fold = 1 /\ AtHorizon(answer.wall)) =>
         Pep495(answer.wall, answer.fold, answer.offset)
    /\ answer.query = "fromutc" =>
         /\ answer.offset = ClockOffset(answer.utc)
         /\ answer.fold = 1 <=> \E u \in Instants(answer.wall) : u < answer.utc
         /\ Pep495(answer.wall, answer.fold, answer.offset)

\* Rebuilding revises no answer for a year before the old horizon.
NeverRevised ==
  [][status = "ready" /\ table' # table =>
       \A t \in Times, fold \in {0, 1} :
         Year(t) < horizon => WallOffset(table', t, fold) = WallOffset(table, t, fold)]_vars

\* "Transition tables are built lazily out to the latest year queried (plus
\* slack), so unbounded onset rules keep working arbitrarily far into the
\* future" (timezones.py:113-115): no query raises.
KeepsWorking == ~failed
=============================================================================
