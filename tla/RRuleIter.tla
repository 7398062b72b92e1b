----------------------------- MODULE RRuleIter -----------------------------
(***************************************************************************)
(* RRuleIter::next and its buffer (crates/vobject-core/src/rrule.rs:       *)
(* 584-660, 877-932): occurrences are drawn one call at a time from the    *)
(* candidates of successive periods.  An instant is a number (its          *)
(* to_epoch_like); what the candidates of a period are is the business of  *)
(* RecurDays and SubDailySteps.                                            *)
(***************************************************************************)
EXTENDS Integers, Sequences, FiniteSets

CONSTANTS
  Rules      \* the rules: see Rule

NoLimit == -1      \* no COUNT, no UNTIL

\* A rule, with the candidates of every period up to max_year.  Candidates come
\* in order, and periods too; instants may repeat, because second 60 of a
\* minute is the same instant as second 0 of the next.
InOrder(s) == \A i, j \in DOMAIN s : i < j => s[i] <= s[j]
Rule ==
  [periods : {p \in Seq(Seq(Nat)) :
                /\ \A i \in DOMAIN p : InOrder(p[i])
                /\ \A i, j \in DOMAIN p : i < j =>
                     \A a \in DOMAIN p[i], b \in DOMAIN p[j] : p[i][a] <= p[j][b]},
   bySetPos : SUBSET (Int \ {0}), start : Nat,
   count : Nat \cup {NoLimit}, until : Nat \cup {NoLimit}, maxEmpty : Nat]

ASSUME RulesAssumption == Rules \subseteq Rule

VARIABLES
  rule,           \* cfg and limits
  cursor,         \* how many periods have been generated
  buffer,         \* candidates of the current period still to be looked at
  emitted, last,  \* how many were emitted, and the last one
  emptyPeriods,   \* periods generated since the last emission
  done,
  calling,        \* whether a call of next() is under way
  out             \* the occurrences returned so far

cfgVars == <<rule>>
genVars == <<cursor, buffer, emptyPeriods>>
emitVars == <<emitted, last, out>>
vars == <<cfgVars, genVars, emitVars, done, calling>>

None == -1     \* Option::None, for last

Init ==
  /\ rule \in Rules
  /\ cursor = 0 /\ buffer = <<>> /\ emptyPeriods = 0
  /\ emitted = 0 /\ last = None /\ out = <<>>
  /\ done = FALSE /\ calling = FALSE

\* apply_setpos_and_buffer: the candidates at the BYSETPOS positions, counted
\* from either end.
Positions(r, n) ==
  IF r.bySetPos = {} THEN 1..n
  ELSE {i \in 1..n : i \in r.bySetPos \/ i - n - 1 \in r.bySetPos}
SelectPositions(r, candidates) ==
  LET chosen == Positions(r, Len(candidates))
  IN  [j \in 1..Cardinality(chosen) |->
         candidates[CHOOSE i \in chosen : Cardinality({k \in chosen : k <= i}) = j]]

\* The number of periods that may be looked at without an occurrence.
Budget(r) == IF r.maxEmpty > 1 THEN r.maxEmpty ELSE 1

CountReached(r, n) == r.count # NoLimit /\ n >= r.count

-----------------------------------------------------------------------------

\* The caller asks for the next occurrence; a finished iterator, or one that has
\* reached COUNT, answers at once.
Call ==
  /\ ~calling
  /\ IF done \/ CountReached(rule, emitted)
       THEN done' = TRUE /\ UNCHANGED calling
       ELSE calling' = TRUE /\ UNCHANGED done
  /\ UNCHANGED <<cfgVars, genVars, emitVars>>

ReturnNone ==
  /\ done' = TRUE /\ calling' = FALSE
  /\ UNCHANGED <<cfgVars, emitVars>>

\* Candidates before DTSTART or not after the last occurrence are passed over.
Passed_Duplicates(dt) == dt < rule.start \/ dt < last
Passed(dt) == dt < rule.start \/ (last # None /\ dt <= last)
Past(dt) == rule.until # NoLimit /\ dt > rule.until

Skip ==
  /\ calling /\ buffer # <<>> /\ Passed(Head(buffer))
  /\ buffer' = Tail(buffer)
  /\ UNCHANGED <<cfgVars, emitVars, cursor, emptyPeriods, done, calling>>

StopAtUntil ==
  /\ calling /\ buffer # <<>> /\ ~Passed(Head(buffer)) /\ Past(Head(buffer))
  /\ buffer' = Tail(buffer)
  /\ ReturnNone
  /\ UNCHANGED <<cursor, emptyPeriods>>

Emit_KeepsCounting ==
  /\ calling /\ buffer # <<>> /\ ~Passed(Head(buffer)) /\ ~Past(Head(buffer))
  /\ buffer' = Tail(buffer)
  /\ last' = Head(buffer) /\ emitted' = emitted + 1 /\ out' = Append(out, Head(buffer))
  /\ calling' = FALSE
  /\ UNCHANGED <<cfgVars, cursor, done, emptyPeriods>>
Emit ==
  /\ calling /\ buffer # <<>> /\ ~Passed(Head(buffer)) /\ ~Past(Head(buffer))
  /\ buffer' = Tail(buffer)
  /\ last' = Head(buffer) /\ emitted' = emitted + 1 /\ out' = Append(out, Head(buffer))
  /\ emptyPeriods' = 0 /\ calling' = FALSE
  /\ UNCHANGED <<cfgVars, cursor, done>>

\* advance_period, from an empty buffer.
Refill_ForgetsBudget ==
  /\ calling /\ buffer = <<>>
  /\ emptyPeriods < Budget(rule) /\ cursor < Len(rule.periods)
  /\ cursor' = cursor + 1
  /\ buffer' = SelectPositions(rule, rule.periods[cursor + 1])
  /\ emptyPeriods' = IF buffer' = <<>> THEN emptyPeriods + 1 ELSE 0
  /\ UNCHANGED <<cfgVars, emitVars, done, calling>>
Refill_Saturates ==
  /\ calling /\ buffer = <<>>
  /\ emptyPeriods < Budget(rule)
  /\ cursor' = IF cursor < Len(rule.periods) THEN cursor + 1 ELSE cursor
  /\ buffer' = IF cursor' = 0 THEN <<>> ELSE SelectPositions(rule, rule.periods[cursor'])
  /\ emptyPeriods' = IF buffer' = <<>> THEN emptyPeriods + 1 ELSE 0
  /\ UNCHANGED <<cfgVars, emitVars, done, calling>>
Refill ==
  /\ calling /\ buffer = <<>>
  /\ emptyPeriods < Budget(rule) /\ cursor < Len(rule.periods)
  /\ emptyPeriods' = emptyPeriods + 1 /\ cursor' = cursor + 1
  /\ buffer' = SelectPositions(rule, rule.periods[cursor + 1])
  /\ UNCHANGED <<cfgVars, emitVars, done, calling>>

\* The budget is spent, or the cursor is past max_year.
GiveUp ==
  /\ calling /\ buffer = <<>>
  /\ emptyPeriods >= Budget(rule) \/ cursor = Len(rule.periods)
  /\ emptyPeriods' = emptyPeriods + 1
  /\ ReturnNone
  /\ UNCHANGED <<buffer, cursor>>

Loop == Skip \/ StopAtUntil \/ Emit \/ Refill \/ GiveUp
Next == Call \/ Loop

\* A call runs until it returns; nothing obliges the caller to make one.
Spec == Init /\ [][Next]_vars /\ WF_vars(Loop)

-----------------------------------------------------------------------------
(* The occurrences of a rule, and where they are. *)

\* Candidate i of n is at a BYSETPOS position.
AtSetPos(r, i, n) ==
  \/ r.bySetPos = {}
  \/ \E p \in r.bySetPos : (p > 0 /\ i = p) \/ (p < 0 /\ i = n + 1 + p)

InPeriod(r, k) ==
  LET c == r.periods[k]
  IN  {c[i] : i \in {j \in DOMAIN c : AtSetPos(r, j, Len(c))}}

Selected(r) ==
  {t \in UNION {InPeriod(r, k) : k \in DOMAIN r.periods} :
     t >= r.start /\ (r.until = NoLimit \/ t <= r.until)}

Occurrences(r) ==
  {t \in Selected(r) :
     r.count = NoLimit \/ Cardinality({u \in Selected(r) : u < t}) < r.count}

FirstPeriod(r, t) ==
  CHOOSE k \in DOMAIN r.periods :
    t \in InPeriod(r, k) /\ \A j \in 1..(k - 1) : t \notin InPeriod(r, j)

\* The period of the last occurrence returned; 0 before the first.
LastPeriod == IF out = <<>> THEN 0 ELSE FirstPeriod(rule, last)

-----------------------------------------------------------------------------
(* Properties. *)

TypeOK ==
  /\ rule \in Rules
  /\ cursor \in 0..Len(rule.periods) /\ buffer \in Seq(Nat) /\ emptyPeriods \in Nat
  /\ emitted \in Nat /\ last \in Nat \cup {None} /\ out \in Seq(Nat)
  /\ done \in BOOLEAN /\ calling \in BOOLEAN

\* The calls of next() return the occurrences of the rule in order, each once,
\* none before DTSTART, after UNTIL or beyond COUNT, and none left out.
Stream == INSTANCE OccurrenceStream WITH
  occurrences <- Occurrences(rule), delivered <- out, finished <- done
IsStream == Stream!Spec

\* max_empty_periods is kept exactly.  No call looks further past the last
\* occurrence, whatever the candidates it meets there turn out to be worth; and
\* a finished iterator has returned every occurrence within that reach of the
\* one before.
BudgetExact ==
  /\ cursor <= LastPeriod + Budget(rule)
  /\ done =>
       \A t \in Occurrences(rule) :
         \/ \E i \in DOMAIN out : out[i] = t
         \/ FirstPeriod(rule, t) > LastPeriod + Budget(rule)

\* Every call of next() returns.
CallReturns == calling ~> ~calling
=============================================================================
