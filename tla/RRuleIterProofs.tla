-------------------------- MODULE RRuleIterProofs --------------------------
(***************************************************************************)
(* For all rules: the iterator returns the occurrences of its rule, in     *)
(* order, each once and none left out, and looks exactly as far past the   *)
(* last one as max_empty_periods allows.                                   *)
(***************************************************************************)
EXTENDS RRuleIter, ProofLemmas

(* Rules. *)

\* What a rule is made of.
LEMMA RuleShape ==
  ASSUME NEW r \in Rules
  PROVE  /\ r.periods \in Seq(Seq(Nat))
         /\ \A i \in DOMAIN r.periods : r.periods[i] \in Seq(Nat) /\ InOrder(r.periods[i])
         /\ \A i, j \in DOMAIN r.periods : i < j =>
              \A a \in DOMAIN r.periods[i], b \in DOMAIN r.periods[j] :
                r.periods[i][a] <= r.periods[j][b]
         /\ r.bySetPos \in SUBSET (Int \ {0}) /\ r.start \in Nat
         /\ r.count \in Nat \cup {NoLimit} /\ r.until \in Nat \cup {NoLimit}
         /\ r.maxEmpty \in Nat
         /\ Budget(r) \in Nat /\ Budget(r) >= 1
<1>1. r \in Rule
  BY RulesAssumption
<1>2. r.periods \in Seq(Seq(Nat)) /\ r.maxEmpty \in Nat
  BY <1>1 DEF Rule
<1>3. \A i \in DOMAIN r.periods : r.periods[i] \in Seq(Nat)
  BY <1>2
<1>4. Budget(r) \in Nat /\ Budget(r) >= 1
  BY <1>2 DEF Budget
<1> QED BY <1>1, <1>2, <1>3, <1>4 DEF Rule

\* A candidate is selected exactly when its index is at a BYSETPOS position.
LEMMA PositionsAtSetPos ==
  ASSUME NEW r \in Rules, NEW n \in Nat
  PROVE  Positions(r, n) = {i \in 1..n : AtSetPos(r, i, n)}
<1>1. r.bySetPos \in SUBSET (Int \ {0})
  BY RuleShape
<1>2. CASE r.bySetPos = {}
  BY <1>2 DEF Positions, AtSetPos
<1>3. CASE r.bySetPos # {}
  <2>1. ASSUME NEW i \in 1..n, i \in r.bySetPos \/ i - n - 1 \in r.bySetPos
        PROVE  AtSetPos(r, i, n)
    <3>1. CASE i \in r.bySetPos
      BY <3>1, <1>1 DEF AtSetPos
    <3>2. CASE i - n - 1 \in r.bySetPos
      <4>1. i - n - 1 < 0 /\ i = n + 1 + (i - n - 1)
        OBVIOUS
      <4> QED BY <4>1, <3>2 DEF AtSetPos
    <3> QED BY <2>1, <3>1, <3>2
  <2>2. ASSUME NEW i \in 1..n, AtSetPos(r, i, n)
        PROVE  i \in r.bySetPos \/ i - n - 1 \in r.bySetPos
    <3>1. PICK p \in r.bySetPos : (p > 0 /\ i = p) \/ (p < 0 /\ i = n + 1 + p)
      BY <2>2, <1>3 DEF AtSetPos
    <3>2. p \in Int
      BY <1>1
    <3>3. ASSUME i = n + 1 + p PROVE i - n - 1 = p
      BY <3>2, <3>3
    <3> QED BY <3>1, <3>3
  <2>3. Positions(r, n) = {i \in 1..n : i \in r.bySetPos \/ i - n - 1 \in r.bySetPos}
    BY <1>3 DEF Positions
  <2> QED BY <2>1, <2>2, <2>3
<1> QED BY <1>2, <1>3

\* What apply_setpos_and_buffer leaves in the buffer: the candidates at those
\* positions, in order.
LEMMA Selection ==
  ASSUME NEW r \in Rules, NEW k \in DOMAIN r.periods
  PROVE  LET s == SelectPositions(r, r.periods[k])
         IN  /\ s \in Seq(Nat)
             /\ InOrder(s)
             /\ \A i \in DOMAIN s : s[i] \in InPeriod(r, k)
             /\ \A t \in InPeriod(r, k) : \E i \in DOMAIN s : s[i] = t
<1> DEFINE c == r.periods[k]
           n == Len(c)
           chosen == Positions(r, n)
           m == Cardinality(chosen)
           at(j) == CHOOSE i \in chosen : Rank(chosen, i) = j
           s == SelectPositions(r, c)
<1>1. c \in Seq(Nat) /\ InOrder(c) /\ n \in Nat /\ DOMAIN c = 1..n
  BY RuleShape
<1> HIDE DEF c, n
<1>2. chosen = {i \in 1..n : AtSetPos(r, i, n)}
  BY <1>1, PositionsAtSetPos
<1>3. IsFiniteSet(1..n)
  BY <1>1, FS_Interval
<1>4. chosen \in SUBSET (1..n)
  BY <1>2
<1>5. IsFiniteSet(chosen) /\ chosen \in SUBSET Nat
  BY <1>1, <1>3, <1>4, FS_Subset
<1> HIDE DEF chosen
<1>6. m \in Nat
  BY <1>5, FS_CardinalityType
<1>7. s = [j \in 1..m |-> c[at(j)]]
  BY DEF SelectPositions, Rank, chosen, n
<1>8. ASSUME NEW j \in 1..m
      PROVE  at(j) \in chosen /\ Rank(chosen, at(j)) = j
  <2>1. \E i \in chosen : Rank(chosen, i) = j
    BY <1>5, EveryRankTaken
  <2> QED BY <2>1
<1>9. ASSUME NEW i \in chosen
      PROVE  Rank(chosen, i) \in 1..m /\ at(Rank(chosen, i)) = i
  <2>1. Rank(chosen, i) \in 1..m
    BY <1>5, RankType
  <2> DEFINE a == at(Rank(chosen, i))
  <2>2. a \in chosen /\ Rank(chosen, a) = Rank(chosen, i)
    BY <2>1, <1>8
  <2> HIDE DEF a
  <2>3. a \in Nat /\ i \in Nat
    BY <2>2, <1>5
  <2>4. ~(a < i) /\ ~(i < a)
    BY <2>1, <2>2, <1>5, <1>6, RankGrows
  <2>5. a = i
    BY <2>3, <2>4
  <2> QED BY <2>1, <2>5 DEF a
<1>10. ASSUME NEW i \in 1..m, NEW j \in 1..m, i < j
       PROVE  at(i) < at(j)
  <2> DEFINE a == at(i)
             b == at(j)
  <2>1. a \in chosen /\ b \in chosen /\ Rank(chosen, a) = i /\ Rank(chosen, b) = j
    BY <1>8
  <2> HIDE DEF a, b
  <2>2. a \in Nat /\ b \in Nat
    BY <2>1, <1>5
  <2>3. a # b
    BY <2>1, <1>10
  <2>4. ~(b < a)
    <3> SUFFICES ASSUME b < a PROVE FALSE
      OBVIOUS
    <3>1. Rank(chosen, b) < Rank(chosen, a)
      BY <2>1, <1>5, RankGrows
    <3> QED BY <3>1, <2>1, <1>10, <1>6
  <2>5. a < b
    BY <2>2, <2>3, <2>4
  <2> QED BY <2>5 DEF a, b
<1> HIDE DEF m, at
<1>11. ASSUME NEW j \in 1..m
       PROVE  s[j] = c[at(j)] /\ at(j) \in 1..n /\ c[at(j)] \in Nat
  <2>1. s[j] = c[at(j)]
    BY <1>7
  <2>2. at(j) \in 1..n
    BY <1>4, <1>8
  <2>3. c[at(j)] \in Nat
    BY <1>1, <2>2
  <2> QED BY <2>1, <2>2, <2>3
<1>12. s \in [1..m -> Nat]
  BY <1>7, <1>11
<1>13. s \in Seq(Nat) /\ DOMAIN s = 1..m
  BY <1>6, <1>12
<1>14. InOrder(s)
  <2> SUFFICES ASSUME NEW i \in 1..m, NEW j \in 1..m, i < j
               PROVE  s[i] <= s[j]
    BY <1>13 DEF InOrder
  <2>1. at(i) \in 1..n /\ at(j) \in 1..n /\ at(i) < at(j)
    BY <1>10, <1>11
  <2>2. c[at(i)] <= c[at(j)]
    BY <2>1, <1>1 DEF InOrder
  <2> QED BY <2>2, <1>11
<1>15. InPeriod(r, k) = {c[i] : i \in chosen}
  BY <1>1, <1>2 DEF InPeriod, c, n
<1>16. \A j \in 1..m : s[j] \in InPeriod(r, k)
  BY <1>8, <1>11, <1>15
<1>17. ASSUME NEW t \in InPeriod(r, k)
       PROVE  \E j \in 1..m : s[j] = t
  <2>1. PICK i \in chosen : t = c[i]
    BY <1>15
  <2>2. Rank(chosen, i) \in 1..m /\ at(Rank(chosen, i)) = i
    BY <1>9
  <2>3. s[Rank(chosen, i)] = t
    BY <2>1, <2>2, <1>11
  <2> QED BY <2>2, <2>3
<1> HIDE DEF s
<1>18. /\ s \in Seq(Nat) /\ InOrder(s)
       /\ \A i \in DOMAIN s : s[i] \in InPeriod(r, k)
       /\ \A t \in InPeriod(r, k) : \E i \in DOMAIN s : s[i] = t
  BY <1>13, <1>14, <1>16, <1>17
<1> QED BY <1>18 DEF s, c

LEMMA InPeriodNat ==
  ASSUME NEW r \in Rules, NEW k \in DOMAIN r.periods, NEW t \in InPeriod(r, k)
  PROVE  t \in Nat
BY RuleShape DEF InPeriod

\* No candidate is before one of an earlier period.
LEMMA PeriodsInOrder ==
  ASSUME NEW r \in Rules,
         NEW i \in DOMAIN r.periods, NEW j \in DOMAIN r.periods, i < j,
         NEW a \in InPeriod(r, i), NEW b \in InPeriod(r, j)
  PROVE  a <= b
BY RuleShape DEF InPeriod

\* An instant that is a candidate has a first period.
LEMMA FirstPeriodExists ==
  ASSUME NEW r \in Rules, NEW k \in DOMAIN r.periods, NEW t \in InPeriod(r, k)
  PROVE  /\ FirstPeriod(r, t) \in DOMAIN r.periods
         /\ t \in InPeriod(r, FirstPeriod(r, t))
         /\ FirstPeriod(r, t) <= k
<1> DEFINE S == {j \in DOMAIN r.periods : t \in InPeriod(r, j)}
           n == Len(r.periods)
<1>1. n \in Nat /\ DOMAIN r.periods = 1..n
  BY RuleShape
<1> HIDE DEF n
<1>2. S \in SUBSET Nat /\ S # {}
  BY <1>1
<1>3. PICK f \in S : \A j \in S : f <= j
  BY <1>2, Least
<1>4. f \in DOMAIN r.periods /\ t \in InPeriod(r, f)
  BY <1>3
<1>5. ASSUME NEW j \in 1..(f - 1) PROVE t \notin InPeriod(r, j)
  <2>1. j \in DOMAIN r.periods /\ j < f
    BY <1>1, <1>4
  <2> QED BY <2>1, <1>3, <1>4, <1>1
<1> DEFINE g == FirstPeriod(r, t)
<1>6. g \in DOMAIN r.periods /\ t \in InPeriod(r, g) /\ \A j \in 1..(g - 1) : t \notin InPeriod(r, j)
  BY <1>4, <1>5 DEF FirstPeriod
<1> HIDE DEF g
<1>7. g <= k
  BY <1>1, <1>6
<1> QED BY <1>6, <1>7 DEF g

\* And only one.
LEMMA FirstPeriodIs ==
  ASSUME NEW r \in Rules, NEW k \in DOMAIN r.periods, NEW t \in InPeriod(r, k),
         \A j \in 1..(k - 1) : t \notin InPeriod(r, j)
  PROVE  FirstPeriod(r, t) = k
<1> DEFINE g == FirstPeriod(r, t)
           n == Len(r.periods)
<1>1. n \in Nat /\ DOMAIN r.periods = 1..n
  BY RuleShape
<1>2. g \in DOMAIN r.periods /\ t \in InPeriod(r, g) /\ g <= k
  BY FirstPeriodExists
<1> HIDE DEF g, n
<1>3. g \in 1..(k - 1) \/ g = k
  BY <1>1, <1>2
<1> QED BY <1>2, <1>3 DEF g

LEMMA SelectedShape ==
  ASSUME NEW r \in Rules, NEW t \in Selected(r)
  PROVE  /\ t \in Nat /\ t >= r.start
         /\ r.until = NoLimit \/ t <= r.until
         /\ \E k \in DOMAIN r.periods : t \in InPeriod(r, k)
<1>1. PICK k \in DOMAIN r.periods : t \in InPeriod(r, k)
  BY DEF Selected
<1>2. t \in Nat
  BY <1>1, InPeriodNat
<1> QED BY <1>1, <1>2 DEF Selected

-----------------------------------------------------------------------------
(* What a state keeps. *)

\* What is known of the occurrences returned.
Returned(t) == \E i \in DOMAIN out : out[i] = t
Emitted ==
  /\ emitted = Len(out)
  /\ last = IF out = <<>> THEN None ELSE out[Len(out)]
  /\ \A i, j \in DOMAIN out : i < j => out[i] < out[j]
  /\ \A i \in DOMAIN out : out[i] \in Selected(rule)
  /\ \A t \in Selected(rule) : t <= last => Returned(t)

\* The buffer holds candidates of the current period, in order; every other
\* candidate met so far has been returned or never will be.
InBuffer(t) == \E i \in DOMAIN buffer : buffer[i] = t
Generated ==
  /\ InOrder(buffer)
  /\ buffer # <<>> => cursor > 0
  /\ \A i \in DOMAIN buffer : buffer[i] \in InPeriod(rule, cursor)
  /\ \A k \in 1..cursor : \A t \in InPeriod(rule, k) :
       t < rule.start \/ t <= last \/ Past(t) \/ (k = cursor /\ InBuffer(t))

\* How far the iterator has looked since the last occurrence.
Reach ==
  /\ cursor <= LastPeriod + Budget(rule)
  /\ ~done => cursor = LastPeriod + emptyPeriods /\ emptyPeriods <= Budget(rule)
  /\ calling => ~done /\ ~CountReached(rule, emitted)

\* What a finished iterator has returned.
Complete ==
  done => \A t \in Occurrences(rule) :
            Returned(t) \/ FirstPeriod(rule, t) > LastPeriod + Budget(rule)

Inv == TypeOK /\ Emitted /\ Generated /\ Reach /\ Complete

-----------------------------------------------------------------------------
(* What the invariant says of the next occurrence. *)

LEMMA LastLargest ==
  ASSUME TypeOK, Emitted
  PROVE  \A i \in DOMAIN out : out[i] <= last
<1>1. out \in Seq(Nat) /\ Len(out) \in Nat /\ DOMAIN out = 1..Len(out)
  BY DEF TypeOK
<1> SUFFICES ASSUME NEW i \in DOMAIN out PROVE out[i] <= last
  OBVIOUS
<1>2. out # <<>> /\ last = out[Len(out)] /\ Len(out) \in DOMAIN out
  BY <1>1 DEF Emitted
<1>3. i < Len(out) => out[i] < out[Len(out)]
  BY <1>2 DEF Emitted
<1>4. out[i] \in Nat /\ out[Len(out)] \in Nat /\ i \in Nat /\ i <= Len(out)
  BY <1>1, <1>2
<1> QED BY <1>1, <1>2, <1>3, <1>4

\* There are as many occurrences returned as instants among them.
LEMMA ReturnedCount ==
  ASSUME TypeOK, Emitted
  PROVE  LET S == {out[i] : i \in DOMAIN out}
         IN  IsFiniteSet(S) /\ Cardinality(S) = emitted
<1>1. out \in Seq(Nat) /\ DOMAIN out = 1..Len(out) /\ Len(out) \in Nat
  BY DEF TypeOK
<1>2. \A i, j \in DOMAIN out : out[i] = out[j] => i = j
  BY <1>1 DEF Emitted
<1> QED BY <1>1, <1>2, DistinctElements DEF Emitted

\* An occurrence still to come is either in the buffer or in a later period.
LEMMA StillToCome ==
  ASSUME Inv, NEW t \in Selected(rule), ~Returned(t),
         NEW k \in DOMAIN rule.periods, t \in InPeriod(rule, k)
  PROVE  t > last /\ (k > cursor \/ (k = cursor /\ InBuffer(t)))
<1>1. rule \in Rules /\ cursor \in Nat /\ last \in Nat \cup {None}
  BY DEF Inv, TypeOK
<1>2. t \in Nat /\ t >= rule.start /\ (rule.until = NoLimit \/ t <= rule.until)
  BY <1>1, SelectedShape
<1>3. last \in Int /\ rule.start \in Nat /\ rule.until \in Int
  BY <1>1, RuleShape DEF None, NoLimit
<1>4. t > last
  BY <1>2, <1>3 DEF Inv, Emitted
<1>5. ~Past(t)
  BY <1>2, <1>3 DEF Past
<1>6. k \in Nat /\ k >= 1
  BY <1>1, RuleShape
<1>7. CASE k <= cursor
  <2>1. k \in 1..cursor
    BY <1>1, <1>6, <1>7
  <2>2. t < rule.start \/ t <= last \/ Past(t) \/ (k = cursor /\ InBuffer(t))
    BY <2>1 DEF Inv, Generated
  <2>3. k = cursor /\ InBuffer(t)
    BY <2>2, <1>2, <1>3, <1>4, <1>5
  <2> QED BY <2>3, <1>4
<1> QED BY <1>1, <1>4, <1>6, <1>7

\* The head of the buffer is before everything still to come.
LEMMA HeadFirst ==
  ASSUME Inv, buffer # <<>>, NEW t \in Selected(rule), ~Returned(t)
  PROVE  Head(buffer) <= t
<1>1. rule \in Rules /\ cursor \in 0..Len(rule.periods) /\ buffer \in Seq(Nat)
  BY DEF Inv, TypeOK
<1>2. PICK k \in DOMAIN rule.periods : t \in InPeriod(rule, k)
  BY <1>1, SelectedShape
<1>3. k > cursor \/ (k = cursor /\ InBuffer(t))
  BY <1>2, StillToCome
<1>4. Head(buffer) = buffer[1] /\ 1 \in DOMAIN buffer /\ DOMAIN buffer = 1..Len(buffer)
        /\ buffer[1] \in Nat /\ Len(buffer) \in Nat
  BY <1>1
<1>5. CASE k > cursor
  <2>1. Head(buffer) \in InPeriod(rule, cursor) /\ cursor > 0
    BY <1>4 DEF Inv, Generated
  <2>2. cursor \in DOMAIN rule.periods
    BY <1>1, <2>1, RuleShape
  <2> QED BY <1>1, <1>2, <1>5, <2>1, <2>2, PeriodsInOrder
<1>6. CASE InBuffer(t)
  <2>1. PICK i \in DOMAIN buffer : buffer[i] = t
    BY <1>6 DEF InBuffer
  <2>2. i = 1 \/ 1 < i
    BY <1>4
  <2>3. 1 < i => buffer[1] <= buffer[i]
    BY <1>4 DEF Inv, Generated, InOrder
  <2> QED BY <2>1, <2>2, <2>3, <1>4
<1> QED BY <1>3, <1>5, <1>6

\* Once COUNT is reached every occurrence has been returned.
LEMMA CountReachedComplete ==
  ASSUME Inv, CountReached(rule, emitted), NEW t \in Occurrences(rule)
  PROVE  Returned(t)
<1> SUFFICES ASSUME ~Returned(t) PROVE FALSE
  OBVIOUS
<1> DEFINE R == {out[i] : i \in DOMAIN out}
           B == {u \in Selected(rule) : u < t}
<1>1. rule \in Rules /\ t \in Selected(rule)
  BY DEF Inv, TypeOK, Occurrences
<1>2. t \in Nat /\ emitted \in Nat /\ last \in Int /\ rule.count \in Int
  BY SMTT(30), <1>1, SelectedShape, RuleShape DEF Inv, TypeOK, None, NoLimit
<1>3. t > last
  BY <1>1, <1>2 DEF Inv, Emitted
<1>4. ASSUME NEW i \in DOMAIN out PROVE out[i] \in B
  <2>1. out[i] \in Selected(rule) /\ out[i] <= last
    BY LastLargest DEF Inv, Emitted
  <2>2. out[i] \in Nat
    BY <1>1, <2>1, SelectedShape
  <2> QED BY <1>2, <1>3, <2>1, <2>2
<1>5. R \subseteq B
  BY <1>4
<1>6. B \in SUBSET Nat /\ \A u \in B : u <= t
  <2> SUFFICES ASSUME NEW u \in B PROVE u \in Nat /\ u <= t
    OBVIOUS
  <2>1. u \in Selected(rule) /\ u < t
    OBVIOUS
  <2>2. u \in Nat
    BY <1>1, <2>1, SelectedShape
  <2> QED BY <1>2, <2>1, <2>2
<1>7. IsFiniteSet(B)
  BY <1>2, <1>6, FS_BoundedSetOfNaturals
<1>8. IsFiniteSet(R) /\ Cardinality(R) = emitted
  BY ReturnedCount DEF Inv
<1>9. Cardinality(B) < rule.count /\ emitted >= rule.count
  BY DEF Occurrences, CountReached
<1> HIDE DEF R, B
<1>10. Cardinality(R) <= Cardinality(B) /\ Cardinality(B) \in Nat
  BY <1>5, <1>7, FS_Subset, FS_CardinalityType
<1> QED BY <1>2, <1>8, <1>9, <1>10

\* A head that Emit takes is the next occurrence.
LEMMA HeadIsNext ==
  ASSUME Inv, calling, buffer # <<>>, ~Passed(Head(buffer)), ~Past(Head(buffer))
  PROVE  /\ Head(buffer) \in Nat /\ Head(buffer) > last
         /\ Head(buffer) \in Occurrences(rule) /\ ~Returned(Head(buffer))
         /\ \A t \in Selected(rule) : t < Head(buffer) => Returned(t)
         /\ FirstPeriod(rule, Head(buffer)) = cursor
<1> DEFINE h == Head(buffer)
           R == {out[i] : i \in DOMAIN out}
           B == {u \in Selected(rule) : u < h}
<1>1. /\ rule \in Rules /\ cursor \in 0..Len(rule.periods) /\ buffer \in Seq(Nat)
      /\ last \in Nat \cup {None} /\ rule.periods \in Seq(Seq(Nat))
      /\ rule.start \in Nat /\ rule.until \in Nat \cup {NoLimit} /\ rule.count \in Nat \cup {NoLimit}
  BY RuleShape DEF Inv, TypeOK
<1>2. h \in Nat /\ h = buffer[1] /\ 1 \in DOMAIN buffer
  BY <1>1
<1>3. h \in InPeriod(rule, cursor) /\ cursor \in DOMAIN rule.periods
  BY <1>1, <1>2 DEF Inv, Generated
<1> HIDE DEF h
<1>4. h >= rule.start /\ h > last /\ (rule.until = NoLimit \/ h <= rule.until)
  BY <1>1, <1>2 DEF Passed, Past, None, NoLimit, h
<1>5. h \in Selected(rule)
  BY <1>3, <1>4 DEF Selected
<1>6. \A i \in DOMAIN out : out[i] <= last /\ out[i] \in Nat
  BY LastLargest DEF Inv, TypeOK
<1>7. ~Returned(h)
  BY <1>2, <1>4, <1>6, <1>1 DEF Returned, None
<1>8. ASSUME NEW t \in Selected(rule), t < h PROVE Returned(t)
  <2>1. t \in Nat
    BY <1>1, SelectedShape
  <2>2. ~Returned(t) => h <= t
    BY HeadFirst DEF h
  <2> QED BY <1>2, <1>8, <2>1, <2>2
<1>9. R = B
  <2>1. \A i \in DOMAIN out : out[i] \in Selected(rule) /\ out[i] < h
    BY <1>1, <1>2, <1>4, <1>6 DEF Inv, Emitted, None
  <2> QED BY <1>8, <2>1 DEF Returned
<1>10. Cardinality(B) = emitted /\ emitted \in Nat
  BY <1>9, ReturnedCount DEF Inv, TypeOK
<1>11. rule.count = NoLimit \/ emitted < rule.count
  BY <1>1, <1>10 DEF Inv, Reach, CountReached, NoLimit
<1>12. h \in Occurrences(rule)
  BY <1>5, <1>10, <1>11 DEF Occurrences
<1>13. ASSUME NEW j \in 1..(cursor - 1), h \in InPeriod(rule, j)
       PROVE  FALSE
  <2>1. j \in DOMAIN rule.periods /\ j \in Nat /\ j < cursor /\ cursor \in Nat
    BY SMTT(30), <1>1, <1>3
  <2> QED BY <1>5, <1>7, <1>13, <2>1, StillToCome
<1>14. FirstPeriod(rule, h) = cursor
  BY <1>1, <1>3, <1>13, FirstPeriodIs
<1> QED BY <1>2, <1>4, <1>7, <1>8, <1>12, <1>14 DEF h

-----------------------------------------------------------------------------
(* Type correctness. *)

LEMMA TypeSteps == (Init => TypeOK) /\ (TypeOK /\ [Next]_vars => TypeOK')
<1>1. Init => TypeOK
  <2> SUFFICES ASSUME Init PROVE TypeOK
    OBVIOUS
  <2>1. rule.periods \in Seq(Seq(Nat))
    BY RuleShape DEF Init
  <2>2. 0 \in 0..Len(rule.periods)
    BY <2>1
  <2>3. done \in BOOLEAN /\ calling \in BOOLEAN
    BY DEF Init
  <2>4. buffer \in Seq(Nat) /\ out \in Seq(Nat)
    BY DEF Init
  <2> QED BY <2>2, <2>3, <2>4 DEF Init, TypeOK
<1>2. TypeOK /\ [Next]_vars => TypeOK'
  <2> SUFFICES ASSUME TypeOK, [Next]_vars PROVE TypeOK'
    OBVIOUS
  <2> USE DEF TypeOK, cfgVars, genVars, emitVars
  <2>0. done' \in BOOLEAN /\ calling' \in BOOLEAN
    BY DEF Next, Loop, Call, Skip, StopAtUntil, Emit, Refill, GiveUp, ReturnNone, vars
  <2>1. CASE Call
    BY <2>0, <2>1 DEF Call
  <2>2. CASE Skip
    <3>1. Tail(buffer) \in Seq(Nat)
      BY <2>2 DEF Skip
    <3> QED BY <2>0, <2>2, <3>1 DEF Skip
  <2>3. CASE StopAtUntil
    <3>1. Tail(buffer) \in Seq(Nat)
      BY <2>3 DEF StopAtUntil
    <3> QED BY <2>0, <2>3, <3>1 DEF StopAtUntil, ReturnNone
  <2>4. CASE Emit
    <3>1. Head(buffer) \in Nat /\ Tail(buffer) \in Seq(Nat)
      BY <2>4 DEF Emit
    <3>2. out' \in Seq(Nat)
      BY <2>4, <3>1 DEF Emit
    <3> QED BY <2>0, <2>4, <3>1, <3>2 DEF Emit
  <2>5. CASE Refill
    <3>1. rule.periods \in Seq(Seq(Nat)) /\ cursor + 1 \in DOMAIN rule.periods
      BY <2>5, RuleShape DEF Refill
    <3>2. buffer' \in Seq(Nat)
      BY <2>5, <3>1, Selection DEF Refill
    <3>3. cursor' \in 0..Len(rule'.periods) /\ emptyPeriods' \in Nat
      BY <2>5, <3>1 DEF Refill
    <3> QED BY <2>0, <2>5, <3>2, <3>3 DEF Refill
  <2>6. CASE GiveUp
    <3>1. emptyPeriods' \in Nat
      BY <2>6 DEF GiveUp
    <3> QED BY <2>0, <2>6, <3>1 DEF GiveUp, ReturnNone
  <2>7. CASE UNCHANGED vars
    BY <2>0, <2>7 DEF vars
  <2> QED BY <2>1, <2>2, <2>3, <2>4, <2>5, <2>6, <2>7 DEF Next, Loop
<1> QED BY <1>1, <1>2

\* The iterator's state stays well formed.
THEOREM TypeCorrect == Spec => []TypeOK
BY TypeSteps, PTL DEF Spec

-----------------------------------------------------------------------------
(* The invariant is kept, part by part. *)

LEMMA TailShape ==
  ASSUME NEW s \in Seq(Nat), s # <<>>, InOrder(s)
  PROVE  /\ InOrder(Tail(s))
         /\ \A i \in DOMAIN Tail(s) : i + 1 \in DOMAIN s /\ Tail(s)[i] = s[i + 1]
         /\ \A i \in DOMAIN s :
              s[i] = Head(s) \/ \E j \in DOMAIN Tail(s) : Tail(s)[j] = s[i]
<1>1. /\ Tail(s) \in Seq(Nat) /\ Len(Tail(s)) = Len(s) - 1 /\ Len(s) \in Nat
      /\ DOMAIN s = 1..Len(s) /\ DOMAIN Tail(s) = 1..(Len(s) - 1)
      /\ \A i \in 1..(Len(s) - 1) : Tail(s)[i] = s[i + 1]
  OBVIOUS
<1>2. InOrder(Tail(s))
  <2> SUFFICES ASSUME NEW i \in DOMAIN Tail(s), NEW j \in DOMAIN Tail(s), i < j
               PROVE  Tail(s)[i] <= Tail(s)[j]
    BY DEF InOrder
  <2>1. i + 1 \in DOMAIN s /\ j + 1 \in DOMAIN s /\ i + 1 < j + 1
    BY SMTT(30), <1>1
  <2>2. s[i + 1] <= s[j + 1]
    BY <2>1 DEF InOrder
  <2> QED BY <1>1, <2>2
<1>3. ASSUME NEW i \in DOMAIN s, s[i] # Head(s)
      PROVE  \E j \in DOMAIN Tail(s) : Tail(s)[j] = s[i]
  <2>1. i # 1
    BY <1>1, <1>3
  <2>2. i - 1 \in DOMAIN Tail(s) /\ Tail(s)[i - 1] = s[i]
    BY <1>1, <2>1
  <2> QED BY <2>2
<1>4. \A i \in DOMAIN Tail(s) : i + 1 \in DOMAIN s /\ Tail(s)[i] = s[i + 1]
  BY <1>1
<1> QED BY <1>2, <1>3, <1>4

LEMMA EmittedStep == ASSUME Inv, [Next]_vars PROVE Emitted'
<1>1. CASE Emit
  <2> DEFINE h == Head(buffer)
  <2>0. buffer # <<>> /\ out' = Append(out, h) /\ last' = h /\ emitted' = emitted + 1 /\ rule' = rule
          /\ calling /\ ~Passed(h) /\ ~Past(h)
    BY <1>1 DEF Emit, cfgVars
  <2>1. /\ h \in Nat /\ h > last /\ h \in Occurrences(rule)
        /\ \A t \in Selected(rule) : t < h => Returned(t)
    BY <2>0, HeadIsNext
  <2> HIDE DEF h
  <2>2. out \in Seq(Nat) /\ Len(out) \in Nat /\ DOMAIN out = 1..Len(out) /\ rule \in Rules
          /\ last \in Int
    BY DEF Inv, TypeOK, None
  <2>3. /\ out' \in Seq(Nat) /\ Len(out') = Len(out) + 1 /\ DOMAIN out' = 1..(Len(out) + 1)
        /\ out'[Len(out) + 1] = h /\ \A i \in 1..Len(out) : out'[i] = out[i]
        /\ out' # <<>>
    BY <2>0, <2>1, <2>2
  <2>4. \A i \in DOMAIN out : out[i] < h /\ out[i] \in Nat
    BY <2>1, <2>2, LastLargest DEF Inv
  <2>5. emitted' = Len(out') /\ last' = out'[Len(out')]
    BY <2>0, <2>3 DEF Inv, Emitted
  <2>6. ASSUME NEW i \in DOMAIN out', NEW j \in DOMAIN out', i < j
        PROVE  out'[i] < out'[j]
    <3>1. i \in DOMAIN out
      BY <2>2, <2>3, <2>6
    <3>2. CASE j = Len(out) + 1
      BY <2>2, <2>3, <2>4, <3>1, <3>2
    <3>3. CASE j # Len(out) + 1
      <4>1. j \in DOMAIN out
        BY <2>2, <2>3, <3>3
      <4>2. out[i] < out[j]
        BY <2>6, <3>1, <4>1 DEF Inv, Emitted
      <4> QED BY <2>2, <2>3, <3>1, <4>1, <4>2
    <3> QED BY <3>2, <3>3
  <2>7. ASSUME NEW i \in DOMAIN out' PROVE out'[i] \in Selected(rule)
    <3>1. h \in Selected(rule)
      BY <2>1 DEF Occurrences
    <3>2. i = Len(out) + 1 \/ i \in DOMAIN out
      BY <2>2, <2>3
    <3>3. \A k \in DOMAIN out : out[k] \in Selected(rule)
      BY DEF Inv, Emitted
    <3> QED BY <2>2, <2>3, <3>1, <3>2, <3>3
  <2>8. ASSUME NEW t \in Selected(rule), t <= h
        PROVE  \E i \in DOMAIN out' : out'[i] = t
    <3>1. t \in Nat
      BY <2>2, SelectedShape
    <3>2. CASE t = h
      BY <2>2, <2>3, <3>2
    <3>3. CASE t < h
      <4>1. PICK i \in DOMAIN out : out[i] = t
        BY <2>1, <3>3 DEF Returned
      <4> QED BY <2>2, <2>3, <4>1
    <3> QED BY <2>1, <2>8, <3>1, <3>2, <3>3
  <2> QED BY <2>0, <2>3, <2>5, <2>6, <2>7, <2>8 DEF Emitted, Returned
<1>2. CASE ~Emit
  <2>1. rule' = rule /\ emitted' = emitted /\ last' = last /\ out' = out
    BY <1>2 DEF Next, Loop, Call, Skip, StopAtUntil, Refill, GiveUp, ReturnNone,
                vars, cfgVars, emitVars
  <2> QED BY <2>1 DEF Inv, Emitted, Returned
<1> QED BY <1>1, <1>2

LEMMA GeneratedStep == ASSUME Inv, [Next]_vars PROVE Generated'
<1>0. /\ rule \in Rules /\ buffer \in Seq(Nat) /\ cursor \in Nat /\ last \in Int
      /\ rule.periods \in Seq(Seq(Nat)) /\ cursor \in 0..Len(rule.periods)
      /\ rule.start \in Nat /\ rule.until \in Int
  BY RuleShape DEF Inv, TypeOK, None, NoLimit
<1>1. ASSUME buffer # <<>>, buffer' = Tail(buffer), rule' = rule, cursor' = cursor,
             last' \in Int, last' >= last,
             Head(buffer) < rule.start \/ Head(buffer) <= last' \/ Past(Head(buffer))
      PROVE  Generated'
  <2>1. /\ InOrder(buffer') /\ cursor > 0
        /\ \A i \in DOMAIN buffer' : i + 1 \in DOMAIN buffer /\ buffer'[i] = buffer[i + 1]
        /\ \A t : InBuffer(t) => t = Head(buffer) \/ \E i \in DOMAIN buffer' : buffer'[i] = t
    BY <1>0, <1>1, TailShape DEF Inv, Generated, InBuffer
  <2>2. \A i \in DOMAIN buffer' : buffer'[i] \in InPeriod(rule, cursor)
    BY <2>1 DEF Inv, Generated
  <2>3. ASSUME NEW k \in 1..cursor, NEW t \in InPeriod(rule, k)
        PROVE  t < rule.start \/ t <= last' \/ Past(t)
                 \/ (k = cursor /\ \E i \in DOMAIN buffer' : buffer'[i] = t)
    <3>0. k \in DOMAIN rule.periods
      BY <1>0
    <3>1. t \in Nat
      BY <1>0, <3>0, InPeriodNat
    <3>2. t < rule.start \/ t <= last \/ Past(t) \/ (k = cursor /\ InBuffer(t))
      BY DEF Inv, Generated
    <3>3. t <= last => t <= last'
      BY <1>0, <1>1, <3>1
    <3>4. t = Head(buffer) => t < rule.start \/ t <= last' \/ Past(t)
      BY <1>1
    <3> QED BY <2>1, <3>2, <3>3, <3>4
  <2>4. \A t : Past(t)' <=> Past(t)
    BY <1>1 DEF Past
  <2>5. \A k \in 1..cursor : \A t \in InPeriod(rule, k) :
          t < rule.start \/ t <= last' \/ Past(t)' \/ (k = cursor /\ InBuffer(t)')
    BY <2>3, <2>4 DEF InBuffer
  <2> QED BY <1>1, <2>1, <2>2, <2>5 DEF Generated
<1>2. CASE Skip
  <2>1. Head(buffer) < rule.start \/ Head(buffer) <= last
    BY <1>2 DEF Skip, Passed
  <2> QED BY <1>0, <1>1, <1>2, <2>1 DEF Skip, cfgVars, emitVars
<1>3. CASE StopAtUntil
  BY <1>0, <1>1, <1>3 DEF StopAtUntil, ReturnNone, cfgVars, emitVars
<1>4. CASE Emit
  <2>1. Head(buffer) \in Nat /\ Head(buffer) > last
    BY <1>4, HeadIsNext DEF Emit
  <2> QED BY <1>0, <1>1, <1>4, <2>1 DEF Emit, cfgVars
<1>5. CASE Refill
  <2>0. /\ rule' = rule /\ last' = last /\ buffer = <<>> /\ cursor' = cursor + 1
        /\ buffer' = SelectPositions(rule, rule.periods[cursor + 1])
        /\ cursor + 1 \in DOMAIN rule.periods
    BY <1>0, <1>5 DEF Refill, cfgVars, emitVars
  <2>1. /\ InOrder(buffer')
        /\ \A i \in DOMAIN buffer' : buffer'[i] \in InPeriod(rule, cursor + 1)
        /\ \A t \in InPeriod(rule, cursor + 1) : \E i \in DOMAIN buffer' : buffer'[i] = t
    BY ZenonT(40), <1>0, <2>0, Selection
  <2>2. ASSUME NEW k \in 1..cursor', NEW t \in InPeriod(rule, k)
        PROVE  t < rule.start \/ t <= last \/ Past(t)
                 \/ (k = cursor' /\ \E i \in DOMAIN buffer' : buffer'[i] = t)
    <3>1. CASE k = cursor'
      BY <2>0, <2>1, <3>1
    <3>2. CASE k # cursor'
      <4>1. k \in 1..cursor
        BY <1>0, <2>0, <3>2
      <4>2. ~InBuffer(t)
        BY <2>0 DEF InBuffer
      <4> QED BY <4>1, <4>2 DEF Inv, Generated
    <3> QED BY <3>1, <3>2
  <2>3. \A t : Past(t)' <=> Past(t)
    BY <2>0 DEF Past
  <2>4. \A k \in 1..cursor' : \A t \in InPeriod(rule, k) :
          t < rule.start \/ t <= last \/ Past(t)' \/ (k = cursor' /\ InBuffer(t)')
    BY <2>2, <2>3 DEF InBuffer
  <2>5. cursor' > 0
    BY <1>0, <2>0
  <2> QED BY <2>0, <2>1, <2>4, <2>5 DEF Generated
<1>6. CASE Call \/ GiveUp \/ UNCHANGED vars
  <2>1. rule' = rule /\ cursor' = cursor /\ buffer' = buffer /\ last' = last
    BY <1>6 DEF Call, GiveUp, ReturnNone, vars, cfgVars, genVars, emitVars
  <2> QED BY <2>1 DEF Inv, Generated, InBuffer, Past
<1> QED BY <1>2, <1>3, <1>4, <1>5, <1>6 DEF Next, Loop

\* The last occurrence returned has a first period.
LEMMA LastPeriodNat == ASSUME Inv PROVE LastPeriod \in Nat
<1>1. CASE out = <<>>
  BY <1>1 DEF LastPeriod
<1>2. CASE out # <<>>
  <2>1. rule \in Rules /\ out \in Seq(Nat) /\ rule.periods \in Seq(Seq(Nat))
    BY RuleShape DEF Inv, TypeOK
  <2>2. Len(out) \in DOMAIN out
    BY <2>1, <1>2
  <2>3. last \in Selected(rule)
    BY <1>2, <2>2 DEF Inv, Emitted
  <2>4. PICK k \in DOMAIN rule.periods : last \in InPeriod(rule, k)
    BY <2>1, <2>3, SelectedShape
  <2>5. FirstPeriod(rule, last) \in DOMAIN rule.periods
    BY <2>1, <2>4, FirstPeriodExists
  <2> QED BY <1>2, <2>1, <2>5 DEF LastPeriod
<1> QED BY <1>1, <1>2

LEMMA ReachStep == ASSUME Inv, [Next]_vars PROVE Reach'
<1>0. /\ rule \in Rules /\ cursor \in Nat /\ emptyPeriods \in Nat /\ emitted \in Nat
      /\ LastPeriod \in Nat /\ Budget(rule) \in Nat /\ Budget(rule) >= 1
  BY LastPeriodNat, RuleShape DEF Inv, TypeOK
<1>1. CASE Emit
  <2>1. FirstPeriod(rule, Head(buffer)) = cursor
    BY <1>1, HeadIsNext DEF Emit
  <2>2. out' # <<>>
    <3>1. out \in Seq(Nat) /\ Head(buffer) \in Nat
      BY <1>1, HeadIsNext DEF Emit, Inv, TypeOK
    <3>2. out' = Append(out, Head(buffer))
      BY <1>1 DEF Emit
    <3> QED BY <3>1, <3>2
  <2>3. LastPeriod' = cursor /\ cursor' = cursor /\ rule' = rule /\ emptyPeriods' = 0 /\ ~calling'
    BY <1>1, <2>1, <2>2 DEF Emit, LastPeriod, cfgVars
  <2>4. cursor' <= LastPeriod' + Budget(rule') /\ cursor' = LastPeriod' + emptyPeriods'
          /\ emptyPeriods' <= Budget(rule')
    BY <1>0, <2>3
  <2> QED BY <2>3, <2>4 DEF Reach
<1>2. CASE ~Emit
  <2>1. rule' = rule /\ out' = out /\ last' = last /\ emitted' = emitted
    BY <1>2 DEF Next, Loop, Call, Skip, StopAtUntil, Refill, GiveUp, ReturnNone,
                vars, cfgVars, emitVars
  <2>2. LastPeriod' = LastPeriod
    BY <2>1 DEF LastPeriod
  <2>3. CASE Refill
    <3>1. calling /\ emptyPeriods < Budget(rule) /\ emptyPeriods' = emptyPeriods + 1
            /\ cursor' = cursor + 1 /\ done' = done /\ calling' = calling
      BY <2>3 DEF Refill
    <3>2. ~done /\ ~CountReached(rule, emitted) /\ cursor = LastPeriod + emptyPeriods
      BY <3>1 DEF Inv, Reach
    <3>3. cursor' = LastPeriod' + emptyPeriods' /\ emptyPeriods' <= Budget(rule)
            /\ cursor' <= LastPeriod' + Budget(rule)
      BY <1>0, <2>2, <3>1, <3>2
    <3> QED BY <2>1, <3>1, <3>2, <3>3 DEF Reach
  <2>4. CASE StopAtUntil \/ GiveUp
    <3>1. done' /\ ~calling' /\ cursor' = cursor
      BY <2>4 DEF StopAtUntil, GiveUp, ReturnNone
    <3> QED BY <2>1, <2>2, <3>1 DEF Inv, Reach
  <2>5. CASE Call
    <3>1. cursor' = cursor /\ emptyPeriods' = emptyPeriods
      BY <2>5 DEF Call, genVars
    <3>2. CASE done \/ CountReached(rule, emitted)
      <4>1. done' /\ ~calling'
        BY <2>5, <3>2 DEF Call
      <4> QED BY <2>1, <2>2, <3>1, <4>1 DEF Inv, Reach
    <3>3. CASE ~(done \/ CountReached(rule, emitted))
      <4>1. done' = done
        BY <2>5, <3>3 DEF Call
      <4> QED BY <2>1, <2>2, <3>1, <3>3, <4>1 DEF Inv, Reach
    <3> QED BY <3>2, <3>3
  <2>6. CASE Skip \/ UNCHANGED vars
    <3>1. cursor' = cursor /\ emptyPeriods' = emptyPeriods /\ done' = done /\ calling' = calling
      BY <2>6 DEF Skip, vars, genVars
    <3> QED BY <2>1, <2>2, <3>1 DEF Inv, Reach
  <2> QED BY <1>2, <2>3, <2>4, <2>5, <2>6 DEF Next, Loop
<1> QED BY <1>1, <1>2

LEMMA CompleteStep == ASSUME Inv, [Next]_vars PROVE Complete'
<1>0. /\ rule \in Rules /\ cursor \in 0..Len(rule.periods) /\ emptyPeriods \in Nat
      /\ rule.periods \in Seq(Seq(Nat)) /\ buffer \in Seq(Nat) /\ rule.until \in Int
      /\ LastPeriod \in Nat /\ Budget(rule) \in Nat
  BY LastPeriodNat, RuleShape DEF Inv, TypeOK, NoLimit
<1>1. CASE Emit
  <2>1. ~done'
    BY <1>1 DEF Emit, Inv, Reach
  <2> QED BY <2>1 DEF Complete
<1>2. CASE ~Emit
  <2>1. rule' = rule /\ out' = out /\ last' = last
    BY <1>2 DEF Next, Loop, Call, Skip, StopAtUntil, Refill, GiveUp, ReturnNone,
                vars, cfgVars, emitVars
  <2>2. LastPeriod' = LastPeriod /\ \A t : Returned(t)' <=> Returned(t)
    BY <2>1 DEF LastPeriod, Returned
  <2>3. CASE done' = done
    BY <2>1, <2>2, <2>3 DEF Inv, Complete
  <2> SUFFICES ASSUME done' # done, NEW t \in Occurrences(rule), ~Returned(t)
               PROVE  FirstPeriod(rule, t) > LastPeriod + Budget(rule)
    BY <2>1, <2>2, <2>3 DEF Complete
  <2>4. t \in Selected(rule) /\ \E k \in DOMAIN rule.periods : t \in InPeriod(rule, k)
    BY <1>0, SelectedShape DEF Occurrences
  <2> DEFINE f == FirstPeriod(rule, t)
  <2>5. f \in DOMAIN rule.periods /\ t \in InPeriod(rule, f)
    BY <1>0, <2>4, FirstPeriodExists
  <2> HIDE DEF f
  <2>6. f > cursor \/ (f = cursor /\ InBuffer(t))
    BY <2>4, <2>5, StillToCome
  <2>7. f \in Nat /\ f <= Len(rule.periods)
    BY <1>0, <2>5
  <2>8. CASE Call
    <3>1. done \/ CountReached(rule, emitted)
      BY <2>8 DEF Call
    <3>2. CASE done
      BY <3>2 DEF Inv, Complete
    <3> QED BY <3>1, <3>2, CountReachedComplete
  <2>9. CASE StopAtUntil
    <3>1. Head(buffer) <= t
      BY <2>4, <2>9, HeadFirst DEF StopAtUntil
    <3>2. Head(buffer) \in Nat /\ rule.until # NoLimit /\ Head(buffer) > rule.until
      BY <1>0, <2>9 DEF StopAtUntil, Past
    <3>3. t \in Nat /\ t <= rule.until
      BY <1>0, <2>4, <3>2, SelectedShape
    <3> QED BY <1>0, <3>1, <3>2, <3>3
  <2>10. CASE GiveUp
    <3>1. ~InBuffer(t) /\ ~done
      BY <2>10 DEF GiveUp, InBuffer, Inv, Reach
    <3>2. f > cursor
      BY <2>6, <3>1
    <3>3. emptyPeriods >= Budget(rule)
      BY <1>0, <2>7, <2>10, <3>2 DEF GiveUp
    <3>4. cursor = LastPeriod + emptyPeriods
      BY <3>1 DEF Inv, Reach
    <3> QED BY <1>0, <2>7, <3>2, <3>3, <3>4 DEF f
  <2> QED BY <1>2, <2>8, <2>9, <2>10 DEF Next, Loop, Skip, Refill, vars
<1> QED BY <1>1, <1>2

LEMMA Invariance == Spec => []Inv
<1>1. Init => Inv
  <2> SUFFICES ASSUME Init PROVE Inv
    OBVIOUS
  <2>1. TypeOK
    BY TypeSteps
  <2>2. rule \in Rules /\ Budget(rule) \in Nat
    BY RuleShape DEF Init
  <2>3. \A t \in Selected(rule) : t \in Nat
    BY <2>2, SelectedShape
  <2>4. Emitted
    BY <2>3 DEF Init, Emitted, None
  <2>5. Generated
    BY DEF Init, Generated, InOrder
  <2>6. LastPeriod = 0
    BY DEF Init, LastPeriod
  <2>7. Reach /\ Complete
    BY <2>2, <2>6 DEF Init, Reach, Complete
  <2> QED BY <2>1, <2>4, <2>5, <2>7 DEF Inv
<1>2. Inv /\ [Next]_vars => Inv'
  BY TypeSteps, EmittedStep, GeneratedStep, ReachStep, CompleteStep DEF Inv
<1> QED BY <1>1, <1>2, PTL DEF Spec

-----------------------------------------------------------------------------
(* What the iterator promises. *)

\* No call looks further past the last occurrence than max_empty_periods
\* allows, and a finished iterator has left out none within that reach.
THEOREM BudgetKeptExactly == Spec => []BudgetExact
<1>1. Inv => BudgetExact
  BY DEF Inv, Reach, Complete, Returned, BudgetExact
<1> QED BY <1>1, Invariance, PTL

\* The iterator implements the stream of its rule's occurrences: every call
\* returns the least one not yet returned, or none ever again.
THEOREM IteratorIsStream == Spec => IsStream
<1>1. Init => Stream!Init
  <2> SUFFICES ASSUME Init PROVE Stream!Init
    OBVIOUS
  <2>1. \A t \in Occurrences(rule) : t \in Nat
    BY SelectedShape DEF Init, Occurrences
  <2> QED BY <2>1 DEF Init, Stream!Init
<1>2. Inv /\ [Next]_vars => [Stream!Next]_(Stream!vars)
  <2> SUFFICES ASSUME Inv, [Next]_vars
               PROVE  [Stream!Next]_(Stream!vars)
    OBVIOUS
  <2>1. CASE Emit
    <3>1. ~done /\ rule' = rule /\ done' = done /\ out' = Append(out, Head(buffer))
      BY <2>1 DEF Emit, cfgVars, Inv, Reach
    <3>2. Head(buffer) \in Stream!Pending
      BY <2>1, HeadIsNext DEF Emit, Stream!Pending, Returned
    <3>3. ASSUME NEW u \in Stream!Pending PROVE Head(buffer) <= u
      <4>1. u \in Selected(rule) /\ ~Returned(u)
        BY DEF Stream!Pending, Occurrences, Returned
      <4> QED BY <2>1, <4>1, HeadFirst DEF Emit
    <3>4. Stream!Deliver
      BY <3>1, <3>2, <3>3 DEF Stream!Deliver
    <3> QED BY <3>4 DEF Stream!Next
  <2>2. CASE ~Emit
    <3>1. rule' = rule /\ out' = out
      BY <2>2 DEF Next, Loop, Call, Skip, StopAtUntil, Refill, GiveUp, ReturnNone,
                  vars, cfgVars, emitVars
    <3>2. CASE done' = done
      BY <3>1, <3>2 DEF Stream!vars
    <3>3. CASE done' # done
      <4>1. done' = TRUE
        BY <2>2, <3>3 DEF Next, Loop, Call, Skip, StopAtUntil, Refill, GiveUp, ReturnNone, vars
      <4> QED BY <3>1, <4>1 DEF Stream!Next, Stream!Finish
    <3> QED BY <3>2, <3>3
  <2> QED BY <2>1, <2>2
<1> QED BY <1>1, <1>2, Invariance, PTL DEF Spec, IsStream, Stream!Spec
=============================================================================
