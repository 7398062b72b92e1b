-------------------------- MODULE VTimezoneProofs --------------------------
(***************************************************************************)
(* Proofs about VTimezone, ZonedExpansion and ZoneGeneration.              *)
(***************************************************************************)
EXTENDS ZonedExpansion, ZoneGeneration, ProofLemmas

-----------------------------------------------------------------------------
(* Counting. *)

\* Of a set of places that is closed downwards, its size is the last.
LEMMA CountUpTo ==
  ASSUME NEW N \in Nat, NEW P \in SUBSET (1..N),
         \A j, k \in 1..N : j <= k /\ k \in P => j \in P
  PROVE  /\ Cardinality(P) \in 0..N
         /\ \A k \in 1..N : k \in P <=> k <= Cardinality(P)
<1>1. CASE P = {}
  <2>1. Cardinality(P) = 0
    BY <1>1, FS_EmptySet
  <2> QED BY <1>1, <2>1
<1>2. CASE P # {}
  <2>1. P \in SUBSET Nat
    OBVIOUS
  <2>2. \A n \in P : n <= N
    OBVIOUS
  <2>3. PICK m \in P : \A n \in P : n <= m
    BY <1>2, <2>1, <2>2, Greatest
  <2>4. m \in 1..N
    OBVIOUS
  <2>5. P \subseteq 1..m
    BY <2>3
  <2>6. 1..m \subseteq P
    BY <2>4
  <2>7. P = 1..m
    BY <2>5, <2>6
  <2>8. Cardinality(P) = m
    BY <2>4, <2>7, FS_Interval
  <2> QED BY <2>4, <2>7, <2>8
<1> QED BY <1>1, <1>2

-----------------------------------------------------------------------------
(* The order of events. *)

Event == [utc : Int, obs : Int]
Place(S, e) == Cardinality({f \in S : Earlier(f, e)})

\* Of two events, one comes first.
LEMMA Linear ==
  /\ \A e, f \in Event : e = f \/ Earlier(e, f) \/ Earlier(f, e)
  /\ \A e \in Event : ~Earlier(e, e)
  /\ \A e, f, g \in Event : Earlier(e, f) /\ Earlier(f, g) => Earlier(e, g)
BY DEF Event, Earlier

LEMMA PlaceType ==
  ASSUME NEW S \in SUBSET Event, IsFiniteSet(S), NEW e \in S
  PROVE  Place(S, e) \in 0..(Cardinality(S) - 1)
<1> DEFINE T == {f \in S : Earlier(f, e)}
<1>1. T \in SUBSET S /\ e \notin T
  BY Linear
<1>2. IsFiniteSet(T) /\ Cardinality(T) <= Cardinality(S) /\ Cardinality(T) # Cardinality(S)
  BY <1>1, FS_Subset
<1>3. Cardinality(T) \in Nat /\ Cardinality(S) \in Nat
  BY <1>2, FS_CardinalityType
<1>4. Place(S, e) = Cardinality(T)
  BY DEF Place
<1> HIDE DEF T
<1> QED BY <1>2, <1>3, <1>4

LEMMA PlaceGrows ==
  ASSUME NEW S \in SUBSET Event, IsFiniteSet(S), NEW e \in S, NEW f \in S, Earlier(e, f)
  PROVE  Place(S, e) < Place(S, f)
<1> DEFINE T == {g \in S : Earlier(g, e)}
           U == {g \in S : Earlier(g, f)}
<1>1. T \in SUBSET U /\ e \in U /\ e \notin T
  BY Linear
<1>2. U \in SUBSET S
  OBVIOUS
<1>3. IsFiniteSet(U)
  BY <1>2, FS_Subset
<1>4. Cardinality(T) <= Cardinality(U) /\ Cardinality(U) # Cardinality(T)
  BY <1>1, <1>3, FS_Subset
<1>5. Place(S, e) = Cardinality(T) /\ Place(S, f) = Cardinality(U)
  BY DEF Place
<1>6. Place(S, e) \in Int /\ Place(S, f) \in Int
  BY PlaceType
<1> HIDE DEF T, U
<1> QED BY <1>4, <1>5, <1>6

\* Each place is that of exactly one event.
LEMMA EveryPlaceTaken ==
  ASSUME NEW S \in SUBSET Event, IsFiniteSet(S), NEW j \in 0..(Cardinality(S) - 1)
  PROVE  /\ \E e \in S : Place(S, e) = j
         /\ \A e, f \in S : Place(S, e) = j /\ Place(S, f) = j => e = f
<1> DEFINE n == Cardinality(S)
           T == 0..(n - 1)
           f == [e \in S |-> Place(S, e)]
<1>1. n \in Nat
  BY FS_CardinalityType
<1>2. IsFiniteSet(T) /\ Cardinality(T) = n
  BY <1>1, FS_Interval
<1>3. f \in [S -> T]
  BY PlaceType
<1>4. ASSUME NEW a \in S, NEW b \in S, Place(S, a) = Place(S, b)
      PROVE  a = b
  <2>1. Place(S, a) \in Int /\ Place(S, b) \in Int
    BY PlaceType
  <2>2. CASE Earlier(a, b)
    BY <1>4, <2>1, <2>2, PlaceGrows
  <2>3. CASE Earlier(b, a)
    BY <1>4, <2>1, <2>3, PlaceGrows
  <2> QED BY <2>2, <2>3, Linear
<1>5. f \in Injection(S, T)
  BY <1>3, <1>4 DEF Injection, IsInjective
<1>6. f \in Surjection(S, T)
  BY <1>2, <1>5, FS_Injection
<1>7. \E e \in S : Place(S, e) = j
  BY <1>6 DEF Surjection
<1> QED BY <1>4, <1>7

\* InOrder puts each event in its place.
LEMMA Sorted ==
  ASSUME NEW S \in SUBSET Event, IsFiniteSet(S)
  PROVE  /\ Cardinality(S) \in Nat /\ DOMAIN InOrder(S) = 1..Cardinality(S)
         /\ \A k \in 1..Cardinality(S) : InOrder(S)[k] \in S /\ Place(S, InOrder(S)[k]) = k - 1
         /\ \A e \in S : InOrder(S)[Place(S, e) + 1] = e
         /\ \A j, k \in 1..Cardinality(S) : j < k => Earlier(InOrder(S)[j], InOrder(S)[k])
<1> DEFINE n == Cardinality(S)
<1>1. n \in Nat
  BY FS_CardinalityType
<1>2. DOMAIN InOrder(S) = 1..n
  BY DEF InOrder
<1>3. ASSUME NEW k \in 1..n
      PROVE  InOrder(S)[k] \in S /\ Place(S, InOrder(S)[k]) = k - 1
  <2>1. k - 1 \in 0..(n - 1)
    BY <1>1
  <2>2. \E e \in S : Place(S, e) = k - 1
    BY <2>1, EveryPlaceTaken
  <2>3. InOrder(S)[k] = CHOOSE e \in S : Place(S, e) = k - 1
    BY DEF InOrder, Place
  <2> QED BY <2>2, <2>3
<1>4. ASSUME NEW e \in S  PROVE InOrder(S)[Place(S, e) + 1] = e
  <2>1. Place(S, e) \in 0..(n - 1)
    BY PlaceType
  <2>2. Place(S, e) + 1 \in 1..n /\ (Place(S, e) + 1) - 1 = Place(S, e)
    BY <1>1, <2>1
  <2>3. /\ InOrder(S)[Place(S, e) + 1] \in S
        /\ Place(S, InOrder(S)[Place(S, e) + 1]) = Place(S, e)
    BY <1>3, <2>2
  <2> QED BY <2>1, <2>3, EveryPlaceTaken
<1>5. ASSUME NEW j \in 1..n, NEW k \in 1..n, j < k
      PROVE  Earlier(InOrder(S)[j], InOrder(S)[k])
  <2> DEFINE a == InOrder(S)[j]
             b == InOrder(S)[k]
  <2>1. a \in S /\ b \in S /\ Place(S, a) = j - 1 /\ Place(S, b) = k - 1
    BY <1>3
  <2> HIDE DEF a, b
  <2>2. ~Earlier(b, a) /\ a # b
    BY <2>1, <1>1, <1>5, PlaceGrows
  <2>3. Earlier(a, b)
    BY <2>1, <2>2, Linear
  <2> QED BY <2>3 DEF a, b
<1> QED BY <1>1, <1>2, <1>3, <1>4, <1>5

\* As long as no event is left out, the order is the same.
LEMMA SamePlace ==
  ASSUME NEW S \in SUBSET Event, IsFiniteSet(S), NEW A \in SUBSET S,
         NEW e \in A, \A f \in S : Earlier(f, e) => f \in A
  PROVE  Place(A, e) = Place(S, e)
<1>1. {f \in A : Earlier(f, e)} = {f \in S : Earlier(f, e)}
  OBVIOUS
<1> QED BY <1>1 DEF Place

-----------------------------------------------------------------------------
(* Years. *)

\* The tick after the last of a year.
EndOf(y) == (y + 1) * YearLen

LEMMA YearLenPositive == YearLen \in Int /\ YearLen > 0
BY NumbersAssumption

LEMMA Division ==
  ASSUME NEW b \in Int, b > 0, NEW t \in Int
  PROVE  t \div b \in Int /\ (t \div b) * b <= t /\ t < (t \div b + 1) * b
OBVIOUS

LEMMA Product ==
  ASSUME NEW b \in Int, b > 0, NEW x \in Int, NEW y \in Int, x <= y
  PROVE  x * b <= y * b
OBVIOUS

LEMMA EndType ==
  ASSUME NEW y \in Int
  PROVE  EndOf(y) \in Int /\ EndOf(y + 1) = EndOf(y) + YearLen
BY YearLenPositive DEF EndOf

LEMMA EndGrows ==
  ASSUME NEW x \in Int, NEW y \in Int, x <= y
  PROVE  EndOf(x) <= EndOf(y)
<1>1. x + 1 \in Int /\ y + 1 \in Int /\ x + 1 <= y + 1
  OBVIOUS
<1> QED BY <1>1, Product, YearLenPositive DEF EndOf

\* A time is in a year or before it if it comes before its end.
LEMMA YearUpTo ==
  ASSUME NEW t \in Int, NEW y \in Int
  PROVE  Year(t) \in Int /\ (Year(t) <= y <=> t < EndOf(y))
<1> DEFINE q == Year(t)
<1>1. q \in Int /\ q * YearLen <= t /\ t < (q + 1) * YearLen
  BY YearLenPositive, Division DEF Year
<1> HIDE DEF q
<1>2. CASE q <= y
  <2>1. (q + 1) * YearLen <= (y + 1) * YearLen
    BY <1>1, <1>2, Product, YearLenPositive
  <2>2. (q + 1) * YearLen \in Int /\ (y + 1) * YearLen \in Int
    BY <1>1, YearLenPositive
  <2> QED BY <1>1, <1>2, <2>1, <2>2 DEF EndOf, q
<1>3. CASE y < q
  <2>1. (y + 1) * YearLen <= q * YearLen
    BY <1>1, <1>3, Product, YearLenPositive
  <2>2. q * YearLen \in Int /\ (y + 1) * YearLen \in Int
    BY <1>1, YearLenPositive
  <2> QED BY <1>1, <1>3, <2>1, <2>2 DEF EndOf, q
<1> QED BY <1>1, <1>2, <1>3 DEF q

LEMMA YearGrows ==
  ASSUME NEW s \in Int, NEW t \in Int, s <= t
  PROVE  Year(s) \in Int /\ Year(t) \in Int /\ Year(s) <= Year(t)
<1>1. Year(s) \in Int /\ Year(t) \in Int /\ t < EndOf(Year(t))
  BY YearUpTo
<1>2. s < EndOf(Year(t))
  BY <1>1, EndType
<1> QED BY <1>1, <1>2, YearUpTo

-----------------------------------------------------------------------------
(* The onsets of a table. *)

\* With at most PerYear onsets a year, so many years have at most so many.
LEMMA YearlyCount ==
  ASSUME NEW R \in SUBSET Nat, IsFiniteSet(R), NEW a \in Int,
         \A o \in R : a <= Year(o) /\ Cardinality({p \in R : Year(p) = Year(o)}) <= PerYear
  PROVE  \A k \in Nat : Cardinality({p \in R : Year(p) < a + k}) <= k * PerYear
<1> DEFINE Upto(k) == {p \in R : Year(p) < a + k}
           In(y) == {p \in R : Year(p) = y}
           Bad == {k \in Nat : ~(Cardinality(Upto(k)) <= k * PerYear)}
<1>0. PerYear \in Nat
  BY NumbersAssumption
<1>1. SUFFICES ASSUME Bad # {}  PROVE FALSE
  <2>1. Bad = {}
    BY <1>1
  <2> QED BY <2>1
<1>2. Bad \in SUBSET Nat
  OBVIOUS
<1> HIDE DEF Bad
<1>3. PICK m \in Bad : \A n \in Bad : m <= n
  BY <1>1, <1>2, Least
<1>4. \A p \in R : Year(p) \in Int /\ a <= Year(p)
  <2>1. \A p \in R : p \in Int
    OBVIOUS
  <2>2. \A p \in R : a <= Year(p)
    BY Zenon
  <2> QED BY <2>1, <2>2, YearUpTo
<1>5. m \in Nat /\ ~(Cardinality(Upto(m)) <= m * PerYear)
  BY <1>3 DEF Bad
<1>6. CASE m = 0
  <2>1. \A p \in R : ~(Year(p) < a + m)
    BY <1>4, <1>6
  <2>3. Upto(m) = {}
    BY <2>1
  <2>2. Cardinality(Upto(m)) = 0
    BY <2>3, FS_EmptySet
  <2> HIDE DEF Upto
  <2> QED BY <2>2, <1>0, <1>5, <1>6
<1>7. CASE m > 0
  <2> DEFINE l == m - 1
  <2>1. l \in Nat /\ l \notin Bad /\ m = l + 1
    BY <1>3, <1>5, <1>7
  <2>2. Cardinality(Upto(l)) <= l * PerYear
    BY <2>1 DEF Bad
  <2>3. Upto(m) = Upto(l) \cup In(a + l)
    <3>1. \A p \in R : Year(p) < a + m <=> (Year(p) < a + l \/ Year(p) = a + l)
      BY <1>4, <2>1
    <3> QED BY <3>1
  <2>4. IsFiniteSet(Upto(l)) /\ IsFiniteSet(In(a + l)) /\ Upto(l) \cap In(a + l) = {}
    <3>1. Upto(l) \in SUBSET R /\ In(a + l) \in SUBSET R
      OBVIOUS
    <3>2. Upto(l) \cap In(a + l) = {}
      BY <1>4, <2>1
    <3> QED BY <3>1, <3>2, FS_Subset
  <2>5. Cardinality(In(a + l)) <= PerYear
    <3>1. CASE In(a + l) = {}
      BY <3>1, <1>0, FS_EmptySet
    <3>2. CASE In(a + l) # {}
      <4>1. PICK o \in R : Year(o) = a + l
        BY <3>2
      <4> QED BY <4>1
    <3> QED BY <3>1, <3>2
  <2> HIDE DEF Upto, In
  <2>7. Cardinality(Upto(l)) \in Nat /\ Cardinality(In(a + l)) \in Nat
    BY <2>4, FS_CardinalityType
  <2>6. Cardinality(Upto(m)) = Cardinality(Upto(l)) + Cardinality(In(a + l))
    <3>1. Cardinality(Upto(l) \cup In(a + l)) =
            Cardinality(Upto(l)) + Cardinality(In(a + l)) - Cardinality({})
      BY <2>4, FS_Union
    <3> QED BY <2>3, <2>7, <3>1, FS_EmptySet
  <2>8. m * PerYear = l * PerYear + PerYear
    BY <2>1, <1>0
  <2>9. l * PerYear \in Int
    BY <2>1, <1>0
  <2> QED BY <1>0, <1>5, <2>2, <2>5, <2>6, <2>7, <2>8, <2>9
<1> QED BY <1>5, <1>6, <1>7

\* What is drawn from a rule is well-formed as the rule is.
LEMMA DrawnType ==
  ASSUME NEW obs \in ObservanceRecord, WellFormed(obs)
  PROVE  /\ Drawn(obs) \in SUBSET Nat /\ IsFiniteSet(Drawn(obs))
         /\ \A o \in Drawn(obs) :
              Cardinality({p \in Drawn(obs) : Year(p) = Year(o)}) <= PerYear
<1>1. obs.rule \in SUBSET Nat /\ IsFiniteSet(obs.rule) /\ Drawn(obs) \in SUBSET obs.rule
  BY DEF ObservanceRecord, WellFormed, Drawn
<1>2. ASSUME NEW o \in Drawn(obs)
      PROVE  Cardinality({p \in Drawn(obs) : Year(p) = Year(o)}) <= PerYear
  <2> DEFINE D == {p \in Drawn(obs) : Year(p) = Year(o)}
             R == {p \in obs.rule : Year(p) = Year(o)}
  <2>1. D \in SUBSET R /\ R \in SUBSET obs.rule
    BY <1>1
  <2>2. IsFiniteSet(R)
    BY <1>1, <2>1, FS_Subset
  <2>3. Cardinality(R) <= PerYear
    BY <1>1 DEF WellFormed
  <2> HIDE DEF D, R
  <2>4. Cardinality(D) <= Cardinality(R) /\ IsFiniteSet(D)
    BY <2>1, <2>2, FS_Subset
  <2>5. Cardinality(D) \in Nat /\ Cardinality(R) \in Nat /\ PerYear \in Nat
    BY <2>2, <2>4, FS_CardinalityType, NumbersAssumption
  <2>6. Cardinality(D) <= PerYear
    BY <2>3, <2>4, <2>5
  <2> QED BY <2>6 DEF D
<1> QED BY <1>1, <1>2, FS_Subset

\* The first onsets drawn from a rule are those up to the year asked for.
LEMMA OnsetsFound ==
  ASSUME NEW obs \in ObservanceRecord, WellFormed(obs), NEW year \in Int
  PROVE  OnsetsThrough(obs, year) = {o \in Onsets(obs) : Year(o) <= year}
<1> DEFINE a == Year(obs.dtstart)
           reach == Larger(year - a + 2, 2)
           rule == Drawn(obs)
           within == {o \in rule : obs.unbounded => Year(o) <= year}
<1>0. PerYear \in Nat
  BY NumbersAssumption
<1>1. obs.dtstart \in Int /\ rule \in SUBSET Nat /\ IsFiniteSet(rule) /\ rule \in SUBSET obs.rule
  BY DrawnType DEF ObservanceRecord, Drawn
<1>2. a \in Int /\ \A o \in rule : a <= Year(o) /\ Year(o) \in Int
  <2>1. \A o \in rule : o \in Int
    BY <1>1
  <2>2. \A o \in rule : obs.dtstart <= o
    BY <1>1, Zenon DEF WellFormed
  <2> QED BY <1>1, <2>1, <2>2, YearGrows
<1>3. ASSUME NEW o \in rule, Year(o) <= year
      PROVE  o \in FirstOf(reach * PerYear, within)
  <2> DEFINE k == Year(o) - a + 1
             B == {p \in within : p < o}
             C == {p \in rule : Year(p) < a + k}
  <2>1. k \in Nat /\ k <= reach /\ reach \in Nat
    BY <1>2, <1>3 DEF Larger
  <2>2. Cardinality(C) <= k * PerYear
    <3>1. \A q \in rule : Cardinality({p \in rule : Year(p) = Year(q)}) <= PerYear
      BY DrawnType
    <3> HIDE DEF k, rule
    <3> QED BY <1>1, <1>2, <2>1, <3>1, YearlyCount
  <2>3. B \in SUBSET C /\ o \in C /\ o \notin B
    <3>1. \A p \in B : p \in rule /\ Year(p) <= Year(o) /\ Year(p) \in Int
      <4>1. ASSUME NEW p \in B  PROVE p \in Int /\ o \in Int /\ p <= o /\ p \in rule
        BY <1>1
      <4> QED BY <4>1, YearGrows
    <3>2. o \notin B
      BY <1>1
    <3> QED BY <3>1, <3>2, <1>2
  <2>4. IsFiniteSet(C) /\ C \in SUBSET rule
    BY <1>1, FS_Subset
  <2>5. Cardinality(B) <= Cardinality(C) /\ Cardinality(B) # Cardinality(C)
        /\ IsFiniteSet(B)
    BY <2>3, <2>4, FS_Subset
  <2> HIDE DEF B, C
  <2>6. Cardinality(B) \in Nat /\ Cardinality(C) \in Nat
    BY <2>4, <2>5, FS_CardinalityType
  <2>7. k * PerYear <= reach * PerYear /\ k * PerYear \in Int /\ reach * PerYear \in Int
    <3> HIDE DEF k, reach
    <3> QED BY <1>0, <2>1
  <2>8. Cardinality(B) < reach * PerYear
    <3> HIDE DEF k, reach
    <3> QED BY <2>2, <2>5, <2>6, <2>7
  <2>9. o \in within
    BY <1>3
  <2> QED BY <2>8, <2>9 DEF FirstOf, B
<1>4. FirstOf(reach * PerYear, within) \subseteq rule
  BY DEF FirstOf
<1>5. OnsetsThrough(obs, year) =
        {o \in {obs.dtstart} \cup obs.rdates \cup FirstOf(reach * PerYear, within) :
           Year(o) <= year}
  BY DEF OnsetsThrough
<1> HIDE DEF reach, within
<1> QED BY <1>3, <1>4, <1>5 DEF Onsets

-----------------------------------------------------------------------------
(* The first events of a part are those of the whole, until one is left out. *)

LEMMA WholeToPart ==
  ASSUME NEW S \in SUBSET Event, IsFiniteSet(S), NEW A \in SUBSET S,
         NEW k \in 1..Cardinality(S), \A f \in S : Place(S, f) <= k - 1 => f \in A
  PROVE  /\ k \in 1..Cardinality(A)
         /\ \A j \in 1..k : InOrder(A)[j] = InOrder(S)[j]
<1>1. IsFiniteSet(A) /\ A \in SUBSET Event
  BY FS_Subset
<1>2. Cardinality(S) \in Nat /\ Cardinality(A) \in Nat
  BY <1>1, FS_CardinalityType
<1>3. ASSUME NEW j \in 1..k
      PROVE  j \in 1..Cardinality(A) /\ InOrder(A)[j] = InOrder(S)[j]
  <2> DEFINE e == InOrder(S)[j]
  <2>1. j \in 1..Cardinality(S) /\ j <= k
    BY <1>2
  <2>2. e \in S /\ Place(S, e) = j - 1
    BY <2>1, Sorted
  <2> HIDE DEF e
  <2>3. e \in A
    BY <2>1, <2>2
  <2>4. ASSUME NEW f \in S, Earlier(f, e)  PROVE f \in A
    <3>1. Place(S, f) < Place(S, e) /\ Place(S, f) \in Int
      BY <2>2, <2>4, PlaceGrows, PlaceType
    <3> QED BY <3>1, <2>1, <2>2
  <2>5. Place(A, e) = j - 1
    BY <2>2, <2>3, <2>4, SamePlace
  <2>6. j - 1 \in 0..(Cardinality(A) - 1)
    BY <1>1, <2>3, <2>5, PlaceType
  <2>7. InOrder(A)[Place(A, e) + 1] = e
    BY <1>1, <2>3, Sorted
  <2> QED BY <1>2, <2>5, <2>6, <2>7 DEF e
<1>4. k \in 1..k
  BY <1>2
<1> QED BY <1>3, <1>4

LEMMA PartToWhole ==
  ASSUME NEW S \in SUBSET Event, IsFiniteSet(S), NEW A \in SUBSET S,
         NEW k \in 1..Cardinality(A), \A f \in S : Earlier(f, InOrder(A)[k]) => f \in A
  PROVE  /\ k \in 1..Cardinality(S)
         /\ \A j \in 1..k : InOrder(A)[j] = InOrder(S)[j]
<1>1. IsFiniteSet(A) /\ A \in SUBSET Event
  BY FS_Subset
<1>2. Cardinality(S) \in Nat /\ Cardinality(A) \in Nat
  BY <1>1, FS_CardinalityType
<1>3. ASSUME NEW j \in 1..k
      PROVE  j \in 1..Cardinality(S) /\ InOrder(A)[j] = InOrder(S)[j]
  <2> DEFINE e == InOrder(A)[j]
             last == InOrder(A)[k]
  <2>1. j \in 1..Cardinality(A) /\ (j < k \/ j = k)
    BY <1>2
  <2>2. e \in A /\ Place(A, e) = j - 1
    BY <1>1, <2>1, Sorted
  <2>3. last \in A /\ (e = last \/ Earlier(e, last))
    BY <1>1, <2>1, Sorted
  <2> HIDE DEF e
  <2>4. ASSUME NEW f \in S, Earlier(f, e)  PROVE f \in A
    <3>1. Earlier(f, last)
      <4>1. CASE e = last
        BY <4>1, <2>4
      <4>2. CASE Earlier(e, last)
        <5>1. f \in Event /\ e \in Event /\ last \in Event
          BY <2>2, <2>3
        <5> QED BY <4>2, <5>1, <2>4, Linear
      <4> QED BY <2>3, <4>1, <4>2
    <3> QED BY <3>1
  <2>5. e \in S /\ Place(S, e) = j - 1
    BY <2>2, <2>4, SamePlace
  <2>6. j - 1 \in 0..(Cardinality(S) - 1)
    BY <2>5, PlaceType
  <2>7. InOrder(S)[Place(S, e) + 1] = e
    BY <2>5, Sorted
  <2> QED BY <1>2, <2>5, <2>6, <2>7 DEF e
<1>4. k \in 1..k
  BY <1>2
<1> QED BY <1>3, <1>4

-----------------------------------------------------------------------------
(* Events and transitions of a zone. *)

LEMMA FiniteImage ==
  ASSUME NEW S, IsFiniteSet(S), NEW f, DOMAIN f = S
  PROVE  IsFiniteSet({f[x] : x \in S})
<1> DEFINE T == {f[x] : x \in S}
           g == [x \in S |-> f[x]]
<1>1. g \in [S -> T]
  OBVIOUS
<1>2. \A t \in T : \E x \in S : g[x] = t
  OBVIOUS
<1>3. g \in Surjection(S, T)
  BY <1>1, <1>2 DEF Surjection
<1> QED BY <1>3, FS_Surjection

LEMMA EventsType ==
  ASSUME NEW z \in Seq(ObservanceRecord), NEW onsets,
         \A i \in DOMAIN z : onsets[i] \in SUBSET Nat /\ IsFiniteSet(onsets[i])
  PROVE  /\ Events(z, onsets) \in SUBSET Event
         /\ IsFiniteSet(Events(z, onsets))
         /\ \A i \in DOMAIN z : \A w \in onsets[i] :
              [utc |-> w - z[i].from, obs |-> i] \in Events(z, onsets)
         /\ \A e \in Events(z, onsets) :
              /\ e.obs \in DOMAIN z
              /\ e.utc + z[e.obs].from \in onsets[e.obs]
              /\ e = [utc |-> e.utc, obs |-> e.obs]
<1> DEFINE Of(i) == {[utc |-> w - z[i].from, obs |-> i] : w \in onsets[i]}
           all == [i \in DOMAIN z |-> Of(i)]
<1>1. Events(z, onsets) = UNION {all[i] : i \in DOMAIN z}
  BY DEF Events
<1>2. DOMAIN z = 1..Len(z) /\ Len(z) \in Nat
  OBVIOUS
<1>3. IsFiniteSet(DOMAIN z)
  <2>1. IsFiniteSet(1..Len(z))
    BY ONLY <1>2, FS_Interval
  <2> QED BY ONLY <1>2, <2>1
<1>4. IsFiniteSet({all[i] : i \in DOMAIN z})
  BY <1>3, FiniteImage
<1>5. ASSUME NEW i \in DOMAIN z  PROVE IsFiniteSet(all[i])
  <2> DEFINE g == [w \in onsets[i] |-> [utc |-> w - z[i].from, obs |-> i]]
  <2>1. IsFiniteSet({g[w] : w \in onsets[i]})
    BY FiniteImage
  <2>2. {g[w] : w \in onsets[i]} = all[i]
    OBVIOUS
  <2> QED BY <2>1, <2>2
<1>6. IsFiniteSet(Events(z, onsets))
  <2>1. \A T \in {all[i] : i \in DOMAIN z} : IsFiniteSet(T)
    BY <1>5
  <2> HIDE DEF all
  <2> QED BY <1>1, <1>4, <2>1, FS_UNION
<1>7. ASSUME NEW i \in DOMAIN z, NEW w \in onsets[i]
      PROVE  /\ [utc |-> w - z[i].from, obs |-> i] \in Events(z, onsets)
             /\ [utc |-> w - z[i].from, obs |-> i] \in Event
             /\ (w - z[i].from) + z[i].from = w
  <2>1. z[i] \in ObservanceRecord
    OBVIOUS
  <2>2. z[i].from \in Int /\ w \in Nat /\ i \in Int
    BY <2>1, <1>2 DEF ObservanceRecord
  <2>3. [utc |-> w - z[i].from, obs |-> i] \in all[i]
    OBVIOUS
  <2> QED BY <2>2, <2>3, <1>1 DEF Event
<1>8. ASSUME NEW e \in Events(z, onsets)
      PROVE  \E i \in DOMAIN z : \E w \in onsets[i] : e = [utc |-> w - z[i].from, obs |-> i]
  BY <1>1
<1>9. ASSUME NEW e \in Events(z, onsets)
      PROVE  /\ e \in Event /\ e.obs \in DOMAIN z
             /\ e.utc + z[e.obs].from \in onsets[e.obs]
             /\ e = [utc |-> e.utc, obs |-> e.obs]
  <2>0. PICK i \in DOMAIN z : \E w \in onsets[i] : e = [utc |-> w - z[i].from, obs |-> i]
    BY <1>8
  <2>1. PICK w \in onsets[i] : e = [utc |-> w - z[i].from, obs |-> i]
    BY <2>0
  <2>2. e.obs = i /\ e.utc = w - z[i].from
    BY <2>1
  <2> QED BY <1>7, <2>1, <2>2
<1> QED BY <1>6, <1>7, <1>9

AllOnsets(z) == [i \in DOMAIN z |-> Onsets(z[i])]
UpToYear(z, y) == [i \in DOMAIN z |-> OnsetsThrough(z[i], y)]

LEMMA AllEventsType ==
  ASSUME NEW z \in Zones
  PROVE  /\ z \in Seq(ObservanceRecord)
         /\ \A i \in DOMAIN z : /\ z[i] \in ObservanceRecord /\ WellFormed(z[i])
                                /\ AllOnsets(z)[i] \in SUBSET Nat
                                /\ IsFiniteSet(AllOnsets(z)[i])
<1>1. z \in Seq(ObservanceRecord) /\ \A i \in DOMAIN z : WellFormed(z[i])
  BY ZonesAssumption
<1>2. ASSUME NEW i \in DOMAIN z
      PROVE  /\ z[i] \in ObservanceRecord
             /\ AllOnsets(z)[i] \in SUBSET Nat
             /\ IsFiniteSet(AllOnsets(z)[i])
  <2>1. z[i] \in ObservanceRecord /\ WellFormed(z[i])
    BY <1>1
  <2>2. AllOnsets(z)[i] = Onsets(z[i])
    BY DEF AllOnsets
  <2>3. z[i].dtstart \in Nat /\ z[i].rdates \in SUBSET Nat /\ z[i].rule \in SUBSET Nat
    BY <2>1 DEF ObservanceRecord
  <2>4. /\ IsFiniteSet(z[i].rdates) /\ IsFiniteSet(Drawn(z[i]))
        /\ Drawn(z[i]) \in SUBSET Nat
    BY <2>1, DrawnType DEF WellFormed
  <2>5. IsFiniteSet({z[i].dtstart})
    BY FS_Singleton
  <2>6. IsFiniteSet(Onsets(z[i]))
    BY <2>4, <2>5, FS_Union DEF Onsets
  <2>7. Onsets(z[i]) \in SUBSET Nat
    BY <2>3, <2>4 DEF Onsets
  <2> QED BY <2>1, <2>2, <2>6, <2>7
<1> QED BY <1>1, <1>2

LEMMA YearEvents ==
  ASSUME NEW z \in Zones, NEW y \in Int
  PROVE  /\ \A i \in DOMAIN z :
              /\ UpToYear(z, y)[i] \in SUBSET Nat /\ IsFiniteSet(UpToYear(z, y)[i])
              /\ UpToYear(z, y)[i] = {o \in AllOnsets(z)[i] : Year(o) <= y}
         /\ Events(z, UpToYear(z, y)) \in SUBSET Events(z, AllOnsets(z))
         /\ \A e \in Events(z, AllOnsets(z)) :
              e \in Events(z, UpToYear(z, y)) <=> Year(e.utc + z[e.obs].from) <= y
<1>1. ASSUME NEW i \in DOMAIN z
      PROVE  /\ UpToYear(z, y)[i] \in SUBSET Nat /\ IsFiniteSet(UpToYear(z, y)[i])
             /\ UpToYear(z, y)[i] = {o \in AllOnsets(z)[i] : Year(o) <= y}
  <2>1. UpToYear(z, y)[i] = {o \in Onsets(z[i]) : Year(o) <= y}
    BY AllEventsType, OnsetsFound DEF UpToYear
  <2>2. UpToYear(z, y)[i] = {o \in AllOnsets(z)[i] : Year(o) <= y}
    BY <2>1 DEF AllOnsets
  <2>3. UpToYear(z, y)[i] \in SUBSET AllOnsets(z)[i]
    BY <2>2
  <2> QED BY <2>2, <2>3, AllEventsType, FS_Subset
<1>2. z \in Seq(ObservanceRecord)
  BY AllEventsType
<1> DEFINE A == Events(z, UpToYear(z, y))
           S == Events(z, AllOnsets(z))
<1>3. ASSUME NEW e \in A  PROVE e \in S /\ Year(e.utc + z[e.obs].from) <= y
  <2>1. /\ e.obs \in DOMAIN z /\ e.utc + z[e.obs].from \in UpToYear(z, y)[e.obs]
        /\ e = [utc |-> e.utc, obs |-> e.obs] /\ e \in Event
    BY <1>1, <1>2, EventsType
  <2> DEFINE w == e.utc + z[e.obs].from
  <2>2. w \in AllOnsets(z)[e.obs] /\ Year(w) <= y
    BY <2>1, <1>1
  <2>3. [utc |-> w - z[e.obs].from, obs |-> e.obs] \in S
    BY <2>1, <2>2, <1>2, AllEventsType, EventsType
  <2>4. w - z[e.obs].from = e.utc
    <3>1. z[e.obs] \in ObservanceRecord
      BY <2>1, AllEventsType
    <3>2. z[e.obs].from \in Int /\ e.utc \in Int
      BY <3>1, <2>1 DEF ObservanceRecord, Event
    <3> QED BY <3>2
  <2> QED BY <2>1, <2>2, <2>3, <2>4
<1>4. ASSUME NEW e \in S, Year(e.utc + z[e.obs].from) <= y  PROVE e \in A
  <2>1. /\ e.obs \in DOMAIN z /\ e.utc + z[e.obs].from \in AllOnsets(z)[e.obs]
        /\ e = [utc |-> e.utc, obs |-> e.obs] /\ e \in Event
    BY <1>2, AllEventsType, EventsType
  <2> DEFINE w == e.utc + z[e.obs].from
  <2>2. w \in UpToYear(z, y)[e.obs]
    BY <2>1, <1>1, <1>4
  <2>3. [utc |-> w - z[e.obs].from, obs |-> e.obs] \in A
    BY <2>1, <2>2, <1>1, <1>2, EventsType
  <2>4. w - z[e.obs].from = e.utc
    <3>1. z[e.obs] \in ObservanceRecord
      BY <2>1, AllEventsType
    <3>2. z[e.obs].from \in Int /\ e.utc \in Int
      BY <3>1, <2>1 DEF ObservanceRecord, Event
    <3> QED BY <3>2
  <2> QED BY <2>1, <2>3, <2>4
<1> QED BY <1>1, <1>3, <1>4

\* What a list of transitions is, whichever onsets it is made of.
WellMade(z, t) ==
  /\ Len(t) \in Nat /\ DOMAIN t = 1..Len(t) /\ (t = <<>> <=> Len(t) = 0)
  /\ \A k \in DOMAIN t :
       /\ t[k].utc \in Int /\ t[k].before \in Int /\ t[k].after \in Int
       /\ t[k].before \in Offsets(z) /\ t[k].after \in Offsets(z)
       /\ k > 1 => t[k].before = t[k - 1].after
  /\ \A j, k \in DOMAIN t : j < k => t[j].utc <= t[k].utc

\* And how it follows the order of the events.
Entry(z, s, k) ==
  [utc |-> s[k].utc, name |-> z[s[k].obs].name,
   before |-> IF k = 1 THEN z[s[1].obs].from ELSE z[s[k - 1].obs].to,
   after |-> z[s[k].obs].to]
MadeOf(z, S, t) ==
  /\ Len(t) = Cardinality(S)
  /\ \A k \in 1..Cardinality(S) :
       /\ InOrder(S)[k].obs \in DOMAIN z
       /\ t[k] = Entry(z, InOrder(S), k)
       /\ t[k].utc = InOrder(S)[k].utc

LEMMA OffsetsType ==
  ASSUME NEW z \in Zones
  PROVE  /\ \A i \in DOMAIN z : z[i].from \in Offsets(z) /\ z[i].to \in Offsets(z)
         /\ \A o \in Offsets(z) : o \in Int /\ -YearLen < 2 * o /\ 2 * o < YearLen
<1>1. \A i \in DOMAIN z : z[i] \in ObservanceRecord /\ WellFormed(z[i])
  BY AllEventsType
<1>2. \A i \in DOMAIN z : z[i].from \in Offsets(z) /\ z[i].to \in Offsets(z)
  BY DEF Offsets
<1>3. ASSUME NEW o \in Offsets(z)
      PROVE  o \in Int /\ -YearLen < 2 * o /\ 2 * o < YearLen
  <2>1. PICK i \in DOMAIN z : o \in {z[i].from, z[i].to}
    BY DEF Offsets
  <2>2. z[i].from \in Int /\ z[i].to \in Int
    BY <1>1 DEF ObservanceRecord
  <2>3. -YearLen < 2 * o /\ 2 * o < YearLen
    BY <1>1, <2>1, Zenon DEF WellFormed
  <2> QED BY <2>1, <2>2, <2>3
<1> QED BY <1>2, <1>3

LEMMA TransitionsAre ==
  ASSUME NEW z \in Zones, NEW onsets,
         \A i \in DOMAIN z : onsets[i] \in SUBSET Nat /\ IsFiniteSet(onsets[i])
  PROVE  /\ WellMade(z, Transitions(z, onsets))
         /\ MadeOf(z, Events(z, onsets), Transitions(z, onsets))
<1> DEFINE S == Events(z, onsets)
           t == Transitions(z, onsets)
           n == Cardinality(S)
           s == InOrder(S)
           At(k) == Entry(z, s, k)
<1>1. z \in Seq(ObservanceRecord)
  BY AllEventsType
<1>2. /\ S \in SUBSET Event /\ IsFiniteSet(S)
      /\ \A e \in S : e.obs \in DOMAIN z
  BY <1>1, EventsType
<1> HIDE DEF S
<1>3. n \in Nat /\ DOMAIN s = 1..n
  BY <1>2, Sorted
<1>4. \A k \in 1..n : s[k] \in S /\ s[k] \in Event /\ s[k].obs \in DOMAIN z
  BY <1>2, Sorted
<1>5. \A j, k \in 1..n : j < k => Earlier(s[j], s[k])
  BY <1>2, Sorted
<1>6. t = [k \in DOMAIN s |-> At(k)]
  BY DEF Transitions, Entry, S
<1> HIDE DEF s, n, t
<1>7. Len(t) = n /\ DOMAIN t = 1..n
  BY <1>3, <1>6
<1>8. ASSUME NEW k \in 1..n
      PROVE  /\ t[k] = At(k)
             /\ t[k].utc = s[k].utc /\ t[k].after = z[s[k].obs].to
             /\ k = 1 => t[k].before = z[s[1].obs].from
             /\ k > 1 => t[k].before = z[s[k - 1].obs].to
  BY <1>3, <1>6 DEF Entry
<1>9. \A k \in 1..n : t[k].utc \in Int
  BY <1>4, <1>8 DEF Event
<1>10. ASSUME NEW k \in 1..n
       PROVE  /\ t[k].before \in Int /\ t[k].after \in Int
              /\ t[k].before \in Offsets(z) /\ t[k].after \in Offsets(z)
              /\ k > 1 => t[k].before = t[k - 1].after
  <2>1. t[k].after \in Offsets(z)
    BY <1>4, <1>8, OffsetsType
  <2>2. CASE k = 1
    <3>1. t[k].before \in Offsets(z)
      BY <2>2, <1>4, <1>8, OffsetsType
    <3> QED BY <2>1, <2>2, <3>1, OffsetsType
  <2>3. CASE k > 1
    <3>1. k - 1 \in 1..n
      BY <1>3, <2>3
    <3>2. t[k].before = t[k - 1].after /\ t[k].before = z[s[k - 1].obs].to
      BY <1>8, <2>3, <3>1
    <3>3. t[k].before \in Offsets(z)
      BY <3>1, <3>2, <1>4, OffsetsType
    <3> QED BY <2>1, <3>2, <3>3, OffsetsType
  <2> QED BY <2>2, <2>3, <1>3
<1>11. ASSUME NEW j \in 1..n, NEW k \in 1..n, j < k
       PROVE  t[j].utc <= t[k].utc
  <2>1. Earlier(s[j], s[k]) /\ s[j].utc \in Int /\ s[k].utc \in Int
    BY <1>4, <1>5, <1>11 DEF Event
  <2>2. t[j].utc = s[j].utc /\ t[k].utc = s[k].utc
    BY <1>8
  <2> QED BY <2>1, <2>2 DEF Earlier
<1>14. t = <<>> <=> Len(t) = 0
  <2> DEFINE T == {At(k) : k \in 1..n}
  <2>1. t \in Seq(T)
    <3>1. t = [k \in 1..n |-> At(k)]
      BY <1>3, <1>6
    <3> HIDE DEF At
    <3>2. \A k \in 1..n : At(k) \in T
      OBVIOUS
    <3> HIDE DEF T
    <3> QED BY <1>3, <3>1, <3>2
  <2> HIDE DEF T
  <2> QED BY <2>1
<1>12. WellMade(z, t)
  BY <1>14, <1>3, <1>7, <1>9, <1>10, <1>11 DEF WellMade
<1>13. MadeOf(z, S, t)
  BY <1>4, <1>7, <1>8 DEF MadeOf, s, n
<1> QED BY <1>12, <1>13 DEF S, t

-----------------------------------------------------------------------------
(* A table against the full list. *)

LEMMA FullIs ==
  ASSUME NEW z \in Zones
  PROVE  WellMade(z, Full[z]) /\ MadeOf(z, Events(z, AllOnsets(z)), Full[z])
<1>1. Full[z] = Transitions(z, AllOnsets(z))
  BY DEF Full, AllOnsets
<1> QED BY <1>1, AllEventsType, TransitionsAre

LEMMA TableIs ==
  ASSUME NEW z \in Zones, NEW y \in Int
  PROVE  /\ WellMade(z, Table(z, y))
         /\ MadeOf(z, Events(z, UpToYear(z, y)), Table(z, y))
<1>1. Table(z, y) = Transitions(z, UpToYear(z, y))
  BY DEF Table, UpToYear
<1> QED BY <1>1, YearEvents, TransitionsAre

\* Where the events are the same, so are the transitions.
LEMMA SameTransitions ==
  ASSUME NEW z \in Zones, NEW y \in Int, NEW k \in Nat,
         k <= Len(Table(z, y)), k <= Len(Full[z]),
         \A j \in 1..k : InOrder(Events(z, UpToYear(z, y)))[j] = InOrder(Events(z, AllOnsets(z)))[j]
  PROVE  \A j \in 1..k : Table(z, y)[j] = Full[z][j]
<1> DEFINE A == Events(z, UpToYear(z, y))
           S == Events(z, AllOnsets(z))
<1>1. \A j \in 1..k : InOrder(A)[j] = InOrder(S)[j]
  OBVIOUS
<1>2. /\ Len(Table(z, y)) = Cardinality(A) /\ Len(Table(z, y)) \in Nat
      /\ \A j \in 1..Cardinality(A) : Table(z, y)[j] = Entry(z, InOrder(A), j)
  BY TableIs DEF WellMade, MadeOf
<1>3. /\ Len(Full[z]) = Cardinality(S) /\ Len(Full[z]) \in Nat
      /\ \A j \in 1..Cardinality(S) : Full[z][j] = Entry(z, InOrder(S), j)
  BY FullIs DEF WellMade, MadeOf
<1> HIDE DEF A, S
<1>4. ASSUME NEW j \in 1..k  PROVE Table(z, y)[j] = Full[z][j]
  <2>1. j \in 1..Cardinality(A) /\ j \in 1..Cardinality(S)
    BY <1>2, <1>3
  <2>2. InOrder(A)[j] = InOrder(S)[j] /\ InOrder(A)[1] = InOrder(S)[1]
    BY <1>1
  <2>3. j # 1 => InOrder(A)[j - 1] = InOrder(S)[j - 1]
    <3>1. j # 1 => j - 1 \in 1..k
      OBVIOUS
    <3> QED BY <3>1, <1>1
  <2>4. Entry(z, InOrder(A), j) = Entry(z, InOrder(S), j)
    BY <2>2, <2>3 DEF Entry
  <2> QED BY <1>2, <1>3, <2>1, <2>4
<1> QED BY <1>4

\* Nothing at that instant or before is missing from a table up to that year.
Settled(z, u, y) == \A o \in Offsets(z) : Year(u + o) <= y

LEMMA SettledEvents ==
  ASSUME NEW z \in Zones, NEW y \in Int, NEW u \in Int, Settled(z, u, y),
         NEW e \in Events(z, AllOnsets(z)), e.utc <= u
  PROVE  e \in Events(z, UpToYear(z, y))
<1>1. e.obs \in DOMAIN z /\ e \in Event
  BY AllEventsType, EventsType
<1> DEFINE o == z[e.obs].from
<1>2. o \in Offsets(z) /\ o \in Int /\ e.utc \in Int
  BY <1>1, OffsetsType DEF Event
<1> HIDE DEF o
<1>3. Year(e.utc + o) <= Year(u + o) /\ Year(e.utc + o) \in Int /\ Year(u + o) \in Int
  <2>1. e.utc + o \in Int /\ u + o \in Int /\ e.utc + o <= u + o
    BY <1>2
  <2> QED BY <2>1, YearGrows
<1>4. Year(u + o) <= y
  BY <1>2 DEF Settled
<1>5. Year(e.utc + o) <= y
  BY <1>3, <1>4
<1> QED BY <1>5, YearEvents DEF o

\* If no event up to some place is missing from the table, the table begins as
\* the full list does, whether the place is counted in the one or in the other.
LEMMA FullPrefix ==
  ASSUME NEW z \in Zones, NEW y \in Int, NEW k \in DOMAIN Full[z],
         \A f \in Events(z, AllOnsets(z)) :
           Place(Events(z, AllOnsets(z)), f) <= k - 1 => f \in Events(z, UpToYear(z, y))
  PROVE  k \in DOMAIN Table(z, y) /\ \A j \in 1..k : Table(z, y)[j] = Full[z][j]
<1> DEFINE A == Events(z, UpToYear(z, y))
           S == Events(z, AllOnsets(z))
<1>1. S \in SUBSET Event /\ IsFiniteSet(S) /\ A \in SUBSET S
  BY AllEventsType, EventsType, YearEvents
<1>2. Len(Full[z]) = Cardinality(S) /\ WellMade(z, Full[z])
  BY FullIs DEF MadeOf
<1>3. Len(Table(z, y)) = Cardinality(A) /\ WellMade(z, Table(z, y))
  BY TableIs DEF MadeOf
<1>4. k \in 1..Cardinality(S)
  BY <1>2 DEF WellMade
<1>5. \A f \in S : Place(S, f) <= k - 1 => f \in A
  OBVIOUS
<1> HIDE DEF A, S
<1>6. /\ k \in 1..Cardinality(A)
      /\ \A j \in 1..k : InOrder(A)[j] = InOrder(S)[j]
  BY <1>1, <1>4, <1>5, WholeToPart
<1>7. k \in DOMAIN Table(z, y) /\ k \in Nat /\ k <= Len(Table(z, y)) /\ k <= Len(Full[z])
  BY <1>2, <1>3, <1>4, <1>6 DEF WellMade
<1> QED BY <1>6, <1>7, SameTransitions DEF A, S

LEMMA TablePrefix ==
  ASSUME NEW z \in Zones, NEW y \in Int, NEW k \in DOMAIN Table(z, y),
         \A f \in Events(z, AllOnsets(z)) :
           Earlier(f, InOrder(Events(z, UpToYear(z, y)))[k]) => f \in Events(z, UpToYear(z, y))
  PROVE  k \in DOMAIN Full[z] /\ \A j \in 1..k : Table(z, y)[j] = Full[z][j]
<1> DEFINE A == Events(z, UpToYear(z, y))
           S == Events(z, AllOnsets(z))
<1>1. S \in SUBSET Event /\ IsFiniteSet(S) /\ A \in SUBSET S
  BY AllEventsType, EventsType, YearEvents
<1>2. Len(Table(z, y)) = Cardinality(A) /\ WellMade(z, Table(z, y))
  BY TableIs DEF MadeOf
<1>3. Len(Full[z]) = Cardinality(S) /\ WellMade(z, Full[z])
  BY FullIs DEF MadeOf
<1>4. k \in 1..Cardinality(A)
  BY <1>2 DEF WellMade
<1>5. \A f \in S : Earlier(f, InOrder(A)[k]) => f \in A
  OBVIOUS
<1> HIDE DEF A, S
<1>6. /\ k \in 1..Cardinality(S)
      /\ \A j \in 1..k : InOrder(A)[j] = InOrder(S)[j]
  BY <1>1, <1>4, <1>5, PartToWhole
<1>7. k \in DOMAIN Full[z] /\ k \in Nat /\ k <= Len(Table(z, y)) /\ k <= Len(Full[z])
  BY <1>2, <1>3, <1>4, <1>6 DEF WellMade
<1> QED BY <1>6, <1>7, SameTransitions DEF A, S

\* Where an event is in the full list, and where one of the table's is.
LEMMA InFull ==
  ASSUME NEW z \in Zones, NEW e \in Events(z, AllOnsets(z))
  PROVE  LET p == Place(Events(z, AllOnsets(z)), e) + 1
         IN  /\ p \in DOMAIN Full[z] /\ p \in 1..Len(Full[z])
             /\ Full[z][p].utc = e.utc /\ Full[z][p].after = z[e.obs].to
<1> DEFINE S == Events(z, AllOnsets(z))
           p == Place(S, e) + 1
<1>1. S \in SUBSET Event /\ IsFiniteSet(S)
  BY AllEventsType, EventsType
<1>2. WellMade(z, Full[z]) /\ MadeOf(z, S, Full[z])
  BY FullIs
<1>3. Place(S, e) \in 0..(Cardinality(S) - 1) /\ Cardinality(S) \in Nat /\ InOrder(S)[p] = e
  BY <1>1, PlaceType, FS_CardinalityType, Sorted
<1>4. p \in 1..Cardinality(S)
  BY <1>3
<1> HIDE DEF p
<1>5. p \in 1..Len(Full[z]) /\ p \in DOMAIN Full[z]
  BY <1>2, <1>4 DEF MadeOf, WellMade
<1>6. Full[z][p] = Entry(z, InOrder(S), p) /\ Full[z][p].utc = e.utc
  BY <1>2, <1>3, <1>4 DEF MadeOf
<1>7. Full[z][p].after = z[e.obs].to
  BY <1>3, <1>6 DEF Entry
<1> QED BY <1>5, <1>6, <1>7 DEF p

LEMMA InTable ==
  ASSUME NEW z \in Zones, NEW y \in Int, NEW k \in DOMAIN Table(z, y)
  PROVE  LET e == InOrder(Events(z, UpToYear(z, y)))[k]
         IN  /\ e \in Events(z, UpToYear(z, y)) /\ e \in Events(z, AllOnsets(z))
             /\ Table(z, y)[k].utc = e.utc /\ Table(z, y)[k].after = z[e.obs].to
<1> DEFINE A == Events(z, UpToYear(z, y))
<1>1. A \in SUBSET Event /\ IsFiniteSet(A) /\ A \in SUBSET Events(z, AllOnsets(z))
  BY AllEventsType, EventsType, YearEvents, FS_Subset
<1>2. WellMade(z, Table(z, y)) /\ MadeOf(z, A, Table(z, y))
  BY TableIs
<1>3. k \in 1..Cardinality(A)
  BY <1>2 DEF WellMade, MadeOf
<1>4. InOrder(A)[k] \in A
  BY <1>1, <1>3, Sorted
<1>5. Table(z, y)[k] = Entry(z, InOrder(A), k) /\ Table(z, y)[k].utc = InOrder(A)[k].utc
  BY <1>2, <1>3 DEF MadeOf
<1>6. Table(z, y)[k].after = z[InOrder(A)[k].obs].to
  BY <1>5 DEF Entry
<1> QED BY <1>1, <1>4, <1>5, <1>6

LEMMA FullToTable ==
  ASSUME NEW z \in Zones, NEW y \in Int, NEW k \in DOMAIN Full[z],
         Settled(z, Full[z][k].utc, y)
  PROVE  k \in DOMAIN Table(z, y) /\ \A j \in 1..k : Table(z, y)[j] = Full[z][j]
<1> DEFINE S == Events(z, AllOnsets(z))
<1>1. S \in SUBSET Event /\ WellMade(z, Full[z])
  BY AllEventsType, EventsType, FullIs
<1>2. ASSUME NEW f \in S, Place(S, f) <= k - 1  PROVE f \in Events(z, UpToYear(z, y))
  <2> DEFINE p == Place(S, f) + 1
  <2>1. p \in DOMAIN Full[z] /\ p \in Int /\ Full[z][p].utc = f.utc
    BY InFull
  <2>2. Place(S, f) \in Int /\ k \in Int
    BY SMTT(30), <1>1, PlaceType, AllEventsType, EventsType DEF WellMade
  <2>3. p < k \/ p = k
    BY <1>2, <2>2
  <2> HIDE DEF p
  <2>4. f.utc <= Full[z][k].utc /\ Full[z][k].utc \in Int
    BY <1>1, <2>1, <2>3 DEF WellMade
  <2> QED BY <2>4, SettledEvents
<1> QED BY <1>2, FullPrefix

LEMMA TableToFull ==
  ASSUME NEW z \in Zones, NEW y \in Int, NEW k \in DOMAIN Table(z, y),
         Settled(z, Table(z, y)[k].utc, y)
  PROVE  k \in DOMAIN Full[z] /\ \A j \in 1..k : Table(z, y)[j] = Full[z][j]
<1> DEFINE e == InOrder(Events(z, UpToYear(z, y)))[k]
           S == Events(z, AllOnsets(z))
<1>1. e \in S /\ Table(z, y)[k].utc = e.utc /\ S \in SUBSET Event
  BY InTable, AllEventsType, EventsType
<1> HIDE DEF e
<1>2. ASSUME NEW f \in S, Earlier(f, e)  PROVE f \in Events(z, UpToYear(z, y))
  <2>1. f.utc <= Table(z, y)[k].utc /\ Table(z, y)[k].utc \in Int
    BY <1>1, <1>2 DEF Earlier, Event
  <2> QED BY <2>1, SettledEvents
<1> QED BY <1>2, TablePrefix DEF e

-----------------------------------------------------------------------------
(* The clock. *)

\* The offset between transitions; before the first and after the last.
LEMMA Steps ==
  ASSUME NEW z \in Zones, NEW t, WellMade(z, t), t # <<>>
  PROVE  /\ \A n \in 0..Len(t) : OffsetAfter(t, n) \in Int /\ OffsetAfter(t, n) \in Offsets(z)
         /\ \A k \in 1..Len(t) : /\ t[k].before = OffsetAfter(t, k - 1)
                                 /\ t[k].after = OffsetAfter(t, k)
<1>1. Len(t) \in Nat /\ DOMAIN t = 1..Len(t)
  BY DEF WellMade
<1>2. 1 \in DOMAIN t
  BY <1>1 DEF WellMade
<1>3. ASSUME NEW n \in 0..Len(t)
      PROVE  OffsetAfter(t, n) \in Int /\ OffsetAfter(t, n) \in Offsets(z)
  <2>1. CASE n = 0
    BY <1>2, <2>1 DEF WellMade, OffsetAfter
  <2>2. CASE n # 0
    <3>1. n \in DOMAIN t
      BY <1>1, <2>2
    <3>2. OffsetAfter(t, n) = t[n].after
      BY <2>2 DEF OffsetAfter
    <3> QED BY <3>1, <3>2 DEF WellMade
  <2> QED BY <2>1, <2>2
<1>4. ASSUME NEW k \in 1..Len(t)
      PROVE  t[k].before = OffsetAfter(t, k - 1) /\ t[k].after = OffsetAfter(t, k)
  <2>1. k \in DOMAIN t /\ k \in Int /\ k # 0
    BY <1>1
  <2>2. t[k].after = OffsetAfter(t, k)
    BY <2>1 DEF OffsetAfter
  <2>3. CASE k = 1
    <3>1. k - 1 = 0
      BY <2>3
    <3> QED BY <2>2, <2>3, <3>1 DEF OffsetAfter
  <2>4. CASE k # 1
    <3>1. k > 1 /\ k - 1 # 0
      BY <2>1, <2>4
    <3>2. t[k].before = t[k - 1].after
      BY <2>1, <3>1 DEF WellMade
    <3>3. OffsetAfter(t, k - 1) = t[k - 1].after
      BY <3>1 DEF OffsetAfter
    <3> QED BY <2>2, <3>2, <3>3
  <2> QED BY <2>3, <2>4
<1> QED BY <1>3, <1>4

\* What WellSpaced says of the four ways to read a change of the clock.
LEMMA Spaced ==
  ASSUME NEW z \in Zones, NEW j \in 1..Len(Full[z]), NEW k \in 1..Len(Full[z]), j < k
  PROVE  LET A(n) == OffsetAfter(Full[z], n)
             U(n) == Full[z][n].utc
         IN  /\ U(j) <= U(k)
             /\ U(j) + A(j - 1) <= U(k) + A(k - 1) /\ U(j) + A(j - 1) <= U(k) + A(k)
             /\ U(j) + A(j) <= U(k) + A(k - 1) /\ U(j) + A(j) <= U(k) + A(k)
<1> DEFINE t == Full[z]
           x == t[j]
           y == t[k]
<1>1. WellMade(z, t)
  BY FullIs
<1>2. t # <<>> /\ j \in DOMAIN t /\ k \in DOMAIN t
  BY <1>1 DEF WellMade
<1>3. WallFold(x, 0) <= WallFold(y, 1)
  BY <1>2, ZonesAssumption, Zenon DEF WellSpaced
<1>4. /\ x.before = OffsetAfter(t, j - 1) /\ x.after = OffsetAfter(t, j)
      /\ y.before = OffsetAfter(t, k - 1) /\ y.after = OffsetAfter(t, k)
  BY <1>1, <1>2, Steps
<1>5. /\ x.utc \in Int /\ x.before \in Int /\ x.after \in Int
      /\ y.utc \in Int /\ y.before \in Int /\ y.after \in Int /\ x.utc <= y.utc
  BY <1>1, <1>2 DEF WellMade
<1> HIDE DEF x, y
<1>6. /\ x.utc + x.before <= y.utc + y.before /\ x.utc + x.before <= y.utc + y.after
      /\ x.utc + x.after <= y.utc + y.before /\ x.utc + x.after <= y.utc + y.after
  BY SMTT(30), <1>3, <1>5 DEF WallFold, Larger, Smaller
<1> QED BY <1>4, <1>5, <1>6 DEF x, y

LEMMA CountedUtc ==
  ASSUME NEW z \in Zones, NEW u \in Int
  PROVE  /\ UtcCount(Full[z], u) \in 0..Len(Full[z])
         /\ \A k \in 1..Len(Full[z]) : Full[z][k].utc <= u <=> k <= UtcCount(Full[z], u)
<1> DEFINE t == Full[z]
           P == {k \in DOMAIN t : t[k].utc <= u}
<1>1. WellMade(z, t)
  BY FullIs
<1> HIDE DEF t
<1>2. /\ Len(t) \in Nat /\ DOMAIN t = 1..Len(t) /\ \A k \in DOMAIN t : t[k].utc \in Int
      /\ \A j, k \in DOMAIN t : j < k => t[j].utc <= t[k].utc
  BY <1>1 DEF WellMade
<1>3. \A j, k \in 1..Len(t) : j <= k /\ k \in P => j \in P
  <2>1. ASSUME NEW j \in 1..Len(t), NEW k \in 1..Len(t), j <= k, k \in P  PROVE j \in P
    <3>1. t[j].utc <= t[k].utc \/ j = k
      BY <1>2, <2>1
    <3>2. t[j].utc \in Int /\ t[k].utc \in Int /\ t[k].utc <= u
      BY <1>2, <2>1
    <3> QED BY <1>2, <3>1, <3>2, <2>1
  <2> QED BY <2>1
<1>4. P \in SUBSET (1..Len(t))
  BY <1>2
<1>5. \A k \in 1..Len(t) : k \in P <=> t[k].utc <= u
  BY <1>2
<1>6. UtcCount(t, u) = Cardinality(P)
  BY DEF UtcCount
<1> HIDE DEF P
<1> QED BY <1>2, <1>3, <1>4, <1>5, <1>6, CountUpTo DEF t

WallCount(t, wall, fold) == Cardinality({k \in DOMAIN t : WallFold(t[k], fold) <= wall})

LEMMA CountedWall ==
  ASSUME NEW z \in Zones, NEW wall \in Int, NEW fold \in {0, 1}, Full[z] # <<>>
  PROVE  LET A(n) == OffsetAfter(Full[z], n)
             U(n) == Full[z][n].utc
             n == WallCount(Full[z], wall, fold)
         IN  /\ n \in 0..Len(Full[z])
             /\ \A k \in 1..Len(Full[z]) : WallFold(Full[z][k], fold) <= wall <=> k <= n
             /\ fold = 0 => \A k \in 1..Len(Full[z]) :
                  (U(k) + A(k - 1) <= wall /\ U(k) + A(k) <= wall) <=> k <= n
             /\ fold = 1 => \A k \in 1..Len(Full[z]) :
                  (U(k) + A(k - 1) <= wall \/ U(k) + A(k) <= wall) <=> k <= n
<1> DEFINE t == Full[z]
           A(n) == OffsetAfter(t, n)
           U(n) == t[n].utc
           P == {k \in DOMAIN t : WallFold(t[k], fold) <= wall}
<1>1. WellMade(z, t)
  BY FullIs
<1>2. /\ Len(t) \in Nat /\ DOMAIN t = 1..Len(t)
      /\ \A k \in 1..Len(t) : U(k) \in Int /\ A(k) \in Int /\ A(k - 1) \in Int
  <2>1. Len(t) \in Nat /\ DOMAIN t = 1..Len(t) /\ \A k \in DOMAIN t : U(k) \in Int
    BY <1>1 DEF WellMade
  <2>2. \A n \in 0..Len(t) : A(n) \in Int
    BY <1>1, Steps
  <2> QED BY <2>1, <2>2
<1>3. ASSUME NEW k \in 1..Len(t)
      PROVE  /\ fold = 0 => (WallFold(t[k], fold) <= wall
                              <=> U(k) + A(k - 1) <= wall /\ U(k) + A(k) <= wall)
             /\ fold = 1 => (WallFold(t[k], fold) <= wall
                              <=> U(k) + A(k - 1) <= wall \/ U(k) + A(k) <= wall)
  <2>1. /\ t[k].before = A(k - 1) /\ t[k].after = A(k) /\ t[k].utc = U(k)
        /\ U(k) \in Int /\ A(k) \in Int /\ A(k - 1) \in Int
    BY <1>1, <1>2, Steps
  <2> HIDE DEF t, A, U
  <2> QED BY <2>1 DEF WallFold, Smaller, Larger
<1>4. P \in SUBSET (1..Len(t)) /\ \A k \in 1..Len(t) : k \in P <=> WallFold(t[k], fold) <= wall
  BY <1>2
<1>6. WallCount(t, wall, fold) = Cardinality(P)
  BY DEF WallCount
<1> HIDE DEF U, A, t, P
<1>5. ASSUME NEW j \in 1..Len(t), NEW k \in 1..Len(t), j <= k, k \in P
      PROVE  j \in P
  <2>1. CASE j = k
    BY <2>1, <1>5
  <2>2. CASE j < k
    <3>1. /\ U(j) + A(j - 1) <= U(k) + A(k - 1) /\ U(j) + A(j - 1) <= U(k) + A(k)
          /\ U(j) + A(j) <= U(k) + A(k - 1) /\ U(j) + A(j) <= U(k) + A(k)
      BY <2>2, Spaced DEF t, U, A
    <3>2. WallFold(t[k], fold) <= wall
      BY <1>4, <1>5
    <3>3. /\ U(j) \in Int /\ A(j) \in Int /\ A(j - 1) \in Int
          /\ U(k) \in Int /\ A(k) \in Int /\ A(k - 1) \in Int
      BY <1>2
    <3>4. CASE fold = 0
      <4>1. U(k) + A(k - 1) <= wall /\ U(k) + A(k) <= wall
        BY <1>3, <3>2, <3>4
      <4>2. U(j) + A(j - 1) <= wall /\ U(j) + A(j) <= wall
        BY SMTT(30), <4>1, <3>1, <3>3
      <4> QED BY <4>2, <1>3, <1>4, <3>4
    <3>5. CASE fold = 1
      <4>1. U(k) + A(k - 1) <= wall \/ U(k) + A(k) <= wall
        BY <1>3, <3>2, <3>5
      <4>2. U(j) + A(j - 1) <= wall \/ U(j) + A(j) <= wall
        BY SMTT(30), <4>1, <3>1, <3>3
      <4> QED BY <4>2, <1>3, <1>4, <3>5
    <3> QED BY <3>4, <3>5
  <2> QED BY <2>1, <2>2, <1>2, <1>5
<1>7. /\ Cardinality(P) \in 0..Len(t)
      /\ \A k \in 1..Len(t) : WallFold(t[k], fold) <= wall <=> k <= Cardinality(P)
  BY <1>2, <1>4, <1>5, CountUpTo
<1> QED BY <1>3, <1>6, <1>7 DEF t, U, A

-----------------------------------------------------------------------------
(* PEP 495's readings, from the full list. *)

LEMMA InstantsAre ==
  ASSUME zone \in Zones, Full[zone] # <<>>, NEW wall \in Int
  PROVE  /\ Instants(wall) \subseteq Int
         /\ \A u \in Int : /\ ClockOffset(u) \in Int
                           /\ u \in Instants(wall) <=> u + ClockOffset(u) = wall
<1>1. WellMade(zone, Full[zone])
  BY FullIs
<1>2. ASSUME NEW u \in Int
      PROVE  ClockOffset(u) \in Offsets(zone) /\ ClockOffset(u) \in Int
  BY <1>1, Steps, CountedUtc DEF ClockOffset
<1>3. \A o \in Offsets(zone) : o \in Int
  BY OffsetsType
<1>4. Instants(wall) \subseteq Int
  BY <1>3 DEF Instants
<1>5. ASSUME NEW u \in Int, u + ClockOffset(u) = wall  PROVE u \in Instants(wall)
  <2>1. u = wall - ClockOffset(u) /\ ClockOffset(u) \in Offsets(zone)
    BY <1>2, <1>5
  <2>2. u \in {wall - o : o \in Offsets(zone)}
    BY <2>1
  <2> QED BY <2>2, <1>5 DEF Instants
<1>6. ASSUME NEW u \in Instants(wall)  PROVE u + ClockOffset(u) = wall
  BY DEF Instants
<1> QED BY <1>2, <1>4, <1>5, <1>6

\* fold=0.
LEMMA FirstReading ==
  ASSUME zone \in Zones, Full[zone] # <<>>, NEW wall \in Int
  PROVE  Pep495(wall, 0, WallOffset(Full[zone], wall, 0))
<1> DEFINE t == Full[zone]
           N == Len(t)
           A(k) == OffsetAfter(t, k)
           U(k) == t[k].utc
           m(v) == UtcCount(t, v)
           n == WallCount(t, wall, 0)
           first == wall - A(n)
<1>1. WellMade(zone, t)
  BY FullIs
<1>2. N \in Nat /\ DOMAIN t = 1..N /\ \A k \in 1..N : U(k) \in Int
  BY <1>1 DEF WellMade
<1>3. \A k \in 0..N : A(k) \in Int
  BY <1>1, Steps
<1>4. \A k \in 1..N : t[k].before = A(k - 1) /\ t[k].after = A(k)
  BY <1>1, Steps
<1>5. /\ n \in 0..N
      /\ \A k \in 1..N : (U(k) + A(k - 1) <= wall /\ U(k) + A(k) <= wall) <=> k <= n
  BY CountedWall
<1>6. \A v \in Int : m(v) \in 0..N /\ \A k \in 1..N : U(k) <= v <=> k <= m(v)
  BY CountedUtc
<1>7. /\ Instants(wall) \subseteq Int
      /\ \A v \in Int : v \in Instants(wall) <=> v + A(m(v)) = wall
  BY InstantsAre DEF ClockOffset
<1>8. WallOffset(t, wall, 0) = A(n)
  BY DEF WallOffset, WallCount
<1>9. \A j, k \in 1..N : j < k => U(j) <= U(k) /\ U(j) + A(j) <= U(k) + A(k)
  BY Spaced
<1> HIDE DEF t, N, A, U, m, n
<1>10. ASSUME NEW v \in Instants(wall)
       PROVE  /\ v \in Int /\ m(v) >= n
              /\ m(v) = n => v = first
              /\ m(v) > n => U(n + 1) <= v /\ U(n + 1) + A(n + 1) <= wall
  <2>1. v \in Int /\ m(v) \in 0..N /\ v + A(m(v)) = wall /\ A(m(v)) \in Int
    BY <1>3, <1>6, <1>7
  <2>2. ASSUME m(v) < n  PROVE FALSE
    <3>1. m(v) + 1 \in 1..N /\ m(v) + 1 <= n /\ (m(v) + 1) - 1 = m(v)
      <4>1. PICK a \in Int, b \in Int : a = m(v) /\ b = n /\ 0 <= a /\ a < b /\ b <= N
        BY <2>1, <2>2, <1>2, <1>5
      <4>2. a + 1 \in 1..N /\ a + 1 <= b /\ (a + 1) - 1 = a
        BY <4>1, <1>2
      <4> QED BY <4>1, <4>2
    <3>2. U(m(v) + 1) + A(m(v)) <= wall
      BY <3>1, <1>5
    <3>3. ~(U(m(v) + 1) <= v) /\ U(m(v) + 1) \in Int
      BY SMTT(30), <3>1, <2>1, <1>2, <1>6
    <3> QED BY <2>1, <3>2, <3>3
  <2>3. ASSUME m(v) > n
        PROVE  U(n + 1) <= v /\ U(n + 1) + A(n + 1) <= wall
    <3>1. n + 1 \in 1..N /\ m(v) \in 1..N /\ (n + 1 = m(v) \/ n + 1 < m(v))
      BY <2>1, <2>3, <1>2, <1>5
    <3>2. U(m(v)) <= v /\ U(m(v)) \in Int /\ U(n + 1) \in Int /\ A(n + 1) \in Int
      BY SMTT(30), <2>1, <3>1, <1>2, <1>3, <1>6
    <3>3. U(m(v)) + A(m(v)) <= wall
      BY <2>1, <3>2
    <3>4. U(n + 1) <= U(m(v)) /\ U(n + 1) + A(n + 1) <= U(m(v)) + A(m(v))
      BY <3>1, <3>2, <2>1, <1>9
    <3> QED BY <3>2, <3>3, <3>4, <2>1
  <2> QED BY <2>1, <2>2, <2>3, <1>5
<1>11. first \in Int /\ first + A(n) = wall
  BY <1>3, <1>5
<1>12. n >= 1 => U(n) <= first
  <2>1. n >= 1 => n \in 1..N /\ U(n) + A(n) <= wall
    BY <1>2, <1>5
  <2> QED BY <2>1, <1>2, <1>3, <1>5
<1>13. CASE n = N \/ first < U(n + 1)
  <2>1. m(first) = n
    <3>1. m(first) \in 0..N
      BY <1>6, <1>11
    <3>2. ~(m(first) < n)
      <4>1. n >= 1 => n \in 1..N
        BY <1>2, <1>5
      <4> QED BY <3>1, <4>1, <1>5, <1>6, <1>11, <1>12
    <3>3. ~(m(first) > n)
      <4>1. m(first) > n => n + 1 \in 1..N /\ n + 1 <= m(first) /\ n < N
        BY <3>1, <1>2, <1>5
      <4>2. m(first) > n => U(n + 1) <= first /\ U(n + 1) \in Int
        BY <4>1, <1>2, <1>6, <1>11
      <4> QED BY <4>1, <4>2, <1>13, <1>5, <1>11, <1>2
    <3> QED BY <3>1, <3>2, <3>3, <1>5
  <2>2. first \in Instants(wall)
    BY <2>1, <1>7, <1>11
  <2>3. ASSUME NEW v \in Instants(wall)  PROVE first <= v
    <3>1. v \in Int /\ m(v) \in 0..N
      BY <1>6, <1>10
    <3>2. m(v) > n => first < U(n + 1) /\ U(n + 1) <= v /\ U(n + 1) \in Int
      <4>1. m(v) > n => n + 1 \in 1..N
        BY <3>1, <1>2, <1>5
      <4> QED BY <4>1, <3>1, <1>2, <1>5, <1>10, <1>13
    <3> QED BY <3>1, <3>2, <1>10, <1>11, <1>5
  <2>4. A(n) = wall - first
    BY <1>11, <1>3, <1>5
  <2>5. Instants(wall) # {}
    BY <2>2
  <2>6. \E u \in Instants(wall) : A(n) = wall - u /\ \A v \in Instants(wall) : u <= v
    BY <2>2, <2>3, <2>4
  <2>7. Pep495(wall, 0, A(n))
    BY <2>5, <2>6 DEF Pep495
  <2> QED BY <2>7, <1>8 DEF t
<1>14. CASE n < N /\ U(n + 1) <= first
  <2>1. n + 1 \in 1..N /\ (n + 1) - 1 = n
    BY <1>2, <1>5, <1>14
  <2>2. U(n + 1) + A(n) <= wall
    BY <2>1, <1>2, <1>3, <1>5, <1>11, <1>14
  <2>3. wall < U(n + 1) + A(n + 1)
    <3>1. ~(U(n + 1) + A(n + 1) <= wall)
      BY <2>1, <2>2, <1>5
    <3> QED BY <3>1, <2>1, <1>2, <1>3
  <2>4. ASSUME NEW v \in Instants(wall)  PROVE FALSE
    <3>1. m(v) \in 0..N /\ m(v) >= n
      BY <1>6, <1>10
    <3>2. m(v) # n
      <4>1. m(first) >= n + 1 /\ m(first) \in Int
        BY <2>1, <1>6, <1>11, <1>14
      <4> QED BY <4>1, <1>10, <1>5
    <3>3. ~(m(v) > n)
      BY SMTT(30), <1>10, <2>1, <2>3, <1>2, <1>3
    <3> QED BY <3>1, <3>2, <3>3, <1>5
  <2>5. Instants(wall) = {}
    BY <2>4
  <2>6. t[n + 1].before = A(n) /\ t[n + 1].after = A(n + 1) /\ n + 1 \in DOMAIN t
    BY <2>1, <1>2, <1>4
  <2>7. \E k \in DOMAIN t : /\ t[k].utc + t[k].before <= wall /\ wall < t[k].utc + t[k].after
                            /\ A(n) = t[k].before
    BY <2>2, <2>3, <2>6 DEF U
  <2> QED BY <2>5, <2>7, <1>8 DEF Pep495, t
<1> QED BY <1>2, <1>5, <1>11, <1>13, <1>14

\* fold=1.
LEMMA LastReading ==
  ASSUME zone \in Zones, Full[zone] # <<>>, NEW wall \in Int
  PROVE  Pep495(wall, 1, WallOffset(Full[zone], wall, 1))
<1> DEFINE t == Full[zone]
           N == Len(t)
           A(k) == OffsetAfter(t, k)
           U(k) == t[k].utc
           m(v) == UtcCount(t, v)
           n == WallCount(t, wall, 1)
           last == wall - A(n)
<1>1. WellMade(zone, t)
  BY FullIs
<1>2. N \in Nat /\ DOMAIN t = 1..N /\ \A k \in 1..N : U(k) \in Int
  BY <1>1 DEF WellMade
<1>3. \A k \in 0..N : A(k) \in Int
  BY <1>1, Steps
<1>4. \A k \in 1..N : t[k].before = A(k - 1) /\ t[k].after = A(k)
  BY <1>1, Steps
<1>5. /\ n \in 0..N
      /\ \A k \in 1..N : (U(k) + A(k - 1) <= wall \/ U(k) + A(k) <= wall) <=> k <= n
  BY CountedWall
<1>6. \A v \in Int : m(v) \in 0..N /\ \A k \in 1..N : U(k) <= v <=> k <= m(v)
  BY CountedUtc
<1>7. /\ Instants(wall) \subseteq Int
      /\ \A v \in Int : v \in Instants(wall) <=> v + A(m(v)) = wall
  BY InstantsAre DEF ClockOffset
<1>8. WallOffset(t, wall, 1) = A(n)
  BY DEF WallOffset, WallCount
<1>9. \A j, k \in 1..N : j < k => U(j) <= U(k) /\ U(j) + A(j - 1) <= U(k) + A(k - 1)
  BY Spaced
<1> HIDE DEF t, N, A, U, m, n
<1>10. ASSUME NEW v \in Instants(wall)
       PROVE  /\ v \in Int /\ m(v) <= n
              /\ m(v) = n => v = last
              /\ m(v) < n => v < U(n) /\ wall < U(n) + A(n - 1)
  <2>1. v \in Int /\ m(v) \in 0..N /\ v + A(m(v)) = wall /\ A(m(v)) \in Int
    BY <1>3, <1>6, <1>7
  <2>2. ASSUME m(v) > n  PROVE FALSE
    <3>1. m(v) \in 1..N /\ ~(m(v) <= n)
      BY SMTT(30), <2>1, <2>2, <1>2, <1>5
    <3>2. ~(U(m(v)) + A(m(v)) <= wall)
      BY <3>1, <1>5
    <3>3. U(m(v)) <= v /\ U(m(v)) \in Int
      BY SMTT(30), <3>1, <2>1, <1>2, <1>6
    <3> QED BY <2>1, <3>2, <3>3
  <2>3. ASSUME m(v) < n
        PROVE  v < U(n) /\ wall < U(n) + A(n - 1)
    <3> DEFINE k == m(v) + 1
    <3>1. k \in 1..N /\ n \in 1..N /\ (k = n \/ k < n) /\ k - 1 = m(v) /\ ~(k <= m(v))
          /\ n - 1 \in 0..N
      BY SMTT(30), <2>1, <2>3, <1>2, <1>5
    <3> HIDE DEF k
    <3>6. U(k) \in Int /\ U(n) \in Int /\ A(n - 1) \in Int
      BY <3>1, <1>2, <1>3
    <3>7. ~(U(k) <= v)
      BY <2>1, <3>1, <1>6
    <3>2. v < U(k) /\ U(k) \in Int /\ U(n) \in Int /\ A(n - 1) \in Int
      BY <2>1, <3>6, <3>7
    <3>3. wall < U(k) + A(k - 1)
      BY <2>1, <3>1, <3>2
    <3>4. U(k) <= U(n) /\ U(k) + A(k - 1) <= U(n) + A(n - 1)
      <4>1. CASE k = n
        BY <4>1, <3>2
      <4>2. CASE k < n
        BY <4>2, <3>1, <1>9
      <4> QED BY <4>1, <4>2, <3>1
    <3>5. A(k - 1) \in Int
      BY <2>1, <3>1
    <3> QED BY <3>2, <3>3, <3>4, <3>5, <2>1
  <2> QED BY <2>1, <2>2, <2>3, <1>5
<1>11. last \in Int /\ last + A(n) = wall
  BY <1>3, <1>5
<1>12. n < N => last < U(n + 1) /\ n + 1 \in 1..N /\ U(n + 1) \in Int
  <2>1. n < N => n + 1 \in 1..N /\ (n + 1) - 1 = n /\ ~(n + 1 <= n)
    BY <1>2, <1>5
  <2>2. n < N => ~(U(n + 1) + A(n) <= wall)
    BY <2>1, <1>5
  <2> QED BY <2>1, <2>2, <1>2, <1>3, <1>5, <1>11
<1>13. CASE n = 0 \/ U(n) <= last
  <2>1. m(last) = n
    <3>1. m(last) \in 0..N
      BY <1>6, <1>11
    <3>2. ~(m(last) < n)
      <4>1. n > 0 => n \in 1..N
        BY <1>2, <1>5
      <4> QED BY <3>1, <4>1, <1>5, <1>6, <1>11, <1>13
    <3>3. ~(m(last) > n)
      <4>1. m(last) > n => n < N /\ n + 1 <= m(last) /\ n + 1 \in 1..N
        BY <3>1, <1>2, <1>5
      <4>2. m(last) > n => U(n + 1) <= last
        BY <4>1, <1>6, <1>11
      <4> QED BY <4>1, <4>2, <1>11, <1>12
    <3> QED BY <3>1, <3>2, <3>3, <1>5
  <2>2. last \in Instants(wall)
    BY <2>1, <1>7, <1>11
  <2>3. ASSUME NEW v \in Instants(wall)  PROVE v <= last
    <3>1. v \in Int /\ m(v) \in 0..N
      BY <1>6, <1>10
    <3>2. m(v) < n => v < U(n) /\ U(n) <= last /\ U(n) \in Int
      <4>1. m(v) < n => n \in 1..N
        BY <3>1, <1>2, <1>5
      <4> QED BY <4>1, <3>1, <1>2, <1>5, <1>10, <1>13
    <3> QED BY <3>1, <3>2, <1>10, <1>11, <1>5
  <2>4. A(n) = wall - last
    BY <1>11, <1>3, <1>5
  <2>5. Instants(wall) # {}
    BY <2>2
  <2>6. \E u \in Instants(wall) : A(n) = wall - u /\ \A v \in Instants(wall) : v <= u
    BY <2>2, <2>3, <2>4
  <2>7. Pep495(wall, 1, A(n))
    BY <2>5, <2>6 DEF Pep495
  <2> QED BY <2>7, <1>8 DEF t
<1>14. CASE n > 0 /\ ~(U(n) <= last)
  <2>1. n \in 1..N /\ U(n) \in Int /\ A(n) \in Int /\ A(n - 1) \in Int
    <3>1. n \in 1..N /\ n - 1 \in 0..N
      BY <1>2, <1>5, <1>14
    <3> QED BY <3>1, <1>2, <1>3, <1>5
  <2>2. wall < U(n) + A(n)
    BY <2>1, <1>11, <1>14
  <2>3. U(n) + A(n - 1) <= wall
    <3>1. U(n) + A(n - 1) <= wall \/ U(n) + A(n) <= wall
      BY <2>1, <1>5
    <3> QED BY <3>1, <2>1, <2>2
  <2>4. ASSUME NEW v \in Instants(wall)  PROVE FALSE
    <3>1. m(v) \in 0..N /\ m(v) <= n
      BY <1>6, <1>10
    <3>2. m(v) # n
      <4>1. ~(n <= m(last)) /\ m(last) \in Int
        BY <2>1, <1>6, <1>11, <1>14
      <4> QED BY <4>1, <1>10, <1>5
    <3>3. ~(m(v) < n)
      BY <1>10, <2>1, <2>3
    <3> QED BY <3>1, <3>2, <3>3, <1>5
  <2>5. Instants(wall) = {}
    BY <2>4
  <2>6. t[n].before = A(n - 1) /\ t[n].after = A(n) /\ n \in DOMAIN t
    BY <2>1, <1>2, <1>4
  <2>7. \E k \in DOMAIN t : /\ t[k].utc + t[k].before <= wall /\ wall < t[k].utc + t[k].after
                            /\ A(n) = t[k].after
    BY <2>2, <2>3, <2>6 DEF U
  <2>8. Pep495(wall, 1, A(n))
    BY <2>5, <2>7 DEF Pep495, t
  <2> QED BY <2>8, <1>8 DEF t
<1> QED BY <1>2, <1>5, <1>11, <1>13, <1>14

\* The wall time and fold that stand for an instant.
LEMMA UtcReading ==
  ASSUME zone \in Zones, Full[zone] # <<>>, NEW u \in Int
  PROVE  LET wall == u + ClockOffset(u)
             fold == FoldAt(Full[zone], u)
         IN  /\ fold \in {0, 1}
             /\ fold = 1 <=> \E v \in Instants(wall) : v < u
             /\ Pep495(wall, fold, ClockOffset(u))
<1> DEFINE t == Full[zone]
           N == Len(t)
           A(k) == OffsetAfter(t, k)
           U(k) == t[k].utc
           m(v) == UtcCount(t, v)
           n == m(u)
           wall == u + A(n)
           fold == FoldAt(t, u)
<1>1. WellMade(zone, t)
  BY FullIs
<1>2. N \in Nat /\ DOMAIN t = 1..N /\ \A k \in 1..N : U(k) \in Int
  BY <1>1 DEF WellMade
<1>3. \A k \in 0..N : A(k) \in Int
  BY <1>1, Steps
<1>4. \A k \in 1..N : t[k].before = A(k - 1) /\ t[k].after = A(k)
  BY <1>1, Steps
<1>5. \A v \in Int : m(v) \in 0..N /\ \A k \in 1..N : U(k) <= v <=> k <= m(v)
  BY CountedUtc
<1>6. n \in 0..N /\ A(n) \in Int /\ wall \in Int
  BY SMTT(30), <1>3, <1>5
<1>7. /\ Instants(wall) \subseteq Int
      /\ \A v \in Int : v \in Instants(wall) <=> v + A(m(v)) = wall
  BY <1>6, InstantsAre DEF ClockOffset
<1>8. \A j, k \in 1..N : j < k =>
        /\ U(j) <= U(k) /\ U(j) + A(j - 1) <= U(k) + A(k) /\ U(j) + A(j) <= U(k) + A(k)
        /\ U(j) + A(j - 1) <= U(k) + A(k - 1)
  BY Spaced
<1>9. fold = IF n # 0 /\ u - t[n].utc < t[n].before - t[n].after THEN 1 ELSE 0
  BY DEF FoldAt
<1>10. ClockOffset(u) = A(n)
  BY DEF ClockOffset
<1> HIDE DEF t, N, A, U, m, fold
<1>11. fold \in {0, 1} /\ (fold = 1 <=> n # 0 /\ u + A(n) < U(n) + A(n - 1))
  <2>1. CASE n = 0
    BY <2>1, <1>9
  <2>2. CASE n # 0
    <3>1. n \in 1..N /\ n - 1 \in 0..N
      BY <2>2, <1>2, <1>6
    <3>2. /\ t[n].utc = U(n) /\ t[n].before = A(n - 1) /\ t[n].after = A(n)
          /\ U(n) \in Int /\ A(n) \in Int /\ A(n - 1) \in Int
      BY <3>1, <1>2, <1>3, <1>4, <1>6 DEF U
    <3> QED BY <2>2, <3>2, <1>9
  <2> QED BY <2>1, <2>2
<1>12. u \in Instants(wall)
  BY <1>6, <1>7
<1>13. n # 0 => U(n) <= u /\ n \in 1..N /\ U(n) \in Int /\ n - 1 \in 0..N /\ A(n - 1) \in Int
  <2>1. n # 0 => n \in 1..N /\ n - 1 \in 0..N /\ n <= n
    BY <1>2, <1>6
  <2> QED BY <2>1, <1>2, <1>3, <1>5
<1>14. ASSUME NEW v \in Instants(wall)
       PROVE  /\ v \in Int /\ m(v) \in 0..N
              /\ m(v) = n => v = u
              /\ m(v) < n => v < u
              /\ m(v) < n => wall < U(n) + A(n - 1)
              /\ m(v) > n => u < v
              /\ m(v) > n => ~(fold = 1)
  <2>1. v \in Int /\ m(v) \in 0..N /\ v + A(m(v)) = wall /\ A(m(v)) \in Int
    BY <1>3, <1>5, <1>7
  <2>2. m(v) = n => v = u
    BY <2>1, <1>6
  <2>3. ASSUME m(v) < n
        PROVE  v < u /\ wall < U(n) + A(n - 1)
    <3> DEFINE k == m(v) + 1
    <3>1. k \in 1..N /\ n \in 1..N /\ (k = n \/ k < n) /\ k - 1 = m(v) /\ ~(k <= m(v))
          /\ n # 0
      BY SMTT(30), <2>1, <2>3, <1>2, <1>6
    <3> HIDE DEF k
    <3>2. v < U(k) /\ U(k) \in Int /\ A(k - 1) \in Int
      BY SMTT(30), <2>1, <3>1, <1>2, <1>5
    <3>3. U(k) <= U(n)
      BY <3>1, <3>2, <1>8
    <3>4. v < u
      BY SMTT(30), <2>1, <3>1, <3>2, <3>3, <1>13
    <3>5. wall < U(k) + A(k - 1)
      BY <2>1, <3>1, <3>2
    <3>6. CASE k < n
      <4>1. U(k) + A(k - 1) <= U(n) + A(n - 1)
        BY <3>1, <3>6, <1>8
      <4> QED BY SMTT(30), <3>1, <3>2, <3>4, <3>5, <4>1, <1>6, <1>13
    <3>7. CASE k = n
      BY <3>4, <3>5, <3>7
    <3> QED BY <3>1, <3>6, <3>7
  <2>4. ASSUME m(v) > n
        PROVE  u < v /\ ~(fold = 1)
    <3>1. m(v) \in 1..N /\ m(v) <= m(v) /\ ~(m(v) <= n)
      BY <2>1, <2>4, <1>2, <1>6
    <3>2. U(m(v)) <= v /\ U(m(v)) \in Int
      BY <3>1, <2>1, <1>2, <1>5
    <3>3. ~(U(m(v)) <= u)
      BY <3>1, <1>5
    <3>4. ASSUME n # 0  PROVE ~(u + A(n) < U(n) + A(n - 1))
      <4>1. U(n) + A(n - 1) <= U(m(v)) + A(m(v))
        BY <2>4, <3>1, <3>4, <1>8, <1>13
      <4> QED BY SMTT(30), <4>1, <2>1, <3>2, <3>4, <1>6, <1>13
    <3> QED BY <2>1, <3>2, <3>3, <3>4, <1>11
  <2> QED BY <2>1, <2>2, <2>3, <2>4
<1>15. ASSUME fold = 1  PROVE \E v \in Instants(wall) : v < u
  <2> DEFINE v == u + A(n) - A(n - 1)
  <2>1. n # 0 /\ v < U(n) /\ v \in Int
    BY SMTT(30), <1>6, <1>11, <1>13, <1>15
  <2>2. v < u /\ v + A(n - 1) = wall
    BY SMTT(30), <2>1, <1>6, <1>13
  <2>3. m(v) = n - 1
    <3>1. m(v) \in 0..N
      BY <2>1, <1>5
    <3>2. ~(n <= m(v))
      BY SMTT(30), <2>1, <1>5, <1>13, <1>6
    <3>3. ASSUME m(v) < n - 1  PROVE FALSE
      <4>1. n - 1 \in 1..N /\ n - 1 < n /\ n \in 1..N
        BY SMTT(30), <2>1, <3>1, <3>3, <1>6, <1>13
      <4>2. U(n - 1) + A(n - 1) <= U(n) + A(n)
        BY <4>1, <1>8
      <4>3. U(n - 1) \in Int /\ U(n) <= u
        BY <4>1, <1>2, <1>13, <2>1
      <4>4. U(n - 1) <= v
        BY SMTT(30), <4>2, <4>3, <2>1, <1>6, <1>13
      <4>5. n - 1 <= m(v)
        BY <4>1, <4>4, <2>1, <1>5
      <4> QED BY <4>5, <3>3, <3>1, <1>6
    <3> QED BY <3>1, <3>2, <3>3, <1>6
  <2>4. v \in Instants(wall)
    BY <2>1, <2>2, <2>3, <1>7
  <2> QED BY <2>2, <2>4
<1>16. ASSUME NEW v \in Instants(wall), v < u  PROVE fold = 1
  <2>1. /\ v \in Int /\ m(v) \in 0..N
        /\ m(v) = n => v = u
        /\ m(v) < n => wall < U(n) + A(n - 1)
        /\ m(v) > n => u < v
    BY <1>14
  <2>2. m(v) < n /\ n # 0
    BY <2>1, <1>6, <1>16
  <2> QED BY <2>1, <2>2, <1>11, <1>6
<1>17. Pep495(wall, fold, A(n))
  <2>1. Instants(wall) # {} /\ A(n) = wall - u
    BY <1>6, <1>12
  <2>2. CASE fold = 1
    <3>1. ASSUME NEW v \in Instants(wall)  PROVE v <= u
      <4>1. /\ v \in Int /\ m(v) \in 0..N
            /\ m(v) = n => v = u
            /\ m(v) < n => v < u
            /\ m(v) > n => ~(fold = 1)
        BY <1>14
      <4> QED BY <4>1, <2>2, <1>6
    <3> QED BY <2>1, <2>2, <3>1, <1>12 DEF Pep495
  <2>3. CASE fold = 0
    <3>1. ASSUME NEW v \in Instants(wall)  PROVE u <= v
      <4>1. v \in Int /\ ~(v < u)
        BY <1>14, <1>16, <2>3
      <4> QED BY <4>1
    <3> QED BY <2>1, <2>3, <3>1, <1>12 DEF Pep495
  <2> QED BY <2>2, <2>3, <1>11
<1> QED BY <1>10, <1>11, <1>15, <1>16, <1>17 DEF fold, t

-----------------------------------------------------------------------------
(* The same from a table. *)

\* No change that matters to that wall time can be missing from the table.
Within(z, wall, y) ==
  Year(wall) < y \/ (Year(wall) = y /\ \A o, p \in Offsets(z) : Year(wall + o - p) <= y)

LEMMA Nearby ==
  ASSUME NEW z \in Zones, NEW y \in Int, NEW wall \in Int, Within(z, wall, y),
         NEW u \in Int, NEW p \in Offsets(z), u + p <= wall
  PROVE  Settled(z, u, y)
<1>1. ASSUME NEW o \in Offsets(z)  PROVE Year(u + o) <= y
  <2>1. /\ o \in Int /\ p \in Int /\ -YearLen < 2 * o /\ 2 * o < YearLen
        /\ -YearLen < 2 * p /\ 2 * p < YearLen
    BY OffsetsType
  <2>2. u + o <= wall + o - p /\ u + o \in Int /\ wall + o - p \in Int
    BY <2>1
  <2>3. Year(u + o) <= Year(wall + o - p) /\ Year(u + o) \in Int /\ Year(wall + o - p) \in Int
    BY <2>2, YearGrows
  <2>4. CASE Year(wall) < y
    <3>1. Year(wall) \in Int /\ Year(wall) <= y - 1 /\ y - 1 \in Int
      BY <2>4, YearUpTo
    <3>2. wall < EndOf(y - 1)
      BY <3>1, YearUpTo
    <3>3. EndOf((y - 1) + 1) = EndOf(y - 1) + YearLen /\ EndOf(y - 1) \in Int /\ (y - 1) + 1 = y
      BY <3>1, EndType
    <3>4. wall + o - p < EndOf(y)
      BY <2>1, <3>2, <3>3, YearLenPositive
    <3>5. Year(wall + o - p) <= y
      BY <2>2, <3>4, YearUpTo
    <3> QED BY <2>3, <3>5
  <2>5. CASE \A q, r \in Offsets(z) : Year(wall + q - r) <= y
    BY <2>3, <2>5
  <2> QED BY <2>4, <2>5 DEF Within
<1> QED BY <1>1 DEF Settled

LEMMA NearbyUtc ==
  ASSUME NEW z \in Zones, NEW y \in Int, NEW u \in Int, Year(u) + 1 <= y,
         NEW v \in Int, v <= u
  PROVE  Settled(z, v, y)
<1>1. ASSUME NEW o \in Offsets(z)  PROVE Year(v + o) <= y
  <2>1. o \in Int /\ 2 * o < YearLen
    BY OffsetsType
  <2>2. Year(u) \in Int /\ Year(u) <= y - 1 /\ y - 1 \in Int
    BY YearUpTo
  <2>3. u < EndOf(y - 1)
    BY <2>2, YearUpTo
  <2>4. EndOf((y - 1) + 1) = EndOf(y - 1) + YearLen /\ EndOf(y - 1) \in Int /\ (y - 1) + 1 = y
    BY <2>2, EndType
  <2>5. v + o < EndOf(y) /\ v + o \in Int
    BY <2>1, <2>3, <2>4, YearLenPositive
  <2> QED BY <2>5, YearUpTo
<1> QED BY <1>1 DEF Settled

\* A table that has any change has the first, for the wall is first there, too.
LEMMA FirstChange ==
  ASSUME NEW z \in Zones, NEW y \in Int, Table(z, y) # <<>>
  PROVE  Full[z] # <<>> /\ Table(z, y)[1] = Full[z][1]
<1> DEFINE A == Events(z, UpToYear(z, y))
           S == Events(z, AllOnsets(z))
           e == InOrder(S)[1]
           d == InOrder(A)[1]
<1>1. S \in SUBSET Event /\ IsFiniteSet(S) /\ A \in SUBSET S
  BY AllEventsType, EventsType, YearEvents
<1>2. IsFiniteSet(A) /\ A \in SUBSET Event /\ Cardinality(A) <= Cardinality(S)
  BY <1>1, FS_Subset
<1>3. Cardinality(S) \in Nat /\ Cardinality(A) \in Nat
  BY <1>1, <1>2, FS_CardinalityType
<1>4. /\ Len(Table(z, y)) = Cardinality(A) /\ Len(Full[z]) = Cardinality(S)
      /\ WellMade(z, Table(z, y)) /\ WellMade(z, Full[z])
  BY TableIs, FullIs DEF MadeOf
<1>5. 1 \in 1..Cardinality(A) /\ 1 \in 1..Cardinality(S) /\ Full[z] # <<>>
  BY <1>2, <1>3, <1>4 DEF WellMade
<1>6. /\ e.obs \in DOMAIN z /\ Full[z][1] = Entry(z, InOrder(S), 1)
      /\ e \in S
  BY <1>1, <1>5, FullIs, Sorted DEF MadeOf
<1>7. Full[z][1].utc = e.utc /\ Full[z][1].before = z[e.obs].from
  BY <1>6 DEF Entry
<1>8. d \in A
  BY <1>2, <1>5, Sorted
<1> HIDE DEF e, d
<1>9. /\ d.obs \in DOMAIN z /\ d.utc + z[d.obs].from \in AllOnsets(z)[d.obs]
      /\ Year(d.utc + z[d.obs].from) <= y
  BY <1>1, <1>8, YearEvents, AllEventsType, EventsType
<1>10. e.utc + z[e.obs].from <= d.utc + z[d.obs].from
  <2>1. d.utc + z[d.obs].from \in Onsets(z[d.obs])
    BY <1>9 DEF AllOnsets
  <2>2. Full[z][1].utc + Full[z][1].before <= d.utc + z[d.obs].from
    BY <2>1, <1>9, ZonesAssumption, Zenon DEF StartsFirst
  <2> QED BY <2>2, <1>7
<1>11. e.utc + z[e.obs].from \in Int /\ d.utc + z[d.obs].from \in Int
  <2>1. z[e.obs] \in ObservanceRecord /\ z[d.obs] \in ObservanceRecord
    BY <1>6, <1>9, AllEventsType
  <2>2. z[e.obs].from \in Int /\ z[d.obs].from \in Int
    BY <2>1 DEF ObservanceRecord
  <2> QED BY <1>1, <1>6, <1>8, <2>2 DEF Event
<1>12. Year(e.utc + z[e.obs].from) <= y
  <2>1. /\ Year(e.utc + z[e.obs].from) <= Year(d.utc + z[d.obs].from)
        /\ Year(e.utc + z[e.obs].from) \in Int /\ Year(d.utc + z[d.obs].from) \in Int
    BY <1>10, <1>11, YearGrows
  <2> QED BY <2>1, <1>9
<1>13. e \in A
  BY <1>6, <1>12, YearEvents
<1>14. ASSUME NEW f \in S, Place(S, f) <= 1 - 1  PROVE f \in A
  <2>1. Place(S, f) \in 0..(Cardinality(S) - 1) /\ InOrder(S)[Place(S, f) + 1] = f
    BY <1>1, PlaceType, Sorted
  <2>2. f = e
    BY <2>1, <1>3, <1>14 DEF e
  <2> QED BY <2>2, <1>13
<1> HIDE DEF A, S
<1>15. \A j \in 1..1 : InOrder(A)[j] = InOrder(S)[j]
  BY <1>1, <1>5, <1>14, WholeToPart
<1>16. \A j \in 1..1 : Table(z, y)[j] = Full[z][j]
  <2>1. 1 \in Nat /\ 1 <= Len(Table(z, y)) /\ 1 <= Len(Full[z])
    BY <1>3, <1>4, <1>5
  <2> QED BY <2>1, <1>15, SameTransitions DEF A, S
<1> QED BY <1>5, <1>16

LEMMA WallFoldType ==
  ASSUME NEW z \in Zones, NEW t, WellMade(z, t), NEW k \in DOMAIN t, NEW fold \in {0, 1}
  PROVE  /\ t[k].utc \in Int
         /\ \E p \in Offsets(z) : WallFold(t[k], fold) = t[k].utc + p
<1>1. /\ t[k].utc \in Int /\ t[k].before \in Int /\ t[k].after \in Int
      /\ t[k].before \in Offsets(z) /\ t[k].after \in Offsets(z)
  BY DEF WellMade
<1>2. WallFold(t[k], fold) \in {t[k].utc + t[k].before, t[k].utc + t[k].after}
  BY <1>1 DEF WallFold, Larger, Smaller
<1> QED BY <1>1, <1>2

\* A table and the full list that have the same changes up to a wall time give
\* the same offset.
LEMMA SameCount ==
  ASSUME NEW z \in Zones, NEW y \in Int, Table(z, y) # <<>>,
         NEW wall \in Int, NEW fold \in {0, 1},
         \A k \in DOMAIN Table(z, y) : WallFold(Table(z, y)[k], fold) <= wall =>
           k \in DOMAIN Full[z] /\ Table(z, y)[k] = Full[z][k],
         \A k \in DOMAIN Full[z] : WallFold(Full[z][k], fold) <= wall =>
           k \in DOMAIN Table(z, y) /\ Table(z, y)[k] = Full[z][k]
  PROVE  WallOffset(Table(z, y), wall, fold) = WallOffset(Full[z], wall, fold)
<1> DEFINE t == Table(z, y)
           f == Full[z]
           P == {k \in DOMAIN t : WallFold(t[k], fold) <= wall}
           Q == {k \in DOMAIN f : WallFold(f[k], fold) <= wall}
           n == WallCount(f, wall, fold)
<1>1. WellMade(z, t) /\ WellMade(z, f)
  BY TableIs, FullIs
<1>2. f # <<>> /\ t[1] = f[1]
  BY FirstChange
<1>3. (\A k \in P : k \in Q /\ t[k] = f[k]) /\ (\A k \in Q : k \in P /\ t[k] = f[k])
  OBVIOUS
<1>4. P = Q
  BY <1>3
<1>5. n \in 0..Len(f) /\ \A k \in 1..Len(f) : WallFold(f[k], fold) <= wall <=> k <= n
  BY <1>2, CountedWall
<1>6. WallOffset(t, wall, fold) = OffsetAfter(t, n) /\ WallOffset(f, wall, fold) = OffsetAfter(f, n)
  BY <1>4 DEF WallOffset, WallCount
<1>7. CASE n = 0
  BY <1>2, <1>6, <1>7 DEF OffsetAfter
<1>8. CASE n # 0
  <2>1. n \in 1..Len(f) /\ n <= n /\ DOMAIN f = 1..Len(f)
    BY <1>1, <1>5, <1>8 DEF WellMade
  <2>2. n \in Q
    BY <2>1, <1>5
  <2>3. t[n] = f[n]
    BY <2>2, <1>3
  <2> QED BY <2>3, <1>6, <1>8 DEF OffsetAfter
<1> QED BY <1>7, <1>8

\* utcoffset's answer.
LEMMA SameWallOffset ==
  ASSUME NEW z \in Zones, NEW y \in Int, Table(z, y) # <<>>,
         NEW wall \in Int, NEW fold \in {0, 1}, Within(z, wall, y)
  PROVE  WallOffset(Table(z, y), wall, fold) = WallOffset(Full[z], wall, fold)
<1> DEFINE t == Table(z, y)
           f == Full[z]
<1>1. WellMade(z, t) /\ WellMade(z, f)
  BY TableIs, FullIs
<1>2. ASSUME NEW k \in DOMAIN t, WallFold(t[k], fold) <= wall  PROVE k \in DOMAIN f /\ t[k] = f[k]
  <2>1. PICK p \in Offsets(z) : WallFold(t[k], fold) = t[k].utc + p
    BY <1>1, WallFoldType
  <2>2. t[k].utc \in Int /\ t[k].utc + p <= wall
    BY <1>1, <1>2, <2>1, WallFoldType
  <2>3. Settled(z, t[k].utc, y)
    BY <2>2, Nearby
  <2>4. k \in DOMAIN f /\ \A j \in 1..k : t[j] = f[j]
    BY <2>3, TableToFull
  <2>5. k \in 1..k
    BY <2>4, <1>1 DEF WellMade
  <2> QED BY <2>4, <2>5
<1>3. ASSUME NEW k \in DOMAIN f, WallFold(f[k], fold) <= wall  PROVE k \in DOMAIN t /\ t[k] = f[k]
  <2>1. PICK p \in Offsets(z) : WallFold(f[k], fold) = f[k].utc + p
    BY <1>1, WallFoldType
  <2>2. f[k].utc \in Int /\ f[k].utc + p <= wall
    BY <1>1, <1>3, <2>1, WallFoldType
  <2>3. Settled(z, f[k].utc, y)
    BY <2>2, Nearby
  <2>4. k \in DOMAIN t /\ \A j \in 1..k : t[j] = f[j]
    BY <2>3, FullToTable
  <2>5. k \in 1..k
    BY <2>4, <1>1 DEF WellMade
  <2> QED BY <2>4, <2>5
<1> QED BY <1>2, <1>3, SameCount

\* With fold=0, a wall clock changes over no earlier than the onset, so that the
\* change is in the table if the wall time's year is.
LEMMA ChangedOver ==
  ASSUME NEW z \in Zones, NEW y \in Int, NEW wall \in Int, Year(wall) <= y,
         NEW e \in Events(z, AllOnsets(z)), NEW p \in DOMAIN Full[z],
         Full[z][p].utc = e.utc, WallFold(Full[z][p], 0) <= wall
  PROVE  e \in Events(z, UpToYear(z, y))
<1> DEFINE w == e.utc + z[e.obs].from
<1>1. e.obs \in DOMAIN z /\ w \in AllOnsets(z)[e.obs] /\ e \in Event
  BY AllEventsType, EventsType
<1>2. z[e.obs].from \in Int /\ e.utc \in Int
  BY <1>1, OffsetsType DEF Event
<1>3. w \in Onsets(z[e.obs]) /\ w \in Int /\ e.utc = w - z[e.obs].from
  BY <1>1, <1>2 DEF AllOnsets
<1>4. StartsInUse(z)
  BY ZonesAssumption
<1> HIDE DEF w
<1>5. Year(w) <= Year(WallFold(Full[z][p], 0))
  BY <1>1, <1>3, <1>4 DEF StartsInUse
<1>6. WallFold(Full[z][p], 0) \in Int
  <2>1. PICK o \in Offsets(z) : /\ WallFold(Full[z][p], 0) = Full[z][p].utc + o
                                /\ Full[z][p].utc \in Int
    BY FullIs, WallFoldType
  <2> QED BY <2>1, OffsetsType
<1>7. Year(w) <= Year(wall) /\ Year(w) \in Int /\ Year(wall) \in Int
  <2>1. /\ Year(WallFold(Full[z][p], 0)) <= Year(wall)
        /\ Year(WallFold(Full[z][p], 0)) \in Int /\ Year(wall) \in Int
    BY <1>6, YearGrows
  <2>2. Year(w) \in Int
    BY <1>3, YearGrows
  <2> QED BY <1>5, <2>1, <2>2
<1>8. Year(w) <= y
  BY <1>7
<1> QED BY <1>8, YearEvents DEF w

LEMMA SameFirstOffset ==
  ASSUME NEW z \in Zones, NEW y \in Int, Table(z, y) # <<>>, NEW wall \in Int, Year(wall) <= y
  PROVE  WallOffset(Table(z, y), wall, 0) = WallOffset(Full[z], wall, 0)
<1> DEFINE t == Table(z, y)
           f == Full[z]
           A == Events(z, UpToYear(z, y))
           S == Events(z, AllOnsets(z))
           U(k) == f[k].utc
           O(k) == OffsetAfter(f, k)
<1>1. WellMade(z, t) /\ WellMade(z, f) /\ f # <<>> /\ S \in SUBSET Event /\ IsFiniteSet(S)
  BY TableIs, FullIs, FirstChange, AllEventsType, EventsType
<1>2. /\ Len(f) \in Nat /\ DOMAIN f = 1..Len(f)
      /\ \A k \in DOMAIN f : /\ U(k) \in Int /\ O(k) \in Int /\ O(k - 1) \in Int
                             /\ f[k].before = O(k - 1) /\ f[k].after = O(k)
  <2>1. Len(f) \in Nat /\ DOMAIN f = 1..Len(f)
    BY <1>1 DEF WellMade
  <2>2. \A k \in DOMAIN f : f[k].utc \in Int
    BY <1>1 DEF WellMade
  <2>3. \A k \in DOMAIN f : /\ O(k) \in Int /\ O(k - 1) \in Int
                            /\ f[k].before = O(k - 1) /\ f[k].after = O(k)
    <3> HIDE DEF f
    <3>1. /\ \A k \in 0..Len(f) : O(k) \in Int
          /\ \A k \in 1..Len(f) : f[k].before = O(k - 1) /\ f[k].after = O(k)
      BY <1>1, Steps
    <3> HIDE DEF O
    <3>2. \A k \in 1..Len(f) : k \in 0..Len(f) /\ k - 1 \in 0..Len(f)
      BY <2>1
    <3> QED BY <2>1, <3>1, <3>2
  <2> QED BY <2>1, <2>2, <2>3
<1>3. PICK n \in 0..Len(f) : \A k \in 1..Len(f) : WallFold(f[k], 0) <= wall <=> k <= n
  BY <1>1, CountedWall
<1>4. ASSUME NEW k \in DOMAIN f, WallFold(f[k], 0) <= wall  PROVE k \in DOMAIN t /\ t[k] = f[k]
  <2>1. ASSUME NEW e \in S, Place(S, e) <= k - 1  PROVE e \in A
    <3> DEFINE p == Place(S, e) + 1
    <3>1. p \in DOMAIN f /\ p \in Int /\ f[p].utc = e.utc
      BY InFull
    <3>2. Place(S, e) \in Int /\ k \in Int
      <4>1. Place(S, e) \in Int
        <5> HIDE DEF S
        <5> QED BY <1>1, PlaceType
      <4> QED BY <4>1, <1>2
    <3>3. p <= k
      BY <2>1, <3>2
    <3> HIDE DEF p
    <3>4. WallFold(f[p], 0) <= wall
      BY <1>2, <1>3, <1>4, <3>1, <3>2, <3>3
    <3> QED BY <3>1, <3>4, ChangedOver
  <2>2. k \in DOMAIN t /\ \A j \in 1..k : t[j] = f[j]
    BY <2>1, FullPrefix
  <2>3. k \in 1..k
    BY <1>2
  <2> QED BY <2>2, <2>3
<1>5. ASSUME NEW k \in DOMAIN t, WallFold(t[k], 0) <= wall  PROVE k \in DOMAIN f /\ t[k] = f[k]
  <2> DEFINE e == InOrder(A)[k]
             p == Place(S, e) + 1
  <2>1. e \in S /\ t[k].utc = e.utc /\ t[k].after = z[e.obs].to
    BY InTable
  <2>2. p \in DOMAIN f /\ U(p) = t[k].utc /\ f[p].after = t[k].after /\ p \in 1..Len(f)
    BY <2>1, InFull
  <2> HIDE DEF e
  <2>3. U(p) + O(p) <= wall
    <3>1. /\ t[k].utc \in Int /\ t[k].before \in Int /\ t[k].after \in Int
      BY <1>1 DEF WellMade
    <3>2. t[k].utc + t[k].after <= wall
      BY <3>1, <1>5 DEF WallFold, Larger
    <3> QED BY <1>2, <2>2, <3>2
  <2>4. ASSUME NEW q \in S, Earlier(q, e)  PROVE q \in A
    <3> DEFINE r == Place(S, q) + 1
    <3>1. r \in DOMAIN f /\ U(r) = q.utc /\ r \in 1..Len(f)
      BY InFull
    <3>2. Place(S, q) < Place(S, e) /\ Place(S, q) \in Int /\ Place(S, e) \in Int
      <4> HIDE DEF S
      <4>1. Place(S, q) \in Int /\ Place(S, e) \in Int
        BY <1>1, <2>1, PlaceType
      <4>2. Place(S, q) < Place(S, e)
        BY <1>1, <2>1, <2>4, PlaceGrows
      <4> QED BY <4>1, <4>2
    <3>3. r < p
      BY <3>2
    <3> HIDE DEF r, p, U, O
    <3>4. U(r) + O(r - 1) <= U(p) + O(p) /\ U(r) + O(r) <= U(p) + O(p)
      BY <2>2, <3>1, <3>3, Spaced DEF U, O
    <3>5. U(r) + O(r - 1) <= wall /\ U(r) + O(r) <= wall
      <4>1. /\ U(r) \in Int /\ O(r) \in Int /\ O(r - 1) \in Int
            /\ U(p) \in Int /\ O(p) \in Int
        BY <1>2, <2>2, <3>1
      <4> HIDE DEF f
      <4> QED BY <2>3, <3>4, <4>1
    <3>6. WallFold(f[r], 0) <= wall
      BY SMTT(30), <1>2, <3>1, <3>5 DEF WallFold, Larger, U
    <3> QED BY <3>1, <3>6, ChangedOver DEF U
  <2>5. k \in DOMAIN f /\ \A j \in 1..k : t[j] = f[j]
    BY <2>4, TablePrefix DEF e
  <2>6. k \in 1..k
    BY <2>5, <1>2
  <2> QED BY <2>5, <2>6
<1> QED BY <1>4, <1>5, SameCount

\* fromutc's.
LEMMA SameUtcOffset ==
  ASSUME NEW z \in Zones, NEW y \in Int, Table(z, y) # <<>>, NEW u \in Int, Year(u) + 1 <= y
  PROVE  /\ OffsetAfter(Table(z, y), UtcCount(Table(z, y), u))
              = OffsetAfter(Full[z], UtcCount(Full[z], u))
         /\ FoldAt(Table(z, y), u) = FoldAt(Full[z], u)
<1> DEFINE t == Table(z, y)
           f == Full[z]
           P == {k \in DOMAIN t : t[k].utc <= u}
           Q == {k \in DOMAIN f : f[k].utc <= u}
<1>1. WellMade(z, t) /\ WellMade(z, f)
  BY TableIs, FullIs
<1>2. f # <<>> /\ t[1] = f[1]
  BY FirstChange
<1>3. ASSUME NEW k \in P  PROVE k \in Q /\ t[k] = f[k]
  <2>1. t[k].utc \in Int /\ t[k].utc <= u
    BY <1>1 DEF WellMade
  <2>2. Settled(z, t[k].utc, y)
    BY <2>1, NearbyUtc
  <2>3. k \in DOMAIN f /\ \A j \in 1..k : t[j] = f[j]
    BY <2>2, TableToFull
  <2>4. k \in 1..k
    BY <2>3, <1>1 DEF WellMade
  <2> QED BY <2>3, <2>4
<1>4. ASSUME NEW k \in Q  PROVE k \in P
  <2>1. f[k].utc \in Int /\ f[k].utc <= u
    BY <1>1 DEF WellMade
  <2>2. Settled(z, f[k].utc, y)
    BY <2>1, NearbyUtc
  <2>3. k \in DOMAIN t /\ \A j \in 1..k : t[j] = f[j]
    BY <2>2, FullToTable
  <2>4. k \in 1..k
    BY <2>3, <1>1 DEF WellMade
  <2> QED BY <2>3, <2>4
<1>5. P = Q
  BY <1>3, <1>4
<1> DEFINE n == UtcCount(f, u)
<1>6. n \in 0..Len(f) /\ \A k \in 1..Len(f) : f[k].utc <= u <=> k <= n
  BY CountedUtc
<1>7. UtcCount(t, u) = n
  BY <1>5 DEF UtcCount
<1>8. CASE n = 0
  BY <1>2, <1>7, <1>8 DEF OffsetAfter, FoldAt
<1>9. CASE n # 0
  <2>1. n \in 1..Len(f) /\ n <= n /\ DOMAIN f = 1..Len(f)
    BY <1>1, <1>6, <1>9 DEF WellMade
  <2>2. n \in Q
    BY <2>1, <1>6
  <2>3. t[n] = f[n]
    BY <2>2, <1>3, <1>5
  <2> HIDE DEF n, t, f
  <2> QED BY <2>3, <1>7, <1>9 DEF OffsetAfter, FoldAt, n, t, f
<1> QED BY <1>8, <1>9

-----------------------------------------------------------------------------
(* The invariant. *)

\* A table does not lose its changes when it is built further out.
LEMMA TableGrows ==
  ASSUME NEW z \in Zones, NEW x \in Int, NEW y \in Int, x <= y, Table(z, x) # <<>>
  PROVE  Table(z, y) # <<>>
<1> DEFINE A == Events(z, UpToYear(z, x))
           B == Events(z, UpToYear(z, y))
<1>1. A \in SUBSET B
  <2>1. ASSUME NEW e \in A  PROVE e \in B
    <3>1. e \in Events(z, AllOnsets(z)) /\ Year(e.utc + z[e.obs].from) <= x
      BY YearEvents
    <3>2. e.obs \in DOMAIN z /\ e \in Event
      BY <3>1, AllEventsType, EventsType
    <3>3. e.utc + z[e.obs].from \in Int
      BY <3>2, OffsetsType DEF Event
    <3>4. Year(e.utc + z[e.obs].from) \in Int
      BY <3>3, YearUpTo
    <3>5. Year(e.utc + z[e.obs].from) <= y
      BY <3>1, <3>4
    <3> QED BY <3>1, <3>5, YearEvents
  <2> QED BY <2>1
<1>2. IsFiniteSet(A) /\ IsFiniteSet(B)
  BY YearEvents, EventsType, AllEventsType
<1>3. /\ Len(Table(z, x)) = Cardinality(A) /\ (Table(z, x) = <<>> <=> Len(Table(z, x)) = 0)
      /\ Len(Table(z, y)) = Cardinality(B) /\ (Table(z, y) = <<>> <=> Len(Table(z, y)) = 0)
  BY TableIs DEF WellMade, MadeOf
<1> HIDE DEF A, B
<1>4. A # {}
  BY <1>3, FS_EmptySet
<1>5. B # {}
  BY <1>1, <1>4
<1>6. Cardinality(B) # 0
  BY <1>2, <1>5, FS_EmptySet
<1> QED BY <1>3, <1>6

\* The table is that of the horizon, except after an exception, which a rule
\* without end leaves a horizon beyond the last date.
TableCurrent ==
  status = "ready" /\ ~failed => table = Table(zone, horizon) /\ table # <<>>
FailedForGood ==
  failed => /\ horizon > MaxYear
            /\ \E i \in DOMAIN zone : zone[i].rule # {} /\ zone[i].unbounded
ZoneInv ==
  /\ zone \in Zones
  /\ horizon \in Int
  /\ failed \in BOOLEAN
  /\ TableCurrent
  /\ FailedForGood
  /\ status # "ready" => answer = NoAnswer /\ ~failed

LEMMA NumbersType ==
  /\ FirstHorizon \in Nat /\ Slack \in Nat /\ MaxYear \in Nat
  /\ Times \in SUBSET Nat
BY NumbersAssumption, YearLenPositive DEF Times

LEMMA ZoneInvInit ==
  Init => ZoneInv
<1> SUFFICES ASSUME Init  PROVE ZoneInv
  OBVIOUS
<1>1. zone \in Zones /\ status = "new" /\ horizon = 0 /\ answer = NoAnswer /\ failed = FALSE
  BY DEF Init
<1>2. status # "ready" /\ horizon \in Int
  BY <1>1
<1>3. failed \in BOOLEAN /\ ~failed
  BY <1>1, Zenon
<1>4. TableCurrent /\ FailedForGood
  BY <1>2, <1>3, Zenon DEF TableCurrent, FailedForGood
<1> QED BY <1>1, <1>2, <1>3, <1>4, Zenon DEF ZoneInv

\* What Ensure leaves, whether or not it builds.
LEMMA Ensured ==
  ASSUME ZoneInv, NEW year \in Int, status = "ready", Ensure(year), UNCHANGED zone
  PROVE  /\ horizon' \in Int /\ horizon <= horizon' /\ year <= horizon'
         /\ ~failed => table' = Table(zone, horizon') /\ table' # <<>>
         /\ failed /\ horizon > MaxYear => UNCHANGED <<horizon, table>>
<1>1. /\ zone \in Zones /\ horizon \in Int
      /\ ~failed => table = Table(zone, horizon) /\ table # <<>>
      /\ failed => \E i \in DOMAIN zone : zone[i].rule # {} /\ zone[i].unbounded
  BY DEF ZoneInv, TableCurrent, FailedForGood
<1>2. CASE year <= horizon /\ UNCHANGED <<horizon, table>>
  BY <1>1, <1>2
<1>3. CASE /\ year > horizon /\ Expandable(zone, year + Slack)
           /\ horizon' = year + Slack /\ table' = Table(zone, year + Slack)
  <2>1. horizon' \in Int /\ horizon <= horizon' /\ year <= horizon'
    BY <1>1, <1>3, NumbersType
  <2>2. ~failed => table' # <<>>
    BY <1>1, <1>3, <2>1, TableGrows
  <2>3. ~(failed /\ horizon > MaxYear)
    <3>1. ASSUME failed, horizon > MaxYear  PROVE FALSE
      <4>1. PICK i \in DOMAIN zone : zone[i].rule # {} /\ zone[i].unbounded
        BY <1>1, <3>1
      <4>2. year + Slack <= MaxYear
        BY <1>3, <4>1 DEF Expandable
      <4> QED BY <1>1, <1>3, <3>1, <4>2, NumbersType
    <3> QED BY <3>1
  <2> QED BY <1>3, <2>1, <2>2, <2>3
<1> QED BY <1>2, <1>3 DEF Ensure

\* What a failure leaves.
LEMMA Failing ==
  ASSUME ZoneInv, NEW year \in Int, EnsureFails(year)
  PROVE  /\ horizon' \in Int /\ failed' = TRUE /\ UNCHANGED table /\ answer' = Raised
         /\ horizon' > MaxYear
         /\ \E i \in DOMAIN zone : zone[i].rule # {} /\ zone[i].unbounded
<1>1. PICK i \in DOMAIN zone : zone[i].rule # {} /\ zone[i].unbounded /\ ~(year + Slack <= MaxYear)
  BY DEF EnsureFails, Expandable
<1>2. horizon' = year + Slack
  BY DEF EnsureFails
<1> QED BY <1>1, <1>2, NumbersType DEF EnsureFails

LEMMA AskedYears ==
  ASSUME NEW t \in Times
  PROVE  t \in Int /\ Year(t) \in Int /\ Year(t) <= MaxYear
<1>1. t \in Int /\ t < (MaxYear + 1) * YearLen /\ MaxYear \in Int
  BY NumbersType, YearLenPositive DEF Times
<1>2. t < EndOf(MaxYear)
  BY <1>1 DEF EndOf
<1> QED BY <1>1, <1>2, YearUpTo

LEMMA BuildInv ==
  ASSUME ZoneInv, Build
  PROVE  ZoneInv'
<1>1. /\ zone \in Zones /\ failed \in BOOLEAN
      /\ status # "ready" => answer = NoAnswer /\ ~failed
  BY DEF ZoneInv
<1>2. /\ status # "ready" /\ zone' = zone /\ failed' = failed /\ ~failed /\ answer' = NoAnswer
      /\ horizon' = FirstHorizon + Slack /\ table' = Table(zone, horizon')
      /\ status' = "ready" => table' # <<>>
  BY <1>1 DEF Build
<1>3. horizon' \in Int
  BY <1>2, NumbersType
<1>4. TableCurrent'
  BY <1>2 DEF TableCurrent
<1>5. FailedForGood'
  BY <1>2, Zenon DEF FailedForGood
<1> QED BY <1>1, <1>2, <1>3, <1>4, <1>5, Zenon DEF ZoneInv

LEMMA ProceedInv ==
  ASSUME ZoneInv, Proceed
  PROVE  ZoneInv'
<1>1. UNCHANGED <<zone, status, horizon, table, failed>> /\ answer' = NoAnswer
  BY DEF Proceed
<1> QED BY <1>1, Zenon DEF ZoneInv, TableCurrent, FailedForGood

LEMMA QueryInv ==
  ASSUME ZoneInv, NEW year \in Int, status = "ready", UNCHANGED <<zone, status>>,
         (Ensure(year) /\ UNCHANGED failed) \/ EnsureFails(year)
  PROVE  ZoneInv'
<1>1. /\ zone \in Zones /\ horizon \in Int /\ failed \in BOOLEAN
      /\ TableCurrent /\ FailedForGood
  BY DEF ZoneInv
<1>2. CASE Ensure(year) /\ UNCHANGED failed
  <2>1. /\ horizon' \in Int /\ horizon <= horizon'
        /\ ~failed => table' = Table(zone, horizon') /\ table' # <<>>
    BY <1>2, Ensured
  <2>2. TableCurrent'
    BY <1>2, <2>1 DEF TableCurrent
  <2>3. failed => horizon' > MaxYear
    BY <1>1, <2>1, NumbersType DEF FailedForGood
  <2>4. FailedForGood'
    BY <1>1, <1>2, <2>3, Zenon DEF FailedForGood
  <2> QED BY <1>1, <1>2, <2>1, <2>2, <2>4, Zenon DEF ZoneInv
<1>3. CASE EnsureFails(year)
  <2>1. /\ horizon' \in Int /\ failed' = TRUE /\ horizon' > MaxYear
        /\ \E i \in DOMAIN zone : zone[i].rule # {} /\ zone[i].unbounded
    BY <1>3, Failing
  <2>2. zone' = zone /\ status' = "ready"
    OBVIOUS
  <2>3. TableCurrent' /\ FailedForGood'
    BY <2>1, <2>2, Zenon DEF TableCurrent, FailedForGood
  <2>4. failed' \in BOOLEAN
    BY <2>1
  <2> QED BY <1>1, <2>1, <2>2, <2>3, <2>4, Zenon DEF ZoneInv
<1> QED BY <1>2, <1>3

LEMMA UtcoffsetInv ==
  ASSUME ZoneInv, NEW t \in Int, NEW fold, Utcoffset(t, fold)
  PROVE  ZoneInv'
<1>1. Year(t) \in Int
  BY YearUpTo
<1>2. /\ status = "ready" /\ UNCHANGED <<zone, status>>
      /\ (Ensure(Year(t)) /\ UNCHANGED failed) \/ EnsureFails(Year(t))
  BY DEF Utcoffset
<1> QED BY <1>1, <1>2, QueryInv

LEMMA FromutcInv ==
  ASSUME ZoneInv, NEW u \in Int, Fromutc(u)
  PROVE  ZoneInv'
<1>1. Year(u) + 1 \in Int
  BY YearUpTo
<1>2. /\ status = "ready" /\ UNCHANGED <<zone, status>>
      /\ (Ensure(Year(u) + 1) /\ UNCHANGED failed) \/ EnsureFails(Year(u) + 1)
  BY DEF Fromutc
<1> QED BY <1>1, <1>2, QueryInv

LEMMA ZoneInvNext ==
  ASSUME ZoneInv, [Next]_vars
  PROVE  ZoneInv'
<1>1. CASE \E t \in Times, fold \in {0, 1} : Utcoffset(t, fold)
  BY <1>1, AskedYears, UtcoffsetInv
<1>2. CASE \E t \in Times : Fromutc(t)
  BY <1>2, AskedYears, FromutcInv
<1>3. CASE UNCHANGED vars
  BY <1>3, Zenon DEF vars, ZoneInv, TableCurrent, FailedForGood
<1> QED BY <1>1, <1>2, <1>3, BuildInv, ProceedInv DEF Next

-----------------------------------------------------------------------------
(* The answers. *)

LEMMA WallAnswered ==
  ASSUME zone \in Zones, NEW y \in Int, Table(zone, y) # <<>>,
         NEW wall \in Int, NEW fold \in {0, 1}, Year(wall) <= y,
         ~(/\ fold = 1 /\ Year(wall) = y
           /\ \E o, p \in Offsets(zone) : Year(wall + o - p) > y)
  PROVE  Pep495(wall, fold, WallOffset(Table(zone, y), wall, fold))
<1>1. fold = 1 => Within(zone, wall, y)
  <2>1. CASE Year(wall) # y
    BY <2>1, YearUpTo DEF Within
  <2>2. CASE fold = 1 /\ Year(wall) = y
    <3>1. ASSUME NEW o \in Offsets(zone), NEW p \in Offsets(zone)
          PROVE  Year(wall + o - p) <= y
      <4>1. wall + o - p \in Int
        BY OffsetsType
      <4>2. Year(wall + o - p) \in Int /\ ~(Year(wall + o - p) > y)
        BY <2>2, <4>1, YearUpTo
      <4> QED BY <4>2
    <3> QED BY <2>2, <3>1 DEF Within
  <2> QED BY <2>1, <2>2
<1>2. WallOffset(Table(zone, y), wall, fold) = WallOffset(Full[zone], wall, fold)
  BY <1>1, SameWallOffset, SameFirstOffset
<1>3. Full[zone] # <<>>
  BY FirstChange
<1>4. Pep495(wall, fold, WallOffset(Full[zone], wall, fold))
  <2>1. CASE fold = 0
    BY <1>3, <2>1, FirstReading
  <2>2. CASE fold = 1
    BY <1>3, <2>2, LastReading
  <2> QED BY <2>1, <2>2
<1> QED BY <1>2, <1>4

LEMMA UtcAnswered ==
  ASSUME zone \in Zones, NEW y \in Int, Table(zone, y) # <<>>,
         NEW u \in Int, Year(u) + 1 <= y
  PROVE  LET offset == OffsetAfter(Table(zone, y), UtcCount(Table(zone, y), u))
             fold == FoldAt(Table(zone, y), u)
         IN  /\ offset = ClockOffset(u)
             /\ fold = 1 <=> \E v \in Instants(u + offset) : v < u
             /\ Pep495(u + offset, fold, offset)
<1>1. /\ OffsetAfter(Table(zone, y), UtcCount(Table(zone, y), u)) = ClockOffset(u)
      /\ FoldAt(Table(zone, y), u) = FoldAt(Full[zone], u)
  BY SameUtcOffset DEF ClockOffset
<1>2. Full[zone] # <<>>
  BY FirstChange
<1>3. /\ FoldAt(Full[zone], u) = 1 <=> \E v \in Instants(u + ClockOffset(u)) : v < u
      /\ Pep495(u + ClockOffset(u), FoldAt(Full[zone], u), ClockOffset(u))
  BY <1>2, UtcReading
<1> QED BY <1>1, <1>3

\* The readings are of the zone, which stays what it is.
LEMMA SameReadings ==
  ASSUME UNCHANGED zone
  PROVE  /\ \A wall, fold, offset : Pep495(wall, fold, offset)' <=> Pep495(wall, fold, offset)
         /\ \A wall : Instants(wall)' = Instants(wall)
         /\ \A u : ClockOffset(u)' = ClockOffset(u)
BY DEF Pep495, Instants, ClockOffset, Offsets

\* A query's answer is made of a table up to the horizon that it leaves.
LEMMA UtcoffsetAnswer ==
  ASSUME ZoneInv, NEW t \in Int, NEW fold, Utcoffset(t, fold), ~failed'
  PROVE  /\ zone' = zone /\ zone \in Zones /\ ~failed /\ status' = "ready"
         /\ horizon' \in Int /\ Table(zone, horizon') # <<>> /\ Year(t) <= horizon'
         /\ answer' = [query |-> "utcoffset", wall |-> t, fold |-> fold,
                       offset |-> WallOffset(Table(zone, horizon'), t, fold)]
<1>1. ~EnsureFails(Year(t))
  BY Zenon DEF EnsureFails
<1>2. /\ UNCHANGED <<zone, status>> /\ status = "ready" /\ Ensure(Year(t)) /\ failed' = failed
      /\ answer' = [query |-> "utcoffset", wall |-> t, fold |-> fold,
                    offset |-> WallOffset(table', t, fold)]
  BY <1>1 DEF Utcoffset
<1>3. ~failed
  BY <1>2, Zenon
<1>4. horizon' \in Int /\ Year(t) <= horizon' /\ table' = Table(zone, horizon') /\ table' # <<>>
  BY <1>2, <1>3, YearUpTo, Ensured
<1> QED BY <1>2, <1>3, <1>4 DEF ZoneInv

LEMMA FromutcAnswer ==
  ASSUME ZoneInv, NEW u \in Int, Fromutc(u), ~failed'
  PROVE  /\ zone' = zone /\ zone \in Zones /\ ~failed /\ status' = "ready"
         /\ horizon' \in Int /\ Table(zone, horizon') # <<>> /\ Year(u) + 1 <= horizon'
         /\ LET offset == OffsetAfter(Table(zone, horizon'), UtcCount(Table(zone, horizon'), u))
            IN  answer' = [query |-> "fromutc", utc |-> u, wall |-> u + offset,
                           fold |-> FoldAt(Table(zone, horizon'), u), offset |-> offset]
<1>1. ~EnsureFails(Year(u) + 1)
  BY Zenon DEF EnsureFails
<1>2. /\ UNCHANGED <<zone, status>> /\ status = "ready"
      /\ Ensure(Year(u) + 1) /\ failed' = failed
      /\ LET offset == OffsetAfter(table', UtcCount(table', u))
         IN  answer' = [query |-> "fromutc", utc |-> u, wall |-> u + offset,
                        fold |-> FoldAt(table', u), offset |-> offset]
  BY <1>1 DEF Fromutc
<1>3. ~failed
  BY <1>2, Zenon
<1>4. Year(u) + 1 \in Int
  BY YearUpTo
<1>5. /\ horizon' \in Int /\ Year(u) + 1 <= horizon'
      /\ table' = Table(zone, horizon') /\ table' # <<>>
  BY <1>2, <1>3, <1>4, Ensured
<1> QED BY <1>2, <1>3, <1>5 DEF ZoneInv

LEMMA AnswersNext ==
  ASSUME ZoneInv, AnswersArePep495, [Next]_vars
  PROVE  AnswersArePep495'
<1>1. CASE failed'
  BY <1>1, Zenon DEF AnswersArePep495
<1>2. CASE answer' = NoAnswer
  <2>1. answer'.query = "none"
    BY <1>2 DEF NoAnswer
  <2>2. answer'.query # "utcoffset" /\ answer'.query # "fromutc"
    BY <2>1
  <2> QED BY <2>2, Zenon DEF AnswersArePep495
<1>3. CASE ~failed' /\ answer' # NoAnswer /\ answer' = answer
  <2>1. UNCHANGED <<zone, horizon, failed>>
    <3>1. answer # NoAnswer /\ status = "ready"
      BY <1>3 DEF ZoneInv
    <3>2. ~Build /\ ~Proceed
      BY <1>3, <3>1 DEF Build, Proceed
    <3>3. /\ ~\E t \in Times, fold \in {0, 1} : Utcoffset(t, fold)
          /\ ~\E t \in Times : Fromutc(t)
      BY <3>1 DEF Utcoffset, Fromutc
    <3> QED BY <3>2, <3>3 DEF Next, vars
  <2>2. ~failed
    BY <1>3, <2>1, Zenon
  <2>3. /\ answer.query = "utcoffset" /\ ~(answer.fold = 1 /\ AtHorizon(answer.wall)) =>
             Pep495(answer.wall, answer.fold, answer.offset)
        /\ answer.query = "fromutc" =>
             /\ answer.offset = ClockOffset(answer.utc)
             /\ answer.fold = 1 <=> \E u \in Instants(answer.wall) : u < answer.utc
             /\ Pep495(answer.wall, answer.fold, answer.offset)
    BY <2>2, Zenon DEF AnswersArePep495
  <2>4. \A wall : AtHorizon(wall)' <=> AtHorizon(wall)
    BY <2>1 DEF AtHorizon, Offsets
  <2>5. (/\ answer.query = "utcoffset" /\ ~(answer.fold = 1 /\ AtHorizon(answer.wall)) =>
             Pep495(answer.wall, answer.fold, answer.offset)
         /\ answer.query = "fromutc" =>
             /\ answer.offset = ClockOffset(answer.utc)
             /\ answer.fold = 1 <=> \E u \in Instants(answer.wall) : u < answer.utc
             /\ Pep495(answer.wall, answer.fold, answer.offset))'
    BY <1>3, <2>1, <2>3, <2>4, SameReadings
  <2> QED BY <2>5, Zenon DEF AnswersArePep495
<1>4. CASE ~failed' /\ \E t \in Times, fold \in {0, 1} : Utcoffset(t, fold)
  <2>1. PICK t \in Times : \E fold \in {0, 1} : Utcoffset(t, fold)
    BY <1>4
  <2>2. PICK fold \in {0, 1} : Utcoffset(t, fold)
    BY <2>1
  <2>3. t \in Int
    BY AskedYears
  <2>4. /\ zone' = zone /\ zone \in Zones
        /\ horizon' \in Int /\ Table(zone, horizon') # <<>> /\ Year(t) <= horizon'
        /\ answer' = [query |-> "utcoffset", wall |-> t, fold |-> fold,
                      offset |-> WallOffset(Table(zone, horizon'), t, fold)]
    BY <1>4, <2>2, <2>3, UtcoffsetAnswer
  <2>5. \A wall, f, offset : Pep495(wall, f, offset)' <=> Pep495(wall, f, offset)
    BY <2>4, SameReadings
  <2>6. \/ fold = 1 /\ AtHorizon(t)'
        \/ Pep495(t, fold, WallOffset(Table(zone, horizon'), t, fold))
    <3>1. AtHorizon(t)' <=>
            Year(t) = horizon' /\ \E o, p \in Offsets(zone) : Year(t + o - p) > horizon'
      BY <2>4 DEF AtHorizon, Offsets
    <3> QED BY <2>3, <2>4, <3>1, WallAnswered
  <2>7. /\ answer'.query = "utcoffset" /\ answer'.query # "fromutc" /\ answer'.wall = t
        /\ answer'.fold = fold /\ answer'.offset = WallOffset(Table(zone, horizon'), t, fold)
    BY <2>4
  <2>8. \/ (answer.fold = 1 /\ AtHorizon(answer.wall))'
        \/ Pep495(answer.wall, answer.fold, answer.offset)'
    BY <2>5, <2>6, <2>7
  <2> QED BY <2>7, <2>8, Zenon DEF AnswersArePep495
<1>5. CASE ~failed' /\ \E u \in Times : Fromutc(u)
  <2>1. PICK u \in Times : Fromutc(u)
    BY <1>5
  <2> DEFINE offset == OffsetAfter(Table(zone, horizon'), UtcCount(Table(zone, horizon'), u))
             fold == FoldAt(Table(zone, horizon'), u)
  <2>2. u \in Int
    BY AskedYears
  <2>3. /\ zone' = zone /\ zone \in Zones
        /\ horizon' \in Int /\ Table(zone, horizon') # <<>> /\ Year(u) + 1 <= horizon'
        /\ answer' = [query |-> "fromutc", utc |-> u, wall |-> u + offset,
                      fold |-> fold, offset |-> offset]
    BY <1>5, <2>1, <2>2, FromutcAnswer
  <2>4. /\ \A wall, f, o : Pep495(wall, f, o)' <=> Pep495(wall, f, o)
        /\ \A wall : Instants(wall)' = Instants(wall)
        /\ \A v : ClockOffset(v)' = ClockOffset(v)
    BY <2>3, SameReadings
  <2>5. /\ offset = ClockOffset(u)
        /\ fold = 1 <=> \E v \in Instants(u + offset) : v < u
        /\ Pep495(u + offset, fold, offset)
    BY <2>2, <2>3, UtcAnswered
  <2> HIDE DEF offset, fold
  <2>6. /\ answer'.query = "fromutc" /\ answer'.query # "utcoffset" /\ answer'.utc = u
        /\ answer'.wall = u + offset /\ answer'.fold = fold /\ answer'.offset = offset
    BY <2>3
  <2>7. (/\ answer.offset = ClockOffset(answer.utc)
         /\ answer.fold = 1 <=> \E v \in Instants(answer.wall) : v < answer.utc
         /\ Pep495(answer.wall, answer.fold, answer.offset))'
    BY <2>4, <2>5, <2>6
  <2> QED BY <2>6, <2>7, Zenon DEF AnswersArePep495
<1>6. ~Build \/ answer' = NoAnswer
  BY DEF Build, ZoneInv
<1>7. ~Proceed \/ answer' = NoAnswer
  BY DEF Proceed
<1>8. ~UNCHANGED vars \/ answer' = answer
  BY DEF vars
<1> QED BY <1>1, <1>2, <1>3, <1>4, <1>5, <1>6, <1>7, <1>8 DEF Next

\* timezones.py: once a zone is built, its table is always the one for its
\* horizon, unless a query has raised an exception, which only a rule without
\* end and a year beyond the last date bring about.
THEOREM TableIsCurrent ==
  Spec => []ZoneInv
<1>1. ZoneInv /\ [Next]_vars => ZoneInv'
  BY ZoneInvNext
<1> QED BY ZoneInvInit, <1>1, PTL DEF Spec

\* timezones.py: utcoffset and fromutc answer as PEP 495 says, however much of
\* the transition table is there when they are asked.
THEOREM AnswersAlwaysPep495 ==
  Spec => []AnswersArePep495
<1>1. Init => AnswersArePep495
  <2>1. ASSUME Init  PROVE AnswersArePep495
    <3>1. answer.query = "none"
      BY <2>1 DEF Init, NoAnswer
    <3>2. answer.query # "utcoffset" /\ answer.query # "fromutc"
      BY <3>1
    <3> QED BY <3>2, Zenon DEF AnswersArePep495
  <2> QED BY <2>1
<1>2. ZoneInv /\ AnswersArePep495 /\ [Next]_vars => AnswersArePep495'
  BY AnswersNext
<1> QED BY <1>1, <1>2, TableIsCurrent, PTL DEF Spec

\* Both the table before a rebuild and the one after answer for an earlier year
\* as the full list of transitions does.
LEMMA RevisionsAgree ==
  ASSUME ZoneInv, Next, status = "ready", table' # table,
         NEW t \in Times, NEW fold \in {0, 1}, Year(t) < horizon
  PROVE  WallOffset(table', t, fold) = WallOffset(table, t, fold)
<1>1. ASSUME NEW year \in Int, Ensure(year), UNCHANGED zone
      PROVE  WallOffset(table', t, fold) = WallOffset(table, t, fold)
  <2>1. /\ horizon' \in Int /\ horizon <= horizon'
        /\ ~failed => table' = Table(zone, horizon') /\ table' # <<>>
        /\ failed /\ horizon > MaxYear => UNCHANGED table
    BY <1>1, Ensured
  <2>2. ~failed
    BY <2>1 DEF ZoneInv, FailedForGood
  <2>3. /\ zone \in Zones /\ horizon \in Int
        /\ table = Table(zone, horizon) /\ table # <<>>
    BY <2>2 DEF ZoneInv, TableCurrent
  <2>4. Year(t) \in Int /\ t \in Int
    BY AskedYears
  <2>5. Within(zone, t, horizon) /\ Within(zone, t, horizon')
    BY <2>1, <2>3, <2>4 DEF Within
  <2> QED BY <2>1, <2>2, <2>3, <2>4, <2>5, SameWallOffset
<1>2. ~Build /\ ~Proceed
  BY DEF Build, Proceed
<1>3. CASE \E w \in Times, f \in {0, 1} : Utcoffset(w, f)
  <2>1. PICK w \in Times : \E f \in {0, 1} : Utcoffset(w, f)
    BY <1>3
  <2>2. PICK f \in {0, 1} : Utcoffset(w, f)
    BY <2>1
  <2>3. Ensure(Year(w)) /\ UNCHANGED zone
    BY <2>2 DEF Utcoffset, EnsureFails
  <2> QED BY <2>3, <1>1, AskedYears
<1>4. CASE \E u \in Times : Fromutc(u)
  <2>1. PICK u \in Times : Fromutc(u)
    BY <1>4
  <2>2. Ensure(Year(u) + 1) /\ UNCHANGED zone
    BY <2>1 DEF Fromutc, EnsureFails
  <2>3. Year(u) + 1 \in Int
    BY AskedYears
  <2> QED BY <2>2, <2>3, <1>1
<1> QED BY <1>2, <1>3, <1>4 DEF Next

\* timezones.py: building the table further out changes no answer for a year
\* before the horizon it had.
THEOREM AnswersNeverRevised ==
  Spec => NeverRevised
<1>1. ZoneInv /\ [Next]_vars =>
        [status = "ready" /\ table' # table =>
           \A t \in Times, fold \in {0, 1} :
             Year(t) < horizon => WallOffset(table', t, fold) = WallOffset(table, t, fold)]_vars
  <2>1. CASE UNCHANGED vars
    BY <2>1
  <2>2. CASE Next
    BY <2>2, RevisionsAgree
  <2> QED BY <2>1, <2>2
<1> QED BY <1>1, TableIsCurrent, PTL DEF Spec, NeverRevised

-----------------------------------------------------------------------------
(* Resolving a wall time. *)

\* The first instant at which a wall time is shown, or the one that a skipped
\* time stands for.
FirstInstant(wall) == wall - WallOffset(Full[zone], wall, 0)

\* What the next lemmas start from.
LEMMA ClockFacts ==
  ASSUME zone \in Zones, Full[zone] # <<>>
  PROVE  LET t == Full[zone]
             A(k) == OffsetAfter(t, k)
             U(k) == t[k].utc
         IN  /\ Len(t) \in Nat /\ DOMAIN t = 1..Len(t)
             /\ \A k \in 1..Len(t) : /\ U(k) \in Int /\ A(k) \in Int /\ A(k - 1) \in Int
                                     /\ t[k].before = A(k - 1) /\ t[k].after = A(k)
             /\ \A k \in 0..Len(t) : A(k) \in Int
<1>1. WellMade(zone, Full[zone])
  BY FullIs
<1>2. /\ Len(Full[zone]) \in Nat /\ DOMAIN Full[zone] = 1..Len(Full[zone])
      /\ \A k \in DOMAIN Full[zone] : Full[zone][k].utc \in Int
  BY <1>1 DEF WellMade
<1>3. \A k \in 0..Len(Full[zone]) : OffsetAfter(Full[zone], k) \in Int
  BY <1>1, Steps
<1>4. \A k \in 1..Len(Full[zone]) : /\ Full[zone][k].before = OffsetAfter(Full[zone], k - 1)
                                    /\ Full[zone][k].after = OffsetAfter(Full[zone], k)
  BY <1>1, Steps
<1> QED BY <1>2, <1>3, <1>4

\* A wall time that is skipped is skipped once, and never shown.
LEMMA SkippedOnce ==
  ASSUME zone \in Zones, Full[zone] # <<>>, NEW wall \in Int,
         NEW j \in Skipping(wall), NEW k \in Skipping(wall)
  PROVE  j = k
<1> DEFINE t == Full[zone]
           A(n) == OffsetAfter(t, n)
           U(n) == t[n].utc
<1>1. /\ Len(t) \in Nat /\ DOMAIN t = 1..Len(t)
      /\ \A n \in 1..Len(t) : /\ U(n) \in Int /\ A(n) \in Int /\ A(n - 1) \in Int
                              /\ t[n].before = A(n - 1) /\ t[n].after = A(n)
  BY ClockFacts
<1>2. \A m, n \in 1..Len(t) : m < n => U(m) + A(m) <= U(n) + A(n - 1)
  BY Spaced
<1>3. /\ j \in 1..Len(t) /\ U(j) + A(j - 1) <= wall /\ wall < U(j) + A(j)
      /\ k \in 1..Len(t) /\ U(k) + A(k - 1) <= wall /\ wall < U(k) + A(k)
  BY <1>1 DEF Skipping
<1> HIDE DEF t, A, U
<1>4. ASSUME NEW m \in {j, k}, NEW n \in {j, k}, m < n  PROVE FALSE
  <2>1. m \in 1..Len(t) /\ n \in 1..Len(t) /\ wall < U(m) + A(m) /\ U(n) + A(n - 1) <= wall
    BY <1>3
  <2>2. U(m) \in Int /\ A(m) \in Int /\ U(n) \in Int /\ A(n - 1) \in Int
    BY <1>1, <2>1
  <2>3. U(m) + A(m) <= U(n) + A(n - 1)
    BY <1>2, <1>4, <2>1
  <2> QED BY <2>1, <2>2, <2>3
<1>5. j \in Int /\ k \in Int
  BY <1>1, <1>3
<1> QED BY <1>4, <1>5

LEMMA SkippedNotShown ==
  ASSUME zone \in Zones, Full[zone] # <<>>, NEW wall \in Int, NEW k \in Skipping(wall)
  PROVE  Instants(wall) = {}
<1> DEFINE t == Full[zone]
           N == Len(t)
           A(n) == OffsetAfter(t, n)
           U(n) == t[n].utc
           m(v) == UtcCount(t, v)
<1>1. /\ N \in Nat /\ DOMAIN t = 1..N
      /\ \A n \in 1..N : /\ U(n) \in Int /\ A(n) \in Int /\ A(n - 1) \in Int
                         /\ t[n].before = A(n - 1) /\ t[n].after = A(n)
      /\ \A n \in 0..N : A(n) \in Int
  BY ClockFacts
<1>2. \A i, n \in 1..N : i < n => /\ U(i) + A(i - 1) <= U(n) + A(n - 1)
                                  /\ U(i) + A(i) <= U(n) + A(n)
  BY Spaced
<1>3. k \in 1..N /\ U(k) + A(k - 1) <= wall /\ wall < U(k) + A(k)
  BY <1>1 DEF Skipping
<1>4. \A v \in Int : m(v) \in 0..N /\ \A n \in 1..N : U(n) <= v <=> n <= m(v)
  BY CountedUtc
<1>5. /\ Instants(wall) \subseteq Int
      /\ \A v \in Int : v \in Instants(wall) <=> v + A(m(v)) = wall
  BY InstantsAre DEF ClockOffset
<1> HIDE DEF t, N, A, U, m
<1>6. ASSUME NEW v \in Instants(wall)  PROVE FALSE
  <2>1. v \in Int /\ m(v) \in 0..N /\ v + A(m(v)) = wall /\ A(m(v)) \in Int
    BY <1>1, <1>4, <1>5
  <2>2. CASE m(v) < k
    <3> DEFINE i == m(v) + 1
    <3>1. i \in 1..N /\ i - 1 = m(v) /\ (i < k \/ i = k) /\ ~(i <= m(v))
      <4>1. PICK a \in Int, b \in Int : a = m(v) /\ b = k /\ 0 <= a /\ a < b /\ 1 <= b /\ b <= N
        BY <2>1, <2>2, <1>1, <1>3
      <4>2. N \in Nat
        BY <1>1
      <4>3. a + 1 \in 1..N /\ (a + 1) - 1 = a /\ (a + 1 < b \/ a + 1 = b) /\ ~(a + 1 <= a)
        BY ONLY <4>1, <4>2
      <4> QED BY <4>1, <4>3
    <3>2. ~(U(i) <= v) /\ U(i) \in Int
      BY <3>1, <2>1, <1>1, <1>4
    <3>4. U(k) \in Int /\ A(k - 1) \in Int
      BY <1>1, <1>3
    <3> HIDE DEF i
    <3>3. U(i) + A(m(v)) <= U(k) + A(k - 1)
      <4>1. CASE i = k
        <5>1. A(k - 1) = A(m(v))
          BY <3>1, <4>1
        <5> QED BY <3>2, <3>4, <4>1, <5>1
      <4>2. CASE i < k
        <5>1. U(i) + A(i - 1) <= U(k) + A(k - 1)
          BY <3>1, <1>2, <1>3, <4>2
        <5>2. A(i - 1) = A(m(v))
          BY <3>1
        <5> QED BY <5>1, <5>2
      <4> QED BY <3>1, <4>1, <4>2
    <3> QED BY <2>1, <3>2, <3>3, <3>4, <1>3
  <2>3. CASE k <= m(v)
    <3> DEFINE i == m(v)
    <3>0. i \in 0..N /\ N \in Nat /\ k \in 1..N /\ k <= i
      BY <2>1, <2>3, <1>1, <1>3
    <3>1. m(v) \in 1..N /\ (k < m(v) \/ k = m(v))
      <4> HIDE DEF i
      <4>1. i \in 1..N /\ (k < i \/ k = i)
        BY <3>0
      <4> QED BY <4>1 DEF i
    <3> HIDE DEF i
    <3>2. U(m(v)) <= v /\ U(m(v)) \in Int /\ U(k) \in Int /\ A(k) \in Int
      <4>1. m(v) <= m(v)
        BY <3>1, <1>1
      <4>2. U(m(v)) <= v
        BY <3>1, <4>1, <2>1, <1>4
      <4>3. U(m(v)) \in Int
        BY <3>1, <1>1
      <4>4. U(k) \in Int /\ A(k) \in Int
        BY <1>1, <1>3
      <4> QED BY <4>2, <4>3, <4>4
    <3>3. U(k) + A(k) <= U(m(v)) + A(m(v))
      BY SMTT(30), <3>1, <3>2, <2>1, <1>2, <1>3
    <3> QED BY <2>1, <3>2, <3>3, <1>3
  <2> QED BY <2>1, <2>2, <2>3, <1>1, <1>3
<1> QED BY <1>6

\* A skipped time lands after the gap, on the clock that begins there.
LEMMA Landing ==
  ASSUME zone \in Zones, Full[zone] # <<>>, NEW wall \in Int, NEW k \in Skipping(wall)
  PROVE  LET u == wall - Full[zone][k].before
         IN  u \in Int /\ u + ClockOffset(u) > wall /\ FoldAt(Full[zone], u) = 0
<1> DEFINE t == Full[zone]
           N == Len(t)
           A(n) == OffsetAfter(t, n)
           U(n) == t[n].utc
           m(v) == UtcCount(t, v)
           u == wall - t[k].before
<1>1. /\ N \in Nat /\ DOMAIN t = 1..N
      /\ \A n \in 1..N : /\ U(n) \in Int /\ A(n) \in Int /\ A(n - 1) \in Int
                         /\ t[n].before = A(n - 1) /\ t[n].after = A(n)
  BY ClockFacts
<1>2. \A j, n \in 1..N : j < n => U(j) + A(j) - A(j - 1) <= U(n)
  <2>1. \A j, n \in DOMAIN t : j < n => t[j].utc + t[j].after - t[j].before <= t[n].utc
    BY ExpansionAssumption
  <2> QED BY <1>1, <2>1
<1>3. k \in 1..N /\ U(k) + A(k - 1) <= wall /\ wall < U(k) + A(k)
  BY <1>1 DEF Skipping
<1>4. \A v \in Int : m(v) \in 0..N /\ \A n \in 1..N : U(n) <= v <=> n <= m(v)
  BY CountedUtc
<1>5. u = wall - A(k - 1) /\ u \in Int
  BY SMTT(30), <1>1, <1>3
<1> HIDE DEF u
<1>6. m(u) = k
  <2> HIDE DEF t, N, A, U, m
  <2>1. m(u) \in 0..N /\ k <= m(u)
    <3>1. U(k) <= u
      BY <1>1, <1>3, <1>5
    <3> QED BY <3>1, <1>3, <1>4, <1>5
  <2>2. ASSUME k < m(u)  PROVE FALSE
    <3> DEFINE i == m(u)
    <3>0. i \in 0..N /\ N \in Nat /\ k \in 1..N /\ k < i
      BY <2>1, <2>2, <1>1, <1>3
    <3>4. i \in 1..N /\ i <= i
      <4> HIDE DEF i
      <4> QED BY <3>0
    <3>1. m(u) \in 1..N /\ U(m(u)) <= u /\ U(m(u)) \in Int
      BY <3>4, <1>1, <1>4, <1>5
    <3>2. U(k) + A(k) - A(k - 1) <= U(m(u))
      BY <3>1, <2>2, <1>2, <1>3
    <3>3. U(k) \in Int /\ A(k) \in Int /\ A(k - 1) \in Int
      BY <1>1, <1>3
    <3> QED BY SMTT(30), <3>1, <3>2, <3>3, <1>3, <1>5
  <2> QED BY <2>1, <2>2, <1>3
<1>7. ClockOffset(u) = A(k)
  BY <1>6 DEF ClockOffset
<1>8. u + A(k) > wall
  BY SMTT(30), <1>1, <1>3, <1>5
<1>9. FoldAt(t, u) = 0
  <2>1. k # 0 /\ ~(u - U(k) < A(k - 1) - A(k)) /\ t[k].before = A(k - 1) /\ t[k].after = A(k)
    <3>1. U(k) \in Int /\ A(k) \in Int /\ A(k - 1) \in Int
      BY <1>1, <1>3
    <3> HIDE DEF U, A
    <3> QED BY SMTT(30), <1>1, <1>3, <1>5, <3>1
  <2> HIDE DEF t
  <2> QED BY <1>6, <2>1 DEF FoldAt, m, U
<1> QED BY <1>5, <1>7, <1>8, <1>9 DEF u

LEMMA ResolvedIs ==
  ASSUME zone \in Zones, Full[zone] # <<>>, NEW wall \in Int
  PROVE  LET u == FirstInstant(wall)
         IN  /\ u \in Int /\ u = Resolved(wall) /\ FoldAt(Full[zone], u) = 0
             /\ Skipping(wall) = {} => /\ u \in Instants(wall) /\ u + ClockOffset(u) = wall
                                       /\ \A v \in Instants(wall) : u <= v
             /\ Skipping(wall) # {} => u + ClockOffset(u) > wall
<1> DEFINE u == FirstInstant(wall)
           offset == WallOffset(Full[zone], wall, 0)
<1>1. Pep495(wall, 0, offset)
  BY FirstReading
<1>2. u = wall - offset
  BY DEF FirstInstant
<1>3. /\ Instants(wall) \subseteq Int
      /\ \A v \in Int : v \in Instants(wall) <=> v + ClockOffset(v) = wall
  BY InstantsAre
<1>4. /\ DOMAIN Full[zone] \subseteq Int
      /\ \A k \in DOMAIN Full[zone] : Full[zone][k].before \in Int
  BY SMTT(30), ClockFacts
<1> HIDE DEF offset, u
<1>5. CASE Instants(wall) # {}
  <2>1. PICK v \in Instants(wall) : offset = wall - v /\ \A x \in Instants(wall) : v <= x
    BY <1>1, <1>5 DEF Pep495
  <2>2. u = v /\ u \in Int
    BY <1>2, <1>3, <2>1
  <2>3. u \in Instants(wall) /\ u + ClockOffset(u) = wall /\ \A x \in Instants(wall) : u <= x
    BY <1>3, <2>1, <2>2
  <2>4. Skipping(wall) = {}
    BY <1>5, SkippedNotShown
  <2>5. Resolved(wall) = u
    <3>1. \A x \in Instants(wall) : (\A y \in Instants(wall) : x <= y) => x = u
      BY <1>3, <2>2, <2>3
    <3>2. First(Instants(wall)) = u
      BY <2>3, <3>1 DEF First
    <3> QED BY <1>5, <3>2 DEF Resolved
  <2>6. FoldAt(Full[zone], u) = 0
    <3>1. /\ FoldAt(Full[zone], u) \in {0, 1}
          /\ FoldAt(Full[zone], u) = 1 <=> \E x \in Instants(u + ClockOffset(u)) : x < u
      BY <2>2, UtcReading
    <3>2. ~\E x \in Instants(u + ClockOffset(u)) : x < u
      BY <1>3, <2>2, <2>3
    <3> QED BY <3>1, <3>2
  <2> QED BY <2>2, <2>3, <2>4, <2>5, <2>6 DEF u
<1>6. CASE Instants(wall) = {}
  <2>1. PICK k \in DOMAIN Full[zone] :
          /\ Full[zone][k].utc + Full[zone][k].before <= wall
          /\ wall < Full[zone][k].utc + Full[zone][k].after
          /\ offset = Full[zone][k].before
    BY <1>1, <1>6 DEF Pep495
  <2>2. k \in Skipping(wall) /\ k \in Int
    BY <1>4, <2>1 DEF Skipping
  <2>3. \A j \in Skipping(wall) : j = k
    BY <2>2, SkippedOnce
  <2>4. First(Skipping(wall)) = k
    <3>1. \A v \in Skipping(wall) : k <= v
      BY <2>2, <2>3
    <3>2. First(Skipping(wall)) \in Skipping(wall)
      BY <2>2, <3>1 DEF First
    <3> QED BY <2>3, <3>2
  <2>5. Resolved(wall) = u
    BY <1>2, <1>6, <2>1, <2>4 DEF Resolved
  <2>6. u \in Int /\ u + ClockOffset(u) > wall /\ FoldAt(Full[zone], u) = 0
    BY <1>2, <2>1, <2>2, Landing
  <2> QED BY <2>2, <2>5, <2>6 DEF u
<1> QED BY <1>5, <1>6

\* Later wall times stand for later instants, but for those that are skipped.
LEMMA LaterInstant ==
  ASSUME zone \in Zones, Full[zone] # <<>>, NEW v \in Int, NEW w \in Int,
         v < w, Skipping(v) = {}
  PROVE  FirstInstant(v) < FirstInstant(w)
<1> DEFINE t == Full[zone]
           N == Len(t)
           A(k) == OffsetAfter(t, k)
           U(k) == t[k].utc
           a == WallCount(t, v, 0)
           b == WallCount(t, w, 0)
<1>1. /\ N \in Nat /\ DOMAIN t = 1..N
      /\ \A n \in 1..N : /\ U(n) \in Int /\ A(n) \in Int /\ A(n - 1) \in Int
                         /\ t[n].before = A(n - 1) /\ t[n].after = A(n)
      /\ \A n \in 0..N : A(n) \in Int
  BY ClockFacts
<1>2. \A j, k \in 1..N : j < k => U(j) <= U(k)
  BY Spaced
<1>3. /\ a \in 0..N
      /\ \A k \in 1..N : (U(k) + A(k - 1) <= v /\ U(k) + A(k) <= v) <=> k <= a
  BY CountedWall
<1>4. /\ b \in 0..N
      /\ \A k \in 1..N : (U(k) + A(k - 1) <= w /\ U(k) + A(k) <= w) <=> k <= b
  BY CountedWall
<1>5. FirstInstant(v) = v - A(a) /\ FirstInstant(w) = w - A(b)
  BY DEF FirstInstant, WallOffset, WallCount
<1>6. \A k \in 1..N : ~(U(k) + A(k - 1) <= v /\ v < U(k) + A(k))
  BY <1>1 DEF Skipping
<1> HIDE DEF t, N, A, U, a, b
<1>7. A(a) \in Int /\ A(b) \in Int /\ a \in Int /\ b \in Int
  BY <1>1, <1>3, <1>4
<1>8. a <= b
  <2>1. CASE a = 0
    BY <2>1, <1>4
  <2>2. CASE a # 0
    <3>1. a \in 1..N /\ a <= a
      BY <2>2, <1>1, <1>3
    <3>2. U(a) + A(a - 1) <= v /\ U(a) + A(a) <= v
      BY <3>1, <1>3
    <3>3. U(a) \in Int /\ A(a) \in Int /\ A(a - 1) \in Int
      BY <3>1, <1>1
    <3>4. U(a) + A(a - 1) <= w /\ U(a) + A(a) <= w
      BY <3>2, <3>3
    <3> QED BY <3>1, <3>4, <1>4
  <2> QED BY <2>1, <2>2
<1>9. CASE a = b
  BY <1>5, <1>7, <1>9
<1>10. CASE a < b
  <2> DEFINE n == a + 1
  <2>1. n \in 1..N /\ n - 1 = a /\ ~(n <= a) /\ b \in 1..N /\ b <= b /\ (n < b \/ n = b)
    BY <1>1, <1>3, <1>4, <1>10
  <2> HIDE DEF n
  <2>2. /\ U(n) \in Int /\ A(n) \in Int /\ A(n - 1) \in Int /\ U(b) \in Int /\ A(n - 1) = A(a)
    BY <2>1, <1>1
  <2>3. ~(U(n) + A(n - 1) <= v /\ U(n) + A(n) <= v)
    BY <2>1, <1>3
  <2>4. ~(U(n) + A(n - 1) <= v /\ v < U(n) + A(n))
    BY <2>1, <1>6
  <2>5. v < U(n) + A(a)
    BY <2>2, <2>3, <2>4
  <2>6. U(b) + A(b) <= w
    BY <2>1, <1>4
  <2>7. U(n) <= U(b)
    BY <2>1, <2>2, <1>2
  <2> QED BY <1>5, <1>7, <2>2, <2>5, <2>6, <2>7
<1> QED BY <1>7, <1>8, <1>9, <1>10

-----------------------------------------------------------------------------
(* The expansion. *)

Task ==
  [walls : Rules, until : Int, step : {"until", "next", "clock", "raised"},
   left : Seq(Times), instant : Int,
   out : Seq([instant : Int, wall : Int, fold : {0, 1}])]

\* What is left are the next of the rule's times ...
LeftToDo ==
  /\ Len(task.out) + Len(task.left) <= Len(task.walls)
  /\ \A i \in 1..Len(task.left) : task.left[i] = task.walls[Len(task.out) + i]

\* ... up to UNTIL as the zone's clock shows it.
LeftUntil ==
  /\ task.step = "until" => task.left = task.walls /\ task.out = <<>>
  /\ task.step \in {"next", "clock"} /\ task.until # NoUntil =>
       /\ Full[zone] # <<>>
       /\ \A i \in DOMAIN task.walls :
            task.walls[i] <= task.until + ClockOffset(task.until)
              <=> i <= Len(task.out) + Len(task.left)

\* An answer is to the question of the step, and from the full list.
AnswerFits ==
  /\ failed /\ task.step # "raised" => answer = Raised
  /\ answer.query = "utcoffset" /\ task.step = "next" =>
       /\ Full[zone] # <<>> /\ task.left # <<>>
       /\ answer.wall = Head(task.left)
       /\ answer.wall - answer.offset = FirstInstant(answer.wall)
  /\ answer.query = "fromutc" /\ task.step \in {"until", "clock"} =>
       LET u == IF task.step = "until" THEN task.until ELSE task.instant
       IN  /\ Full[zone] # <<>>
           /\ answer.wall = u + ClockOffset(u)
           /\ answer.fold = FoldAt(Full[zone], u)

ClockAsked ==
  task.step = "clock" => task.left # <<>> /\ task.instant = FirstInstant(Head(task.left))

Instances ==
  \A i \in 1..Len(task.out) :
    LET u == FirstInstant(task.walls[i])
    IN  /\ Full[zone] # <<>>
        /\ task.out[i] = [instant |-> u, wall |-> u + ClockOffset(u), fold |-> 0]

TaskInv ==
  /\ task \in Task
  /\ LeftToDo /\ LeftUntil /\ AnswerFits /\ ClockAsked /\ Instances

LEMMA TaskType ==
  ASSUME task \in Task
  PROVE  /\ task.walls \in Rules /\ task.until \in Int /\ task.instant \in Int
         /\ task.step \in {"until", "next", "clock", "raised"}
         /\ task.left \in Seq(Times)
         /\ task.out \in Seq([instant : Int, wall : Int, fold : {0, 1}])
         /\ task.walls \in Seq(Times)
         /\ \A i \in DOMAIN task.walls : task.walls[i] \in Int
<1>1. /\ task.walls \in Rules /\ task.until \in Int /\ task.instant \in Int
      /\ task.step \in {"until", "next", "clock", "raised"}
      /\ task.left \in Seq(Times)
      /\ task.out \in Seq([instant : Int, wall : Int, fold : {0, 1}])
  BY DEF Task
<1>2. task.walls \in Seq(Times)
  BY <1>1, ExpansionAssumption
<1>3. \A i \in DOMAIN task.walls : task.walls[i] \in Int
  BY <1>2, NumbersType
<1> QED BY <1>1, <1>2, <1>3

LEMMA TaskInvInit ==
  ASSUME ExpInit
  PROVE  ZoneInv /\ TaskInv
<1>1. ZoneInv
  BY ZoneInvInit DEF ExpInit
<1>2. PICK walls \in Rules : \E until \in Untils(walls) :
        task = [walls |-> walls, until |-> until,
                step |-> IF until = NoUntil THEN "next" ELSE "until",
                left |-> walls, instant |-> 0, out |-> <<>>]
  BY DEF ExpInit
<1>3. PICK until \in Untils(walls) :
        task = [walls |-> walls, until |-> until,
                step |-> IF until = NoUntil THEN "next" ELSE "until",
                left |-> walls, instant |-> 0, out |-> <<>>]
  BY <1>2
<1>4. walls \in Seq(Times) /\ until \in Int
  <2>1. walls \in Seq(Times)
    BY ExpansionAssumption
  <2>2. until = NoUntil \/ until \in Times
    BY DEF Untils
  <2>3. until \in Times => until \in Int
    BY AskedYears
  <2> QED BY <2>1, <2>2, <2>3 DEF NoUntil
<1>5. task \in Task
  BY <1>3, <1>4 DEF Task
<1>6. /\ task.left = task.walls /\ task.walls = walls /\ task.out = <<>>
      /\ task.until = until /\ task.step = IF until = NoUntil THEN "next" ELSE "until"
  BY <1>3
<1>7. Len(task.out) = 0 /\ Len(task.left) \in Nat
  BY <1>4, <1>6
<1>8. LeftToDo
  BY <1>6, <1>7 DEF LeftToDo
<1>9. LeftUntil /\ ClockAsked
  BY <1>6 DEF LeftUntil, ClockAsked
<1>10. Instances
  BY <1>7 DEF Instances
<1>11. AnswerFits
  <2>1. answer = NoAnswer /\ failed = FALSE
    BY DEF ExpInit, Init
  <2>2. ~failed
    BY <2>1, Zenon
  <2>3. answer.query # "utcoffset" /\ answer.query # "fromutc"
    BY <2>1 DEF NoAnswer
  <2> QED BY <2>2, <2>3, Zenon DEF AnswerFits
<1> QED BY <1>1, <1>5, <1>8, <1>9, <1>10, <1>11 DEF TaskInv

\* All but the answer is as it was when the task is.
LEMMA SameTask ==
  ASSUME TaskInv, UNCHANGED <<task, zone>>, AnswerFits'
  PROVE  TaskInv'
<1>1. \A w : FirstInstant(w)' = FirstInstant(w)
  BY DEF FirstInstant
<1>2. \A u : ClockOffset(u)' = ClockOffset(u)
  BY SameReadings
<1>3. LeftToDo' /\ LeftUntil' /\ ClockAsked'
  BY <1>1, <1>2 DEF TaskInv, LeftToDo, LeftUntil, ClockAsked
<1>4. Instances'
  BY <1>1, <1>2 DEF TaskInv, Instances
<1> QED BY <1>3, <1>4 DEF TaskInv

\* A failed query leaves an exception for an answer.
LEMMA FailedAnswer ==
  ASSUME TaskInv, ZoneInv, answer = NoAnswer, task.step # "raised"
  PROVE  ~failed
<1>1. answer # Raised
  BY DEF NoAnswer, Raised
<1> QED BY <1>1, Zenon DEF TaskInv, AnswerFits

LEMMA RaisedFits ==
  ASSUME answer' = Raised
  PROVE  AnswerFits'
<1>1. answer'.query # "utcoffset" /\ answer'.query # "fromutc"
  BY DEF Raised
<1> QED BY <1>1, Zenon DEF AnswerFits

LEMMA AskedUtc ==
  ASSUME ZoneInv, TaskInv, NEW u \in Int, Fromutc(u), UNCHANGED task,
         task.step \in {"until", "clock"},
         u = IF task.step = "until" THEN task.until ELSE task.instant
  PROVE  ZoneInv' /\ TaskInv'
<1>1. ZoneInv' /\ zone' = zone /\ answer = NoAnswer
  BY FromutcInv DEF Fromutc
<1>2. failed' \/ ~failed'
  OBVIOUS
<1>3. CASE failed'
  <2>1. ~failed
    BY <1>1, FailedAnswer
  <2>2. answer' = Raised
    <3>1. EnsureFails(Year(u) + 1) \/ failed' = failed
      BY DEF Fromutc
    <3>2. failed' # failed
      BY <1>3, <2>1, Zenon
    <3> QED BY <3>1, <3>2 DEF EnsureFails
  <2> QED BY <1>1, <2>2, RaisedFits, SameTask
<1>4. CASE ~failed'
  <2>1. /\ zone \in Zones /\ horizon' \in Int /\ Table(zone, horizon') # <<>>
        /\ Year(u) + 1 <= horizon'
        /\ LET offset == OffsetAfter(Table(zone, horizon'), UtcCount(Table(zone, horizon'), u))
           IN  answer' = [query |-> "fromutc", utc |-> u, wall |-> u + offset,
                          fold |-> FoldAt(Table(zone, horizon'), u), offset |-> offset]
    BY <1>4, FromutcAnswer
  <2>2. Full[zone] # <<>>
    BY <2>1, FirstChange
  <2>3. /\ OffsetAfter(Table(zone, horizon'), UtcCount(Table(zone, horizon'), u)) = ClockOffset(u)
        /\ FoldAt(Table(zone, horizon'), u) = FoldAt(Full[zone], u)
    BY <2>1, SameUtcOffset DEF ClockOffset
  <2>4. /\ answer'.query = "fromutc" /\ answer'.query # "utcoffset"
        /\ answer'.wall = u + ClockOffset(u) /\ answer'.fold = FoldAt(Full[zone], u)
    BY <2>1, <2>3
  <2>5. ClockOffset(u)' = ClockOffset(u)
    BY <1>1, SameReadings
  <2>6. AnswerFits'
    <3>1. /\ (Full[zone] # <<>>)'
          /\ (answer.wall = u + ClockOffset(u))'
          /\ (answer.fold = FoldAt(Full[zone], u))'
      BY <1>1, <2>2, <2>4, <2>5
    <3>2. (u = IF task.step = "until" THEN task.until ELSE task.instant)'
      OBVIOUS
    <3> QED BY <1>4, <2>4, <3>1, <3>2, Zenon DEF AnswerFits
  <2> QED BY <1>1, <2>6, SameTask
<1> QED BY <1>2, <1>3, <1>4

LEMMA AskedWall ==
  ASSUME ZoneInv, TaskInv, AskOffset
  PROVE  ZoneInv' /\ TaskInv'
<1> PICK t : t = Head(task.left)
  OBVIOUS
<1>1. task.step = "next" /\ task.left # <<>> /\ Utcoffset(t, 0) /\ UNCHANGED task
  BY DEF AskOffset
<1>2. t \in Int
  <2>1. task.left \in Seq(Times)
    BY TaskType DEF TaskInv
  <2>2. task.left[1] \in Times /\ t = task.left[1]
    BY <1>1, <2>1, Behead
  <2> QED BY <2>2, AskedYears
<1>3. ZoneInv' /\ zone' = zone /\ answer = NoAnswer
  BY <1>1, <1>2, UtcoffsetInv DEF Utcoffset
<1>4. CASE failed'
  <2>1. ~failed
    BY <1>1, <1>3, FailedAnswer
  <2>2. answer' = Raised
    <3>1. EnsureFails(Year(t)) \/ failed' = failed
      BY <1>1 DEF Utcoffset
    <3>2. failed' # failed
      BY <1>4, <2>1, Zenon
    <3> QED BY <3>1, <3>2 DEF EnsureFails
  <2> QED BY <1>1, <1>3, <2>2, RaisedFits, SameTask
<1>5. CASE ~failed'
  <2>1. /\ zone \in Zones /\ horizon' \in Int /\ Table(zone, horizon') # <<>>
        /\ Year(t) <= horizon'
        /\ answer' = [query |-> "utcoffset", wall |-> t, fold |-> 0,
                      offset |-> WallOffset(Table(zone, horizon'), t, 0)]
    BY <1>1, <1>2, <1>5, UtcoffsetAnswer
  <2>2. Full[zone] # <<>>
    BY <2>1, FirstChange
  <2>3. WallOffset(Table(zone, horizon'), t, 0) = WallOffset(Full[zone], t, 0)
    BY <1>2, <2>1, SameFirstOffset
  <2>4. /\ answer'.query = "utcoffset" /\ answer'.query # "fromutc"
        /\ answer'.wall = t /\ answer'.wall - answer'.offset = FirstInstant(t)
    BY <2>1, <2>3 DEF FirstInstant
  <2>5. FirstInstant(t)' = FirstInstant(t)
    BY <1>3 DEF FirstInstant
  <2>6. AnswerFits'
    <3>1. (/\ Full[zone] # <<>> /\ task.left # <<>>
           /\ answer.wall = Head(task.left)
           /\ answer.wall - answer.offset = FirstInstant(answer.wall))'
      BY <1>1, <1>3, <2>2, <2>4, <2>5
    <3> QED BY <1>5, <2>4, <3>1, Zenon DEF AnswerFits
  <2> QED BY <1>1, <1>3, <2>6, SameTask
<1> QED BY <1>4, <1>5

\* Taking an answer keeps the zone and leaves no answer.
LEMMA Taken ==
  ASSUME ZoneInv, TaskInv, Proceed, answer # Raised, task.step # "raised"
  PROVE  /\ ZoneInv' /\ zone' = zone /\ AnswerFits'
         /\ \A w : FirstInstant(w)' = FirstInstant(w)
         /\ \A u : ClockOffset(u)' = ClockOffset(u)
<1>1. zone' = zone /\ answer' = NoAnswer /\ failed' = failed
  BY DEF Proceed
<1>2. ~failed
  BY Zenon DEF TaskInv, AnswerFits
<1>3. ~failed'
  BY <1>1, <1>2, Zenon
<1>4. answer'.query # "utcoffset" /\ answer'.query # "fromutc"
  BY <1>1 DEF NoAnswer
<1>5. AnswerFits'
  BY <1>3, <1>4, Zenon DEF AnswerFits
<1>6. \A w : FirstInstant(w)' = FirstInstant(w)
  BY <1>1 DEF FirstInstant
<1> QED BY <1>1, <1>5, <1>6, ProceedInv, SameReadings

\* Rule times up to a bound are those at the beginning.
LEMMA UpToIs ==
  ASSUME NEW walls \in Rules, NEW until \in Int
  PROVE  LET n == Len(UpTo(walls, until))
         IN  /\ UpTo(walls, until) \in Seq(Times) /\ n \in 0..Len(walls)
             /\ \A i \in 1..n : UpTo(walls, until)[i] = walls[i]
             /\ \A i \in DOMAIN walls : walls[i] <= until <=> i <= n
<1> DEFINE P == {i \in DOMAIN walls : walls[i] <= until}
           n == Cardinality(P)
<1>1. walls \in Seq(Times) /\ \A i, j \in DOMAIN walls : i < j => walls[i] < walls[j]
  BY ExpansionAssumption
<1>2. Len(walls) \in Nat /\ DOMAIN walls = 1..Len(walls) /\ \A i \in 1..Len(walls) : walls[i] \in Int
  <2>1. Len(walls) \in Nat /\ DOMAIN walls = 1..Len(walls) /\ \A i \in 1..Len(walls) : walls[i] \in Times
    BY <1>1
  <2> QED BY <2>1, AskedYears
<1>3. P \in SUBSET (1..Len(walls)) /\ \A i \in 1..Len(walls) : i \in P <=> walls[i] <= until
  BY <1>2
<1>4. ASSUME NEW i \in 1..Len(walls), NEW j \in 1..Len(walls), i <= j, j \in P
      PROVE  i \in P
  <2>1. i = j \/ walls[i] < walls[j]
    BY <1>1, <1>2, <1>4
  <2> QED BY <2>1, <1>2, <1>3, <1>4
<1> HIDE DEF P
<1>5. n \in 0..Len(walls) /\ \A i \in 1..Len(walls) : i \in P <=> i <= n
  BY <1>2, <1>3, <1>4, CountUpTo
<1>6. UpTo(walls, until) = SubSeq(walls, 1, n)
  BY DEF UpTo, P
<1> HIDE DEF n
<1>7. /\ SubSeq(walls, 1, n) \in Seq(Times) /\ Len(SubSeq(walls, 1, n)) = n
      /\ \A i \in 1..n : SubSeq(walls, 1, n)[i] = walls[i]
  BY <1>1, <1>5, Parts
<1> QED BY <1>2, <1>3, <1>5, <1>6, <1>7

LEMMA UntilTaken ==
  ASSUME ZoneInv, TaskInv, TakeUntil
  PROVE  ZoneInv' /\ TaskInv'
<1>0. PICK until, bound, left :
      /\ until = task.until /\ bound = answer.wall
      /\ left = UpTo(task.walls, answer.wall)
  OBVIOUS
<1>1. /\ task.step = "until" /\ answer.query = "fromutc" /\ Proceed
      /\ task' = [task EXCEPT !.step = "next", !.left = left]
  BY <1>0 DEF TakeUntil
<1>2. task \in Task /\ LeftUntil /\ AnswerFits
  BY DEF TaskInv
<1>3. Full[zone] # <<>> /\ bound = until + ClockOffset(until)
  BY <1>0, <1>1, <1>2 DEF AnswerFits
<1>4. answer # Raised
  BY <1>1 DEF Raised
<1>5. /\ ZoneInv' /\ zone' = zone /\ AnswerFits'
      /\ \A u : ClockOffset(u)' = ClockOffset(u)
  BY <1>1, <1>4, Taken
<1>6. task.until \in Int /\ zone \in Zones /\ task.walls \in Rules
  BY <1>2, TaskType DEF ZoneInv
<1>7. bound \in Int
  <2>1. ClockOffset(until) \in Int
    BY <1>0, <1>3, <1>6, InstantsAre
  <2> QED BY <1>0, <1>3, <1>6, <2>1
<1>8. /\ left \in Seq(Times) /\ Len(left) \in 0..Len(task.walls)
      /\ \A i \in 1..Len(left) : left[i] = task.walls[i]
      /\ \A i \in DOMAIN task.walls : task.walls[i] <= bound <=> i <= Len(left)
  BY <1>0, <1>6, <1>7, UpToIs
<1>9. /\ task'.left = left /\ task'.walls = task.walls /\ task'.out = <<>>
      /\ task'.until = until /\ task'.step = "next" /\ task' \in Task
  BY <1>0, <1>1, <1>2, <1>8 DEF Task, LeftUntil
<1>10. Len(task'.out) = 0 /\ Len(left) \in Nat
  BY <1>8, <1>9
<1>11. LeftToDo'
  BY <1>8, <1>9, <1>10 DEF LeftToDo
<1>12. LeftUntil'
  BY <1>3, <1>5, <1>8, <1>9, <1>10 DEF LeftUntil
<1>13. Instances' /\ ClockAsked'
  BY <1>9, <1>10 DEF Instances, ClockAsked
<1> QED BY <1>5, <1>9, <1>11, <1>12, <1>13 DEF TaskInv

LEMMA OffsetTaken ==
  ASSUME ZoneInv, TaskInv, TakeOffset
  PROVE  ZoneInv' /\ TaskInv'
<1>0. PICK t, instant : t = answer.wall /\ instant = answer.wall - answer.offset
  OBVIOUS
<1>1. /\ task.step = "next" /\ answer.query = "utcoffset" /\ Proceed
      /\ task' = [task EXCEPT !.step = "clock", !.instant = instant]
  BY <1>0 DEF TakeOffset
<1>2. task \in Task /\ LeftUntil /\ AnswerFits /\ LeftToDo /\ Instances
  BY DEF TaskInv
<1>3. /\ Full[zone] # <<>> /\ task.left # <<>> /\ t = Head(task.left)
      /\ instant = FirstInstant(t)
  BY <1>0, <1>1, <1>2 DEF AnswerFits
<1>4. answer # Raised
  BY <1>1 DEF Raised
<1>5. /\ ZoneInv' /\ zone' = zone /\ AnswerFits'
      /\ \A w : FirstInstant(w)' = FirstInstant(w)
      /\ \A u : ClockOffset(u)' = ClockOffset(u)
  BY <1>1, <1>4, Taken
<1>6. instant \in Int
  <2>1. task.left \in Seq(Times)
    BY <1>2, TaskType
  <2>2. task.left[1] \in Times /\ t = task.left[1]
    BY <1>3, <2>1, Behead
  <2>3. t \in Int /\ zone \in Zones
    BY <2>2, AskedYears DEF ZoneInv
  <2> QED BY <1>3, <2>3, ResolvedIs
<1>7. /\ task'.left = task.left /\ task'.walls = task.walls /\ task'.out = task.out
      /\ task'.until = task.until /\ task'.step = "clock" /\ task'.instant = instant
      /\ task' \in Task
  BY <1>1, <1>2, <1>6 DEF Task
<1>8. LeftToDo' /\ Instances'
  BY <1>2, <1>5, <1>7 DEF LeftToDo, Instances
<1>9. LeftUntil'
  <2>1. ASSUME task.until # NoUntil
        PROVE  /\ Full[zone] # <<>>
               /\ \A i \in DOMAIN task.walls :
                    task.walls[i] <= task.until + ClockOffset(task.until)
                      <=> i <= Len(task.out) + Len(task.left)
    BY <1>1, <1>2, <2>1 DEF LeftUntil
  <2>2. ClockOffset(task.until)' = ClockOffset(task.until)
    BY <1>5, <1>7
  <2>3. /\ (Full[zone])' = Full[zone] /\ task'.step # "until"
        /\ task'.walls = task.walls /\ task'.until = task.until
        /\ Len(task'.out) + Len(task'.left) = Len(task.out) + Len(task.left)
    BY <1>5, <1>7
  <2> QED BY <2>1, <2>2, <2>3 DEF LeftUntil
<1>10. ClockAsked'
  BY <1>3, <1>5, <1>7 DEF ClockAsked
<1> QED BY <1>5, <1>7, <1>8, <1>9, <1>10 DEF TaskInv

LEMMA ClockTaken ==
  ASSUME ZoneInv, TaskInv, TakeClock
  PROVE  ZoneInv' /\ TaskInv'
<1>0. PICK t, u, instance :
      /\ t = Head(task.left) /\ u = task.instant
      /\ instance = [instant |-> task.instant, wall |-> answer.wall, fold |-> answer.fold]
  OBVIOUS
<1>1. /\ task.step = "clock" /\ answer.query = "fromutc" /\ Proceed
      /\ task' = [task EXCEPT !.step = "next", !.left = Tail(@), !.out = Append(@, instance)]
  BY <1>0 DEF TakeClock
<1>2. /\ task \in Task /\ LeftUntil /\ AnswerFits /\ LeftToDo /\ Instances /\ ClockAsked
      /\ zone \in Zones
  BY DEF TaskInv, ZoneInv
<1>3. /\ Full[zone] # <<>> /\ answer.wall = u + ClockOffset(u)
      /\ answer.fold = FoldAt(Full[zone], u)
  BY <1>0, <1>1, <1>2 DEF AnswerFits
<1>4. task.left # <<>> /\ u = FirstInstant(t)
  BY <1>0, <1>1, <1>2 DEF ClockAsked
<1>5. answer # Raised
  BY <1>1 DEF Raised
<1>6. /\ ZoneInv' /\ zone' = zone /\ AnswerFits'
      /\ \A w : FirstInstant(w)' = FirstInstant(w)
      /\ \A v : ClockOffset(v)' = ClockOffset(v)
  BY <1>1, <1>5, Taken
<1>7. /\ task.left \in Seq(Times) /\ task.walls \in Seq(Times)
      /\ task.out \in Seq([instant : Int, wall : Int, fold : {0, 1}])
  BY <1>2, TaskType
<1>8. /\ t = task.left[1] /\ t \in Times /\ Len(task.left) \in Nat /\ Len(task.left) >= 1
      /\ Tail(task.left) \in Seq(Times) /\ Len(Tail(task.left)) = Len(task.left) - 1
      /\ \A i \in 1..(Len(task.left) - 1) : Tail(task.left)[i] = task.left[i + 1]
  BY <1>0, <1>4, <1>7, Behead
<1>9. t \in Int
  BY <1>8, AskedYears
<1>10. u \in Int /\ ClockOffset(u) \in Int /\ FoldAt(Full[zone], u) = 0
  BY <1>2, <1>3, <1>4, <1>9, ResolvedIs, InstantsAre
<1>11. /\ instance = [instant |-> u, wall |-> u + ClockOffset(u), fold |-> 0]
       /\ instance \in [instant : Int, wall : Int, fold : {0, 1}]
  BY <1>0, <1>3, <1>10
<1>21. PICK n, m, left, out : /\ n = Len(task.out) /\ m = Len(task.left)
                              /\ left = Tail(task.left) /\ out = Append(task.out, instance)
  OBVIOUS
<1>12. /\ n \in Nat /\ out \in Seq([instant : Int, wall : Int, fold : {0, 1}])
       /\ Len(out) = n + 1 /\ out[n + 1] = instance
       /\ \A i \in 1..n : out[i] = task.out[i]
  <2>1. DOMAIN task.out = 1..n /\ n \in Nat
    BY <1>7, <1>21
  <2> QED BY <1>7, <1>11, <1>21, <2>1, Pushed
<1>13. /\ task'.left = left /\ task'.walls = task.walls /\ task'.out = out
       /\ task'.until = task.until /\ task'.step = "next" /\ task' \in Task
  BY <1>1, <1>2, <1>8, <1>12, <1>21 DEF Task
<1>14. /\ n + m <= Len(task.walls)
       /\ \A i \in 1..m : task.left[i] = task.walls[n + i]
  BY <1>2, <1>21 DEF LeftToDo
<1>15. Len(left) = m - 1 /\ m \in Nat /\ Len(out) + Len(left) = n + m
  <2>1. Len(left) = m - 1 /\ m \in Nat
    BY <1>8, <1>21
  <2>2. Len(out) = n + 1 /\ n \in Nat
    BY <1>12
  <2> QED BY <2>1, <2>2
<1>16. LeftToDo'
  <2>1. ASSUME NEW i \in 1..Len(left)  PROVE left[i] = task.walls[Len(out) + i]
    <3>1. i \in 1..(m - 1) /\ i + 1 \in 1..m /\ i \in Int
      BY <1>15
    <3>2. Len(out) + i = n + (i + 1)
      <4>1. Len(out) = n + 1 /\ n \in Nat
        BY <1>12
      <4> QED BY <3>1, <4>1
    <3> QED BY <1>8, <1>14, <1>21, <3>1, <3>2
  <2> QED BY <1>13, <1>14, <1>15, <2>1 DEF LeftToDo
<1>17. LeftUntil'
  <2>1. ASSUME task.until # NoUntil
        PROVE  /\ Full[zone] # <<>>
               /\ \A i \in DOMAIN task.walls :
                    task.walls[i] <= task.until + ClockOffset(task.until) <=> i <= n + m
    BY <1>1, <1>2, <1>21, <2>1 DEF LeftUntil
  <2>2. ClockOffset(task.until)' = ClockOffset(task.until)
    BY <1>6, <1>13
  <2> QED BY <1>6, <1>13, <1>15, <2>1, <2>2 DEF LeftUntil
<1>18. t = task.walls[n + 1]
  <2>1. 1 \in 1..m
    BY <1>8, <1>21
  <2> QED BY <1>8, <1>14, <2>1
<1>19. Instances'
  <2>1. ASSUME NEW i \in 1..Len(out)
        PROVE  out[i] = [instant |-> FirstInstant(task.walls[i]),
                         wall |-> FirstInstant(task.walls[i])
                                    + ClockOffset(FirstInstant(task.walls[i])),
                         fold |-> 0]
    <3>1. i = n + 1 \/ i \in 1..n
      BY <1>12
    <3>2. CASE i = n + 1
      BY <1>4, <1>11, <1>12, <1>18, <3>2
    <3>3. CASE i \in 1..n
      BY <1>2, <1>12, <1>21, <3>3 DEF Instances
    <3> QED BY <3>1, <3>2, <3>3
  <2> QED BY <1>3, <1>6, <1>13, <2>1 DEF Instances
<1>20. ClockAsked'
  BY <1>13 DEF ClockAsked
<1> QED BY <1>6, <1>13, <1>16, <1>17, <1>19, <1>20 DEF TaskInv

LEMMA TaskInvNext ==
  ASSUME ZoneInv, TaskInv, [ExpNext]_<<vars, task>>
  PROVE  ZoneInv' /\ TaskInv'
<1>1. CASE Build /\ UNCHANGED task
  <2>1. ZoneInv' /\ zone' = zone /\ answer' = answer /\ failed' = failed /\ task' = task
    BY <1>1, BuildInv DEF Build
  <2>2. AnswerFits'
    <3>1. FirstInstant(answer.wall)' = FirstInstant(answer.wall)
      BY <2>1 DEF FirstInstant
    <3>2. \A u : ClockOffset(u)' = ClockOffset(u)
      BY <2>1, SameReadings
    <3>3. answer'.query # "utcoffset" /\ answer'.query # "fromutc"
      BY <1>1, <2>1 DEF ZoneInv, Build, NoAnswer
    <3>4. ~failed'
      <4>1. ~failed
        BY <1>1 DEF ZoneInv, Build
      <4> QED BY <2>1, <4>1, Zenon
    <3> QED BY <3>3, <3>4, Zenon DEF AnswerFits
  <2> QED BY <2>1, <2>2, SameTask
<1>2. CASE AskUntil
  BY <1>2, AskedUtc, TaskType DEF AskUntil, TaskInv
<1>3. CASE AskClock
  BY <1>3, AskedUtc, TaskType DEF AskClock, TaskInv
<1>4. CASE Abandon
  <2>1. /\ zone' = zone /\ answer' = NoAnswer /\ ZoneInv'
        /\ task' = [task EXCEPT !.step = "raised"]
    BY <1>4, ProceedInv DEF Abandon, Proceed
  <2>2. task \in Task
    BY DEF TaskInv
  <2>3. /\ task' \in Task /\ task'.step = "raised" /\ task'.left = task.left
        /\ task'.out = task.out /\ task'.walls = task.walls
    BY <2>1, <2>2 DEF Task
  <2>4. AnswerFits'
    <3>1. answer'.query # "utcoffset" /\ answer'.query # "fromutc"
      BY <2>1 DEF NoAnswer
    <3> QED BY <2>3, <3>1, Zenon DEF AnswerFits
  <2>5. \A w : FirstInstant(w)' = FirstInstant(w)
    BY <2>1 DEF FirstInstant
  <2>6. \A u : ClockOffset(u)' = ClockOffset(u)
    BY <2>1, SameReadings
  <2>7. LeftToDo' /\ Instances'
    BY <2>1, <2>3, <2>5, <2>6 DEF TaskInv, LeftToDo, Instances
  <2>8. LeftUntil' /\ ClockAsked'
    BY <2>3 DEF LeftUntil, ClockAsked
  <2> QED BY <2>1, <2>3, <2>4, <2>7, <2>8 DEF TaskInv
<1>5. CASE UNCHANGED <<vars, task>>
  <2>1. UNCHANGED <<zone, answer, failed, task>> /\ UNCHANGED vars
    BY <1>5 DEF vars
  <2>2. \A w : FirstInstant(w)' = FirstInstant(w)
    BY <2>1 DEF FirstInstant
  <2>3. \A u : ClockOffset(u)' = ClockOffset(u)
    BY <2>1, SameReadings
  <2>4. ZoneInv'
    BY <2>1, ZoneInvNext
  <2>5. AnswerFits'
    BY <2>1, <2>2, <2>3, Zenon DEF TaskInv, AnswerFits
  <2> QED BY <2>1, <2>4, <2>5, SameTask
<1> QED BY <1>1, <1>2, <1>3, <1>4, <1>5, UntilTaken, AskedWall, OffsetTaken, ClockTaken DEF ExpNext

LEMMA InstancesAreResolved ==
  ASSUME ZoneInv, TaskInv
  PROVE  InstancesResolved
<1>1. /\ zone \in Zones /\ Len(task.out) <= Len(task.walls)
      /\ task.walls \in Rules /\ task.walls \in Seq(Times)
      /\ task.out \in Seq([instant : Int, wall : Int, fold : {0, 1}])
      /\ \A i \in DOMAIN task.walls : task.walls[i] \in Int
      /\ \A i, j \in DOMAIN task.walls : i < j => task.walls[i] < task.walls[j]
  <2>1. /\ task.walls \in Rules /\ task.walls \in Seq(Times) /\ task.left \in Seq(Times)
        /\ task.out \in Seq([instant : Int, wall : Int, fold : {0, 1}])
        /\ \A i \in DOMAIN task.walls : task.walls[i] \in Int
    BY TaskType DEF TaskInv
  <2>2. Len(task.left) \in Nat /\ Len(task.out) \in Nat /\ Len(task.walls) \in Nat
    BY <2>1
  <2>3. Len(task.out) <= Len(task.walls)
    <3>1. PICK m, n, k : m = Len(task.left) /\ n = Len(task.out) /\ k = Len(task.walls)
      OBVIOUS
    <3>2. m \in Nat /\ n \in Nat /\ k \in Nat
      BY <2>2, <3>1
    <3>3. n + m <= k
      BY <3>1 DEF TaskInv, LeftToDo
    <3>4. n <= k
      BY <3>2, <3>3
    <3> QED BY <3>1, <3>4
  <2> QED BY <2>1, <2>3, ExpansionAssumption DEF ZoneInv
<1>2. /\ DOMAIN task.out = 1..Len(task.out) /\ Len(task.out) \in Nat
      /\ DOMAIN task.walls = 1..Len(task.walls) /\ Len(task.walls) \in Nat
  BY <1>1
<1>3. ASSUME NEW i \in DOMAIN task.out
      PROVE  LET wall == task.walls[i]  instance == task.out[i]
             IN  /\ i \in DOMAIN task.walls /\ wall \in Int
                 /\ Full[zone] # <<>>
                 /\ instance.instant = FirstInstant(wall)
                 /\ instance.wall = instance.instant + ClockOffset(instance.instant)
                 /\ instance.fold = 0
  <2>1. i \in 1..Len(task.out) /\ i \in DOMAIN task.walls /\ task.walls[i] \in Int
    BY <1>1, <1>2
  <2>2. PICK u : u = FirstInstant(task.walls[i])
    OBVIOUS
  <2>3. /\ Full[zone] # <<>>
        /\ task.out[i] = [instant |-> u, wall |-> u + ClockOffset(u), fold |-> 0]
    BY <2>1, <2>2 DEF TaskInv, Instances
  <2>4. task.out[i].instant = u /\ task.out[i].wall = u + ClockOffset(u) /\ task.out[i].fold = 0
    BY <2>3
  <2> QED BY <2>1, <2>2, <2>3, <2>4
<1>4. ASSUME NEW i \in DOMAIN task.out
      PROVE  LET wall == task.walls[i]  instance == task.out[i]
             IN  /\ instance.instant = Resolved(wall)
                 /\ instance.wall = instance.instant + ClockOffset(instance.instant)
                 /\ instance.fold = 0
                 /\ IF Skipping(wall) = {} THEN instance.wall = wall ELSE instance.wall > wall
                 /\ \A j \in 1..(i - 1) :
                      task.out[j].instant < instance.instant \/ Skipping(task.walls[j]) # {}
  <2> DEFINE wall == task.walls[i]
             instance == task.out[i]
  <2>1. /\ i \in DOMAIN task.walls /\ wall \in Int
        /\ Full[zone] # <<>>
        /\ instance.instant = FirstInstant(wall)
        /\ instance.wall = instance.instant + ClockOffset(instance.instant)
        /\ instance.fold = 0
    BY <1>3
  <2> HIDE DEF wall, instance
  <2>2. /\ FirstInstant(wall) = Resolved(wall)
        /\ Skipping(wall) = {} => FirstInstant(wall) + ClockOffset(FirstInstant(wall)) = wall
        /\ Skipping(wall) # {} => FirstInstant(wall) + ClockOffset(FirstInstant(wall)) > wall
    BY <1>1, <2>1, ResolvedIs
  <2>3. ASSUME NEW j \in 1..(i - 1), Skipping(task.walls[j]) = {}
        PROVE  task.out[j].instant < instance.instant
    <3>1. j \in DOMAIN task.out /\ j < i
      BY <1>2
    <3>2. /\ task.walls[j] \in Int /\ j \in DOMAIN task.walls
          /\ task.out[j].instant = FirstInstant(task.walls[j])
      BY <3>1, <1>3
    <3>3. task.walls[j] < wall
      BY <1>1, <2>1, <3>1, <3>2 DEF wall
    <3>4. FirstInstant(task.walls[j]) < FirstInstant(wall)
      BY <1>1, <2>1, <2>3, <3>2, <3>3, LaterInstant
    <3> QED BY <2>1, <3>2, <3>4
  <2> QED BY <2>1, <2>2, <2>3 DEF wall, instance
<1> QED BY <1>4 DEF InstancesResolved

LEMMA UntilIsAnInstant ==
  ASSUME ZoneInv, TaskInv
  PROVE  UntilIsInstant
<1> SUFFICES ASSUME Done, task.until # NoUntil, NEW i \in DOMAIN task.walls
             PROVE  LET kept == i <= Len(task.out)
                        inTime == Resolved(task.walls[i]) <= task.until
                        repeated == \E u \in Instants(task.until + ClockOffset(task.until)) :
                                      u < task.until
                    IN  /\ kept => inTime \/ Skipping(task.walls[i]) # {}
                        /\ inTime => kept \/ repeated
  BY DEF UntilIsInstant
<1>1. PICK w, u : w = task.walls[i] /\ u = task.until
  OBVIOUS
<1>2. zone \in Zones /\ w \in Int /\ u \in Int
  BY <1>1, TaskType DEF ZoneInv, TaskInv
<1>3. PICK shown : shown = u + ClockOffset(u)
  OBVIOUS
<1>4. Full[zone] # <<>> /\ (w <= shown <=> i <= Len(task.out))
  <2>1. task.step = "next" /\ task.left = <<>>
    BY DEF Done
  <2>2. Full[zone] # <<>> /\ (w <= shown <=> i <= Len(task.out) + Len(task.left))
    BY <1>1, <1>3, <2>1 DEF TaskInv, LeftUntil
  <2>3. Len(task.out) + Len(task.left) = Len(task.out)
    <3>1. task.out \in Seq([instant : Int, wall : Int, fold : {0, 1}])
      BY TaskType DEF TaskInv
    <3>2. Len(task.out) \in Nat /\ Len(task.left) = 0
      BY <2>1, <3>1
    <3> QED BY <3>2
  <2> QED BY <2>2, <2>3
<1>5. shown \in Int /\ u \in Instants(shown) /\ Instants(shown) \subseteq Int
  <2>1. ClockOffset(u) \in Int
    BY <1>2, <1>4, InstantsAre
  <2>2. shown \in Int
    BY <1>2, <1>3, <2>1
  <2> QED BY <1>2, <1>3, <1>4, <2>2, InstantsAre
<1>6. Skipping(shown) = {}
  BY <1>2, <1>4, <1>5, SkippedNotShown
<1>7. /\ FirstInstant(shown) \in Int /\ FirstInstant(shown) \in Instants(shown)
      /\ FirstInstant(shown) <= u
  BY <1>2, <1>4, <1>5, <1>6, ResolvedIs
<1>8. FirstInstant(w) \in Int /\ FirstInstant(w) = Resolved(w)
  BY <1>2, <1>4, ResolvedIs
<1>9. ASSUME w <= shown, Skipping(w) = {}  PROVE Resolved(w) <= u
  <2>1. CASE w = shown
    BY <1>7, <1>8, <2>1
  <2>2. CASE w < shown
    <3>1. FirstInstant(w) < FirstInstant(shown)
      BY <1>2, <1>4, <1>5, <1>9, <2>2, LaterInstant
    <3> QED BY <1>2, <1>7, <1>8, <3>1
  <2> QED BY <1>2, <1>5, <1>9, <2>1, <2>2
<1>10. ASSUME Resolved(w) <= u, ~(w <= shown)
       PROVE  \E v \in Instants(shown) : v < u
  <2>1. FirstInstant(shown) < FirstInstant(w)
    BY <1>2, <1>4, <1>5, <1>6, <1>10, LaterInstant
  <2>2. FirstInstant(shown) < u
    BY <1>2, <1>7, <1>8, <1>10, <2>1
  <2> QED BY <1>7, <2>2
<1> QED BY <1>1, <1>3, <1>4, <1>9, <1>10

\* __init__.py: an expansion's instances are the instants that the rule's wall
\* times stand for, shown as the zone's clock shows them, however much of the
\* transition table was built before it began or while it goes on.
THEOREM ExpansionsResolve ==
  ExpSpec => []InstancesResolved
<1>1. ExpInit => ZoneInv /\ TaskInv
  BY TaskInvInit
<1>2. ZoneInv /\ TaskInv /\ [ExpNext]_<<vars, task>> => ZoneInv' /\ TaskInv'
  BY TaskInvNext
<1>3. ZoneInv /\ TaskInv => InstancesResolved
  BY InstancesAreResolved
<1> QED BY <1>1, <1>2, <1>3, PTL DEF ExpSpec

\* __init__.py: and they are those up to UNTIL as an instant, but for the two
\* exceptions of a repeated and of a skipped hour.
THEOREM UntilHolds ==
  ExpSpec => []UntilIsInstant
<1>1. ExpInit => ZoneInv /\ TaskInv
  BY TaskInvInit
<1>2. ZoneInv /\ TaskInv /\ [ExpNext]_<<vars, task>> => ZoneInv' /\ TaskInv'
  BY TaskInvNext
<1>3. ZoneInv /\ TaskInv => UntilIsInstant
  BY UntilIsAnInstant
<1> QED BY <1>1, <1>2, <1>3, PTL DEF ExpSpec

-----------------------------------------------------------------------------
(* A zone's clock, asked tick by tick. *)

\* The clock shows something else than a tick before.
Moves(u) == Probe(u) # Probe(u - 1)
HasClock == zone \in Zones /\ Full[zone] # <<>>

LEMMA Probed ==
  ASSUME HasClock, NEW u \in Int
  PROVE  /\ Probe(u).offset = ClockOffset(u)
         /\ Probe(u).offset \in Int /\ Probe(u).offset \in Offsets(zone)
<1>1. Probe(u).offset = ClockOffset(u)
  BY DEF Probe, ClockOffset
<1>2. WellMade(zone, Full[zone])
  BY FullIs DEF HasClock
<1> QED BY SMTT(30), <1>1, <1>2, Steps, CountedUtc DEF HasClock, ClockOffset

\* Its changes are at least a step apart.
LEMMA Apart ==
  ASSUME HasClock, NEW j \in 1..Len(Full[zone]), NEW k \in 1..Len(Full[zone]), j < k
  PROVE  Full[zone][j].utc + ProbeStep <= Full[zone][k].utc
<1>1. WellMade(zone, Full[zone])
  BY FullIs DEF HasClock
<1>2. j \in DOMAIN Full[zone] /\ k \in DOMAIN Full[zone]
  BY <1>1 DEF WellMade
<1>3. Full[zone][j].utc \in Int /\ Full[zone][k].utc \in Int
  BY <1>1, <1>2 DEF WellMade
<1>4. Full[zone][k].utc - Full[zone][j].utc >= ProbeStep /\ ProbeStep \in Nat
  BY <1>2, ProbeAssumption, Zenon DEF HasClock
<1> QED BY <1>3, <1>4

\* How many have happened at one, and a tick before it.
LEMMA CountedAt ==
  ASSUME HasClock, NEW k \in 1..Len(Full[zone]), NEW u \in Int, u = Full[zone][k].utc
  PROVE  /\ UtcCount(Full[zone], u) = k /\ UtcCount(Full[zone], u - 1) = k - 1
         /\ Full[zone][k].after = Probe(u).offset
         /\ Full[zone][k].before = Probe(u - 1).offset
<1> DEFINE F == Full[zone]
<1>1. WellMade(zone, F) /\ F # <<>> /\ zone \in Zones
  BY FullIs DEF HasClock
<1>2. /\ Len(F) \in Nat /\ \A j \in 1..Len(F) : F[j].utc \in Int
      /\ k \in 1..Len(F) /\ k \in Int
  BY <1>1 DEF WellMade
<1>3. \A j \in 1..Len(F) : (F[j].utc <= u <=> j <= k) /\ (F[j].utc <= u - 1 <=> j <= k - 1)
  <2>1. ASSUME NEW j \in 1..Len(F)
        PROVE  (F[j].utc <= u <=> j <= k) /\ (F[j].utc <= u - 1 <=> j <= k - 1)
    <3>1. (j < k => F[j].utc + ProbeStep <= u) /\ (k < j => u + ProbeStep <= F[j].utc)
      BY Apart
    <3>2. ProbeStep \in Nat /\ ProbeStep >= 1
      BY ProbeAssumption
    <3>3. j = k => F[j].utc = u
      OBVIOUS
    <3>4. F[j].utc \in Int /\ j \in Int /\ k \in Int
      BY <1>2, <2>1
    <3> HIDE DEF F
    <3> DEFINE a == F[j].utc
    <3>5. a \in Int /\ j \in Int /\ k \in Int /\ (j < k => a + ProbeStep <= u)
          /\ (k < j => u + ProbeStep <= a) /\ (j = k => a = u)
      BY <3>1, <3>3, <3>4
    <3> HIDE DEF a
    <3> DEFINE Placed == (a <= u <=> j <= k) /\ (a <= u - 1 <=> j <= k - 1)
    <3>6. j < k => Placed
      BY <3>2, <3>5
    <3>7. j = k => Placed
      BY <3>5
    <3>8. k < j => Placed
      BY SMTT(30), <3>2, <3>5
    <3>9. Placed
      BY <3>5, <3>6, <3>7, <3>8
    <3> QED BY <3>9 DEF a
  <2> QED BY <2>1
<1> DEFINE n == UtcCount(F, u)
           m == UtcCount(F, u - 1)
<1>4. n \in 0..Len(F) /\ \A j \in 1..Len(F) : F[j].utc <= u <=> j <= n
  BY <1>1, CountedUtc
<1>5. m \in 0..Len(F) /\ \A j \in 1..Len(F) : F[j].utc <= u - 1 <=> j <= m
  <2>1. u - 1 \in Int
    OBVIOUS
  <2> QED BY <1>1, <2>1, CountedUtc
<1>6. F[k].before = OffsetAfter(F, k - 1) /\ F[k].after = OffsetAfter(F, k)
  BY <1>1, Steps
<1>7. Probe(u).offset = OffsetAfter(F, n) /\ Probe(u - 1).offset = OffsetAfter(F, m)
  BY DEF Probe
<1> HIDE DEF F, n, m
<1>8. n = k
  <2>1. k <= n
    BY <1>2, <1>3, <1>4
  <2>2. n \in 1..Len(F) => n <= k
    BY <1>3, <1>4
  <2> QED BY <1>4, <1>2, <2>1, <2>2
<1>9. m = k - 1
  <2>1. k - 1 \in 1..Len(F) => k - 1 <= m
    <3>1. k - 1 \in 1..Len(F) => F[k - 1].utc <= u - 1
      BY <1>3
    <3> QED BY <3>1, <1>5
  <2>2. m \in 1..Len(F) => m <= k - 1
    BY <1>3, <1>5
  <2> QED BY <1>5, <1>2, <2>1, <2>2
<1> QED BY <1>6, <1>7, <1>8, <1>9 DEF F, n, m

LEMMA MoveIsChange ==
  ASSUME HasClock, NEW u \in Int, Moves(u)
  PROVE  \E k \in 1..Len(Full[zone]) : Full[zone][k].utc = u
<1> DEFINE F == Full[zone]
<1>1. WellMade(zone, F)
  BY FullIs DEF HasClock
<1> HIDE DEF F
<1>2. DOMAIN F = 1..Len(F) /\ \A k \in DOMAIN F : F[k].utc \in Int
  BY <1>1 DEF WellMade
<1>3. SUFFICES ASSUME \A k \in DOMAIN F : F[k].utc # u  PROVE FALSE
  BY <1>2 DEF F
<1>4. {k \in DOMAIN F : F[k].utc <= u} = {k \in DOMAIN F : F[k].utc <= u - 1}
  BY <1>2, <1>3
<1>5. UtcCount(F, u) = UtcCount(F, u - 1)
  BY <1>4 DEF UtcCount
<1> QED BY <1>5 DEF F, Moves, Probe

LEMMA MovesApart ==
  ASSUME HasClock, NEW u \in Int, NEW v \in Int, Moves(u), Moves(v), u < v
  PROVE  u + ProbeStep <= v
<1>1. PICK j \in 1..Len(Full[zone]) : Full[zone][j].utc = u
  BY MoveIsChange
<1>2. PICK k \in 1..Len(Full[zone]) : Full[zone][k].utc = v
  BY MoveIsChange
<1>3. Len(Full[zone]) \in Nat
  BY FullIs DEF WellMade, HasClock
<1>4. ProbeStep \in Nat
  BY ProbeAssumption
<1>5. ~(k < j) /\ j # k
  BY SMTT(30), <1>1, <1>2, <1>3, <1>4, Apart
<1>6. j < k
  BY <1>3, <1>5
<1> QED BY <1>1, <1>2, <1>6, Apart

\* Where nothing moves, the clock shows the same.
Still(a, b) == \A v \in Int : a < v /\ v <= b => ~Moves(v)

LEMMA StaysSame ==
  ASSUME NEW a \in Int, NEW b \in Int, Still(a, b), NEW v \in Int, a <= v, v <= b
  PROVE  Probe(v) = Probe(a)
<1> DEFINE Bad == {d \in Nat : a + d <= b /\ Probe(a + d) # Probe(a)}
<1>1. Bad = {}
  <2>1. SUFFICES ASSUME Bad # {} PROVE FALSE
    OBVIOUS
  <2>2. PICK d \in Bad : \A e \in Bad : d <= e
    <3>1. Bad \in SUBSET Nat
      OBVIOUS
    <3> HIDE DEF Bad
    <3> QED BY <2>1, <3>1, Least
  <2>3. d # 0
    <3>1. a + 0 = a
      OBVIOUS
    <3> QED BY <2>2, <3>1
  <2>4. d - 1 \in Nat /\ a + (d - 1) <= b /\ ~(d <= d - 1) /\ a + (d - 1) = (a + d) - 1
    BY <2>2, <2>3
  <2>5. Probe((a + d) - 1) = Probe(a)
    BY <2>2, <2>4
  <2>6. Moves(a + d)
    BY <2>2, <2>5 DEF Moves
  <2>7. a + d \in Int /\ a < a + d /\ a + d <= b
    BY <2>2, <2>3
  <2> QED BY <2>6, <2>7 DEF Still
<1>2. v - a \in Nat /\ a + (v - a) = v
  OBVIOUS
<1>3. v - a \notin Bad
  BY <1>1
<1> HIDE DEF Bad
<1>4. ~(a + (v - a) <= b /\ Probe(a + (v - a)) # Probe(a))
  BY <1>2, <1>3 DEF Bad
<1> QED BY <1>2, <1>4

\* Halving a step in which the clock moves once finds where.
OnceIn(lo, hi, m) ==
  /\ lo \in Int /\ hi \in Int /\ m \in Int /\ lo < m /\ m <= hi
  /\ \A v \in Int : lo <= v /\ v < m => Probe(v) = Probe(lo)
  /\ \A v \in Int : m <= v /\ v <= hi => Probe(v) # Probe(lo)

LEMMA Halves ==
  ASSUME NEW d \in Int, d > 1
  PROVE  d \div 2 \in Int /\ d \div 2 >= 1 /\ d \div 2 < d
OBVIOUS

LEMMA HalvedOnce ==
  ASSUME NEW lo, NEW hi, NEW m, OnceIn(lo, hi, m),
         NEW step \in [lo : Int, hi : Int],
         lo <= step.lo, step.lo < m, m <= step.hi, step.hi <= hi
  PROVE  /\ Halved(lo, step) \in [lo : Int, hi : Int]
         /\ lo <= Halved(lo, step).lo /\ Halved(lo, step).lo < m
         /\ m <= Halved(lo, step).hi /\ Halved(lo, step).hi <= hi
         /\ Halved(lo, step).hi - Halved(lo, step).lo < step.hi - step.lo \/ step.hi - step.lo = 1
         /\ step.hi - step.lo = 1 => Halved(lo, step) = step
<1> DEFINE mid == step.lo + (step.hi - step.lo) \div 2
<1>1. step.lo \in Int /\ step.hi \in Int /\ lo \in Int /\ hi \in Int /\ m \in Int
  BY DEF OnceIn
<1>2. step.hi - step.lo >= 1
  BY <1>1
<1>3. CASE step.hi - step.lo <= 1
  <2>1. Halved(lo, step) = step
    BY <1>3 DEF Halved
  <2> QED BY <1>1, <1>2, <1>3, <2>1
<1>4. CASE ~(step.hi - step.lo <= 1)
  <2>1. mid \in Int /\ step.lo < mid /\ mid < step.hi
    <3>1. PICK d \in Int : d = step.hi - step.lo
      BY <1>1
    <3>2. d > 1
      BY <1>1, <1>4, <3>1
    <3>3. d \div 2 \in Int /\ d \div 2 >= 1 /\ d \div 2 < d
      BY <3>2, Halves
    <3>4. PICK e \in Int : e = d \div 2
      BY <3>3
    <3>5. mid = step.lo + e
      BY <3>1, <3>4
    <3> HIDE DEF mid
    <3> QED BY <1>1, <3>1, <3>3, <3>4, <3>5
  <2>2. Halved(lo, step) = IF Probe(mid) = Probe(lo) THEN [step EXCEPT !.lo = mid]
                                                     ELSE [step EXCEPT !.hi = mid]
    BY <1>4 DEF Halved
  <2> HIDE DEF mid
  <2>3. CASE Probe(mid) = Probe(lo)
    <3>1. mid < m
      BY <2>1, <2>3, <1>1 DEF OnceIn
    <3>2. Halved(lo, step) = [lo |-> mid, hi |-> step.hi]
      BY <2>2, <2>3
    <3> QED BY <1>1, <2>1, <3>1, <3>2, <1>4
  <2>4. CASE Probe(mid) # Probe(lo)
    <3>1. m <= mid
      BY <2>1, <2>4, <1>1 DEF OnceIn
    <3>2. Halved(lo, step) = [lo |-> step.lo, hi |-> mid]
      BY <2>2, <2>4
    <3> QED BY <1>1, <2>1, <3>1, <3>2, <1>4
  <2> QED BY <2>3, <2>4
<1> QED BY <1>3, <1>4

LEMMA RefinedIs ==
  ASSUME NEW lo, NEW hi, NEW m, OnceIn(lo, hi, m)
  PROVE  Refined(lo, hi) = m
<1>1. PICK n \in Nat : n = hi - lo
  BY DEF OnceIn
<1> DEFINE T == [lo : Int, hi : Int]
           a == [lo |-> lo, hi |-> hi]
           G == [p \in (1..n) \X T |-> IF Halved(lo, p[2]) \in T THEN Halved(lo, p[2]) ELSE a]
<1>2. a \in T /\ lo \in Int /\ hi \in Int /\ m \in Int /\ lo < m /\ m <= hi
  BY DEF OnceIn
<1>3. G \in StepRules(n, T)
  BY <1>2 DEF StepRules
<1>4. PICK f : IsWalk(f, n, T, a, G)
  <2> HIDE DEF T, a, G
  <2> QED BY <1>2, <1>3, StepByStep
<1>5. f \in [0..n -> T] /\ f[0] = a /\ \A k \in 1..n : f[k] = G[<<k, f[k - 1]>>]
  BY <1>4 DEF IsWalk
<1> DEFINE Good(k) == /\ lo <= f[k].lo /\ f[k].lo < m /\ m <= f[k].hi /\ f[k].hi <= hi
                      /\ f[k].hi - f[k].lo <= n - k \/ f[k].hi - f[k].lo = 1
<1>6. \A k \in 1..n : Good(k - 1) => Good(k) /\ f[k] = Halved(lo, f[k - 1])
  <2> SUFFICES ASSUME NEW k \in 1..n, Good(k - 1)
               PROVE  Good(k) /\ f[k] = Halved(lo, f[k - 1])
    OBVIOUS
  <2>1. k - 1 \in 0..n /\ k \in 0..n
    OBVIOUS
  <2>2. PICK s \in T : s = f[k - 1]
    BY <1>5, <2>1
  <2>3. /\ lo <= s.lo /\ s.lo < m /\ m <= s.hi /\ s.hi <= hi
        /\ s.hi - s.lo <= n - (k - 1) \/ s.hi - s.lo = 1
    BY <2>2
  <2>4. PICK h : h = Halved(lo, s)
    OBVIOUS
  <2>5. /\ h \in T /\ lo <= h.lo /\ h.lo < m /\ m <= h.hi /\ h.hi <= hi
        /\ h.hi - h.lo < s.hi - s.lo \/ s.hi - s.lo = 1
        /\ s.hi - s.lo = 1 => h = s
    BY <2>3, <2>4, HalvedOnce
  <2>6. <<k, s>> \in (1..n) \X T /\ f[k] = G[<<k, s>>]
    BY <1>5, <2>2
  <2>7. f[k] = h
    BY <2>4, <2>5, <2>6
  <2>8. h.lo \in Int /\ h.hi \in Int /\ s.lo \in Int /\ s.hi \in Int
    BY <2>5
  <2>9. h.hi - h.lo <= n - k \/ h.hi - h.lo = 1
    BY <2>3, <2>5, <2>8
  <2> QED BY <2>2, <2>4, <2>5, <2>7, <2>9
<1>7. Good(0)
  BY <1>1, <1>2, <1>5
<1> DEFINE Bad == {k \in 0..n : ~Good(k)}
<1>8. \A k \in 0..n : Good(k)
  <2>1. SUFFICES ASSUME Bad # {} PROVE FALSE
    OBVIOUS
  <2>2. PICK k \in Bad : \A j \in Bad : k <= j
    <3>1. Bad \in SUBSET Nat
      OBVIOUS
    <3> HIDE DEF Bad
    <3> QED BY <2>1, <3>1, Least
  <2> HIDE DEF Good
  <2>3. k \in 0..n /\ ~Good(k) /\ k # 0
    BY <2>2, <1>7
  <2>4. k \in 1..n /\ k - 1 \in 0..n /\ ~(k <= k - 1)
    BY <2>3
  <2>5. k - 1 \notin Bad
    BY <2>2, <2>4
  <2> QED BY <2>3, <2>4, <2>5, <1>6
<1>9. f = [k \in 0..n |-> IF k = 0 THEN [lo |-> lo, hi |-> hi] ELSE Halved(lo, f[k - 1])]
  <2>1. \A k \in 0..n : f[k] = IF k = 0 THEN a ELSE Halved(lo, f[k - 1])
    <3> SUFFICES ASSUME NEW k \in 0..n PROVE f[k] = IF k = 0 THEN a ELSE Halved(lo, f[k - 1])
      OBVIOUS
    <3> HIDE DEF Good, a, G
    <3>1. CASE k = 0
      BY <1>5, <3>1
    <3>2. CASE k # 0
      <4>1. k \in 1..n /\ k - 1 \in 0..n
        BY <3>2
      <4> QED BY <1>6, <1>8, <4>1, <3>2
    <3> QED BY <3>1, <3>2
  <2> HIDE DEF G, Good
  <2> QED BY <1>5, <2>1
<1> DEFINE Is(g) == g = [k \in 0..(hi - lo) |-> IF k = 0 THEN [lo |-> lo, hi |-> hi]
                                                       ELSE Halved(lo, g[k - 1])]
           halving == CHOOSE g : Is(g)
<1>10. Is(halving)
  <2>1. Is(f)
    BY <1>1, <1>9
  <2> QED BY <2>1
<1>11. \A k \in 0..n : halving[k] = f[k]
  <2>1. \A k \in 0..n : halving[k] = IF k = 0 THEN a ELSE Halved(lo, halving[k - 1])
    <3> HIDE DEF halving
    <3> QED BY <1>10, <1>1
  <2>2. \A k \in 0..n : f[k] = IF k = 0 THEN a ELSE Halved(lo, f[k - 1])
    <3> HIDE DEF Good, G, halving
    <3>1. PICK g : g = f
      OBVIOUS
    <3>2. g = [k \in 0..n |-> IF k = 0 THEN [lo |-> lo, hi |-> hi] ELSE Halved(lo, g[k - 1])]
      BY <1>9, <3>1
    <3> QED BY <3>1, <3>2
  <2> HIDE DEF halving, Good, G, a, T, Is
  <2>3. halving[0] = f[0]
    BY <2>1, <2>2
  <2>4. \A k \in 1..n : halving[k - 1] = f[k - 1] => halving[k] = f[k]
    <3> SUFFICES ASSUME NEW k \in 1..n, halving[k - 1] = f[k - 1] PROVE halving[k] = f[k]
      OBVIOUS
    <3>1. k \in 0..n /\ k # 0
      OBVIOUS
    <3> QED BY <2>1, <2>2, <3>1
  <2>5. InParallel(halving, f, n)
    BY <2>3, <2>4 DEF InParallel
  <2> QED BY <2>5, SameSteps
<1>12. Refined(lo, hi) = halving[n].hi
  BY <1>1 DEF Refined
<1>13. Good(n) /\ f[n] \in T /\ n \in 0..n
  BY <1>5, <1>8
<1>14. f[n].hi = m
  <2>1. f[n].hi \in Int /\ f[n].lo \in Int
    BY <1>13
  <2> QED BY <1>2, <1>13, <2>1
<1> HIDE DEF halving, Good, G, a, T, Is
<1> QED BY <1>11, <1>12, <1>13, <1>14

\* A change of the state, as _transitions gives it.
ChangeAt(u) == [at |-> u, before |-> Probe(u - 1), after |-> Probe(u)]
MovesIn(start, end) == {u \in (start + 1)..end : Moves(u)}

\* Within a step the clock moves once, if what it shows is not the same.
LEMMA StepHas ==
  ASSUME HasClock, NEW a \in Int, NEW b \in Int, a < b, b <= a + ProbeStep
  PROVE  /\ \A m \in MovesIn(a, b) :
              /\ Probe(a) # Probe(b) /\ Refined(a, b) = m
              /\ Probe(m - 1) = Probe(a)
         /\ Probe(a) # Probe(b) => MovesIn(a, b) # {}
<1>1. ASSUME NEW m \in MovesIn(a, b)
      PROVE  Probe(a) # Probe(b) /\ Refined(a, b) = m /\ Probe(m - 1) = Probe(a)
  <2>1. m \in Int /\ a < m /\ m <= b /\ Moves(m)
    BY DEF MovesIn
  <2>2. ProbeStep \in Nat
    BY ProbeAssumption
  <2>3. ASSUME NEW v \in Int, a < v, v <= b, v # m PROVE ~Moves(v)
    <3>1. v < m => m - v < ProbeStep
      BY <2>1, <2>2, <2>3
    <3>2. m < v => v - m < ProbeStep
      BY <2>1, <2>2, <2>3
    <3>3. CASE v < m
      BY <2>1, <2>2, <3>1, <3>3, MovesApart
    <3>4. CASE m < v
      BY <2>1, <2>2, <3>2, <3>4, MovesApart
    <3> QED BY <2>1, <2>3, <3>3, <3>4
  <2>4. Still(a, m - 1) /\ Still(m, b)
    BY <2>1, <2>3 DEF Still
  <2>5. \A v \in Int : a <= v /\ v < m => Probe(v) = Probe(a)
    <3> SUFFICES ASSUME NEW v \in Int, a <= v, v < m PROVE Probe(v) = Probe(a)
      OBVIOUS
    <3>1. v <= m - 1 /\ m - 1 \in Int
      BY <2>1
    <3> QED BY <2>4, <3>1, StaysSame
  <2>6. Probe(m - 1) = Probe(a) /\ Probe(m) # Probe(a)
    <3>1. m - 1 \in Int /\ a <= m - 1 /\ m - 1 < m
      BY <2>1
    <3>2. Probe(m - 1) = Probe(a)
      BY <2>5, <3>1
    <3> QED BY <2>1, <3>2 DEF Moves
  <2>7. \A v \in Int : m <= v /\ v <= b => Probe(v) # Probe(a)
    <3> SUFFICES ASSUME NEW v \in Int, m <= v, v <= b PROVE Probe(v) # Probe(a)
      OBVIOUS
    <3>1. Probe(v) = Probe(m)
      BY <2>1, <2>4, StaysSame
    <3> QED BY <2>6, <3>1
  <2>8. OnceIn(a, b, m)
    BY <2>1, <2>5, <2>7 DEF OnceIn
  <2>9. Probe(b) # Probe(a)
    BY <2>1, <2>7
  <2> QED BY <2>6, <2>8, <2>9, RefinedIs
<1>2. ASSUME MovesIn(a, b) = {}  PROVE Probe(a) = Probe(b)
  <2>1. Still(a, b)
    BY <1>2 DEF Still, MovesIn
  <2> QED BY <2>1, StaysSame
<1> QED BY <1>1, <1>2

\* Each tick of a window is in one of the steps it is divided into.
StepsOf(start, end) == {at \in start..(end - 1) : (at - start) % ProbeStep = 0}
StepEnd(at, end) == Smaller(at + ProbeStep, end)

LEMMA DivideInto ==
  ASSUME NEW x \in Nat, NEW p \in Nat, p > 0
  PROVE  /\ x \div p \in Nat /\ p * (x \div p) \in Nat
         /\ p * (x \div p) <= x /\ x < p * (x \div p) + p
         /\ (p * (x \div p)) % p = 0
<1>1. x \div p \in Nat /\ x = p * (x \div p) + (x % p) /\ 0 <= x % p /\ x % p < p
  BY Z3
<1>2. PICK q \in Nat : q = x \div p
  BY <1>1
<1>3. p * q \in Nat
  BY Z3
<1>4. (p * q) % p = 0
  BY Z3
<1> QED BY <1>1, <1>2, <1>3, <1>4

LEMMA StepType ==
  ASSUME NEW start \in Int, NEW end \in Int, NEW at \in StepsOf(start, end)
  PROVE  /\ at \in Int /\ start <= at /\ StepEnd(at, end) \in Int
         /\ at < StepEnd(at, end) /\ StepEnd(at, end) <= end
         /\ StepEnd(at, end) <= at + ProbeStep
<1>1. at \in Int /\ start <= at /\ at < end /\ ProbeStep \in Int /\ ProbeStep > 0
  BY ProbeAssumption DEF StepsOf
<1> QED BY <1>1 DEF StepEnd, Smaller

LEMMA StepOf ==
  ASSUME NEW start \in Int, NEW end \in Int, NEW u \in (start + 1)..end
  PROVE  \E at \in StepsOf(start, end) : at < u /\ u <= StepEnd(at, end)
<1>1. PICK p \in Nat : p = ProbeStep /\ p > 0
  BY ProbeAssumption
<1>2. PICK x \in Nat : x = u - start - 1
  OBVIOUS
<1>3. PICK y \in Nat : y <= x /\ x < y + p /\ y % p = 0
  BY <1>1, DivideInto
<1>4. (start + y) - start = y /\ start + y \in start..(end - 1)
  BY <1>2, <1>3
<1>5. start + y \in StepsOf(start, end)
  BY <1>1, <1>3, <1>4 DEF StepsOf
<1>6. start + y < u /\ u <= StepEnd(start + y, end)
  BY <1>1, <1>2, <1>3 DEF StepEnd, Smaller
<1> QED BY <1>5, <1>6

\* So the changes found are those where the state is not as a tick before.
LEMMA ChangesAre ==
  ASSUME HasClock, NEW start \in Int, NEW end \in Int
  PROVE  Changes(start, end) = {ChangeAt(u) : u \in MovesIn(start, end)}
<1> DEFINE Seen == {s \in StepsOf(start, end) : Probe(s) # Probe(StepEnd(s, end))}
           Found(at) == [at |-> Refined(at, StepEnd(at, end)), before |-> Probe(at),
                         after |-> Probe(Refined(at, StepEnd(at, end)))]
<1>1. Changes(start, end) = {Found(at) : at \in Seen}
  BY DEF Changes, StepsOf, StepEnd
<1>2. ASSUME NEW at \in StepsOf(start, end), NEW m \in MovesIn(at, StepEnd(at, end))
      PROVE  m \in MovesIn(start, end) /\ at \in Seen /\ Found(at) = ChangeAt(m)
  <2>1. /\ at \in Int /\ start <= at /\ StepEnd(at, end) \in Int
        /\ at < StepEnd(at, end) /\ StepEnd(at, end) <= end
        /\ StepEnd(at, end) <= at + ProbeStep
    BY StepType
  <2>2. /\ Probe(at) # Probe(StepEnd(at, end)) /\ Refined(at, StepEnd(at, end)) = m
        /\ Probe(m - 1) = Probe(at)
    BY <2>1, StepHas
  <2>3. m \in MovesIn(start, end)
    BY <2>1 DEF MovesIn
  <2>4. Found(at) = ChangeAt(m)
    BY <2>2 DEF ChangeAt
  <2> QED BY <2>2, <2>3, <2>4
<1> HIDE DEF Found
<1>3. ASSUME NEW at \in Seen  PROVE \E m \in MovesIn(start, end) : Found(at) = ChangeAt(m)
  <2>1. /\ at \in Int /\ start <= at /\ StepEnd(at, end) \in Int
        /\ at < StepEnd(at, end) /\ StepEnd(at, end) <= end
        /\ StepEnd(at, end) <= at + ProbeStep
    BY StepType
  <2>2. MovesIn(at, StepEnd(at, end)) # {}
    BY <2>1, StepHas
  <2> QED BY <2>2, <1>2
<1>4. ASSUME NEW m \in MovesIn(start, end)  PROVE \E at \in Seen : Found(at) = ChangeAt(m)
  <2>1. m \in (start + 1)..end /\ Moves(m)
    BY DEF MovesIn
  <2>2. PICK at \in StepsOf(start, end) : at < m /\ m <= StepEnd(at, end)
    BY <2>1, StepOf
  <2>3. m \in MovesIn(at, StepEnd(at, end))
    BY <2>1, <2>2, StepType DEF MovesIn
  <2> QED BY <2>3, <1>2
<1> HIDE DEF Seen
<1> QED BY <1>1, <1>3, <1>4

-----------------------------------------------------------------------------
(* The observances that are written for a window. *)

Window(start, end) == HasClock /\ start \in Nat /\ end \in Nat /\ start <= end

SameKind(c, d) == <<c.before.offset, c.after>> = <<d.before.offset, d.after>>
KindOf(C, c) == {d \in C : SameKind(c, d)}
Kinds(C) == {KindOf(C, c) : c \in C}
KindRank(C, g) == Cardinality({h \in Kinds(C) : Earliest(h).at <= Earliest(g).at})
KindAt(C, k) == CHOOSE g \in Kinds(C) : KindRank(C, g) = k

LEMMA FromTzinfoIs ==
  ASSUME NEW start, NEW end, NEW C, C = Changes(start, end)
  PROVE  FromTzinfo(start, end) =
           IF C = {} THEN <<Fixed(start)>>
           ELSE [k \in 1..Cardinality(Kinds(C)) |-> Observance(KindAt(C, k))]
BY DEF FromTzinfo, KindAt, KindRank, Kinds, KindOf, SameKind

\* What is known of the changes of a window.
AreChanges(C) ==
  /\ IsFiniteSet(C)
  /\ \A c \in C : c.at \in Nat /\ c = ChangeAt(c.at)

LEMMA WindowChanges ==
  ASSUME NEW start, NEW end, Window(start, end)
  PROVE  /\ AreChanges(Changes(start, end))
         /\ \A c \in Changes(start, end) : c.at \in MovesIn(start, end)
         /\ \A u \in MovesIn(start, end) : ChangeAt(u) \in Changes(start, end)
         /\ Changes(start, end) = {} <=> MovesIn(start, end) = {}
<1> DEFINE M == MovesIn(start, end)
<1>0. HasClock /\ start \in Nat /\ end \in Nat
  BY DEF Window
<1>1. Changes(start, end) = {ChangeAt(u) : u \in M}
  BY <1>0, ChangesAre
<1>2. IsFiniteSet(M) /\ M \in SUBSET Nat
  <2>1. M \in SUBSET ((start + 1)..end)
    BY DEF MovesIn
  <2>2. IsFiniteSet((start + 1)..end) /\ (start + 1)..end \subseteq Nat
    BY <1>0, FS_Interval
  <2> HIDE DEF M
  <2> QED BY <2>1, <2>2, FS_Subset
<1> HIDE DEF M
<1>3. IsFiniteSet({ChangeAt(u) : u \in M})
  <2> DEFINE f == [u \in M |-> ChangeAt(u)]
  <2>1. IsFiniteSet({f[u] : u \in M})
    BY <1>2, FiniteImage
  <2>2. {f[u] : u \in M} = {ChangeAt(u) : u \in M}
    OBVIOUS
  <2> QED BY <2>1, <2>2
<1>4. \A u \in M : ChangeAt(u).at = u
  BY DEF ChangeAt
<1>5. ASSUME NEW c \in Changes(start, end)
      PROVE  c.at \in M /\ c.at \in Nat /\ c = ChangeAt(c.at)
  BY <1>1, <1>2, <1>4
<1>6. AreChanges(Changes(start, end))
  BY <1>1, <1>3, <1>5 DEF AreChanges
<1> QED BY <1>1, <1>5, <1>6 DEF M

LEMMA EarliestIs ==
  ASSUME NEW C, AreChanges(C), NEW g \in SUBSET C, g # {}
  PROVE  Earliest(g) \in g /\ \A d \in g : Earliest(g).at <= d.at
<1> DEFINE S == {c.at : c \in g}
<1>1. S \in SUBSET Nat /\ S # {}
  BY DEF AreChanges
<1>2. PICK m \in S : \A n \in S : m <= n
  BY <1>1, Least
<1>3. PICK c \in g : m = c.at
  OBVIOUS
<1>4. \A d \in g : c.at <= d.at
  BY <1>2, <1>3
<1> HIDE DEF S
<1> QED BY <1>4 DEF Earliest

LEMMA KindsAre ==
  ASSUME NEW C, AreChanges(C)
  PROVE  /\ \A g \in Kinds(C) : /\ g \in SUBSET C /\ Earliest(g) \in g
                                /\ \A c \in g : g = KindOf(C, c) /\ SameKind(c, Earliest(g))
         /\ \A c \in C : KindOf(C, c) \in Kinds(C) /\ c \in KindOf(C, c)
         /\ IsFiniteSet(Kinds(C))
<1>1. ASSUME NEW g \in Kinds(C)
      PROVE  /\ g \in SUBSET C /\ Earliest(g) \in g
             /\ \A c \in g : g = KindOf(C, c) /\ SameKind(c, Earliest(g))
  <2>1. PICK d \in C : g = KindOf(C, d)
    BY DEF Kinds
  <2>2. g \in SUBSET C /\ d \in g
    BY <2>1 DEF KindOf, SameKind
  <2>3. Earliest(g) \in g
    BY <2>2, EarliestIs
  <2>4. \A c, e \in g : SameKind(c, e)
    BY <2>1 DEF KindOf, SameKind
  <2>5. \A c \in g : g = KindOf(C, c)
    BY <2>1 DEF KindOf, SameKind
  <2> QED BY <2>2, <2>3, <2>4, <2>5
<1>2. \A c \in C : KindOf(C, c) \in Kinds(C) /\ c \in KindOf(C, c)
  BY DEF Kinds, KindOf, SameKind
<1>3. IsFiniteSet(Kinds(C))
  <2> DEFINE f == [c \in C |-> KindOf(C, c)]
  <2>1. IsFiniteSet({f[c] : c \in C})
    BY FiniteImage DEF AreChanges
  <2>2. {f[c] : c \in C} = Kinds(C)
    BY DEF Kinds
  <2> QED BY <2>1, <2>2
<1> QED BY <1>1, <1>2, <1>3

\* Kinds are ranked by when they first occur, each in a place of its own.
LEMMA KindsRanked ==
  ASSUME NEW C, AreChanges(C), C # {}
  PROVE  LET n == Cardinality(Kinds(C))
         IN  /\ n \in Nat /\ n > 0
             /\ \A k \in 1..n : KindAt(C, k) \in Kinds(C)
             /\ \A g \in Kinds(C) : \E k \in 1..n : KindAt(C, k) = g
             /\ \A j, k \in 1..n : KindAt(C, j) = KindAt(C, k) => j = k
<1> DEFINE K == Kinds(C)
           n == Cardinality(K)
           At(g) == Earliest(g).at
           Upto(g) == {h \in K : At(h) <= At(g)}
           f == [g \in K |-> KindRank(C, g)]
<1>1. IsFiniteSet(K) /\ n \in Nat /\ K # {}
  BY KindsAre, FS_CardinalityType
<1>2. n > 0
  BY <1>1, FS_EmptySet
<1>3. \A g \in K : At(g) \in Nat /\ g = KindOf(C, ChangeAt(At(g)))
  <2>1. ASSUME NEW g \in K PROVE At(g) \in Nat /\ g = KindOf(C, ChangeAt(At(g)))
    <3>1. Earliest(g) \in g /\ g \in SUBSET C
      BY KindsAre
    <3>2. At(g) \in Nat /\ Earliest(g) = ChangeAt(At(g)) /\ g = KindOf(C, Earliest(g))
      BY <3>1, KindsAre DEF AreChanges
    <3> QED BY <3>2
  <2> QED BY <2>1
<1>4. \A g \in K : KindRank(C, g) = Cardinality(Upto(g))
  BY DEF KindRank
<1> HIDE DEF K, n, At
<1>5. ASSUME NEW g \in K
      PROVE  /\ Upto(g) \in SUBSET K /\ IsFiniteSet(Upto(g))
             /\ KindRank(C, g) \in 1..n
  <2>1. Upto(g) \in SUBSET K /\ g \in Upto(g)
    BY <1>3
  <2>2. IsFiniteSet(Upto(g)) /\ Cardinality(Upto(g)) <= n
    BY <1>1, <2>1, FS_Subset DEF n
  <2>3. Cardinality(Upto(g)) \in Nat /\ Cardinality(Upto(g)) # 0
    BY <2>1, <2>2, FS_CardinalityType, FS_EmptySet
  <2> HIDE DEF Upto
  <2> QED BY <1>1, <1>4, <2>1, <2>2, <2>3
<1>6. ASSUME NEW g \in K, NEW h \in K, At(g) <= At(h), KindRank(C, g) = KindRank(C, h)
      PROVE  g = h
  <2>1. Upto(g) \in SUBSET Upto(h)
    BY <1>3, <1>6
  <2>2. Upto(g) = Upto(h)
    <3> HIDE DEF Upto
    <3> QED BY <1>4, <1>5, <1>6, <2>1, FS_Subset
  <2>3. At(h) <= At(g)
    BY <2>2, <1>3
  <2>4. At(h) = At(g)
    BY <2>3, <1>3, <1>6
  <2> QED BY <1>3, <2>4
<1>7. \A g, h \in K : KindRank(C, g) = KindRank(C, h) => g = h
  <2>1. \A g, h \in K : At(g) <= At(h) \/ At(h) <= At(g)
    BY <1>3
  <2> HIDE DEF Upto
  <2> QED BY <1>6, <2>1
<1>8. f \in Surjection(K, 1..n)
  <2> HIDE DEF Upto
  <2>1. f \in [K -> 1..n]
    BY <1>5
  <2>2. f \in Injection(K, 1..n)
    BY <1>7, <2>1 DEF Injection, IsInjective
  <2>3. IsFiniteSet(1..n) /\ Cardinality(1..n) = n
    BY <1>1, FS_Interval
  <2> HIDE DEF f
  <2> QED BY <1>1, <2>2, <2>3, FS_Injection DEF n
<1>9. ASSUME NEW k \in 1..n PROVE KindAt(C, k) \in K /\ KindRank(C, KindAt(C, k)) = k
  <2>1. \E g \in K : KindRank(C, g) = k
    BY <1>8 DEF Surjection
  <2> QED BY <2>1 DEF KindAt, K
<1>10. ASSUME NEW g \in K PROVE \E k \in 1..n : KindAt(C, k) = g
  <2>1. KindRank(C, g) \in 1..n
    BY <1>5
  <2> HIDE DEF Upto
  <2> QED BY <2>1, <1>7, <1>9
<1> HIDE DEF f, Upto
<1> QED BY <1>1, <1>2, <1>9, <1>10 DEF K, n

-----------------------------------------------------------------------------
(* What a table made of them has. *)

ReadYear(end) == Larger(FirstHorizon, Year(end) + 1) + Slack

LEMMA ReadYearType ==
  ASSUME NEW end \in Int
  PROVE  ReadYear(end) \in Int /\ Year(end) \in Int /\ Year(end) + 1 <= ReadYear(end)
<1>1. Year(end) \in Int /\ FirstHorizon \in Nat /\ Slack \in Nat
  BY YearUpTo, NumbersAssumption
<1> QED BY <1>1 DEF ReadYear, Larger

\* Onsets are early enough for the year that is read.
LEMMA OnsetRead ==
  ASSUME NEW start, NEW end, Window(start, end),
         NEW u \in Int, u <= end, NEW v \in Int
  PROVE  /\ u + Probe(v).offset \in Int /\ (u + Probe(v).offset) - Probe(v).offset = u
         /\ Year(u + Probe(v).offset) <= ReadYear(end)
<1>1. Probe(v).offset \in Int /\ Probe(v).offset \in Offsets(zone)
  BY Probed DEF Window
<1>2. Settled(zone, u, ReadYear(end))
  BY ReadYearType, NearbyUtc DEF Window, HasClock
<1> QED BY <1>1, <1>2 DEF Settled

\* An observance without a rule has its DTSTART and RDATEs.
LEMMA PlainOnsets ==
  ASSUME NEW obs, NEW y, obs.rule = {},
         \A o \in {obs.dtstart} \cup obs.rdates : Year(o) <= y
  PROVE  OnsetsThrough(obs, y) = {obs.dtstart} \cup obs.rdates
<1>1. \A n : FirstOf(n, {}) = {}
  BY DEF FirstOf
<1>2. {o \in Drawn(obs) : obs.unbounded => Year(o) <= y} = {}
  BY DEF Drawn
<1> QED BY <1>1, <1>2 DEF OnsetsThrough

\* The transitions are read off the events in order.
LEMMA EntriesOf ==
  ASSUME NEW z, NEW onsets, NEW S \in SUBSET Event, S = Events(z, onsets), IsFiniteSet(S)
  PROVE  /\ DOMAIN Transitions(z, onsets) = 1..Cardinality(S)
         /\ \A k \in 1..Cardinality(S) : Transitions(z, onsets)[k] = Entry(z, InOrder(S), k)
<1>1. DOMAIN InOrder(S) = 1..Cardinality(S)
  BY Sorted
<1>2. Transitions(z, onsets) = [k \in DOMAIN InOrder(S) |-> Entry(z, InOrder(S), k)]
  BY DEF Transitions, Entry
<1> QED BY <1>1, <1>2

\* Its events are the changes, each with what the clock shows before and after.
EventsOfMoves(z, S, M) ==
  /\ S \in SUBSET Event /\ IsFiniteSet(S)
  /\ \A e \in S : /\ e.utc \in M
                   /\ z[e.obs].from = Probe(e.utc - 1).offset
                   /\ z[e.obs].to = Probe(e.utc).offset
  /\ \A u \in M : \E e \in S : e.utc = u
  /\ \A e, f \in S : e.utc = f.utc => e = f

LEMMA ObservanceIs ==
  ASSUME NEW start, NEW end, Window(start, end),
         NEW C, C = Changes(start, end), NEW g \in Kinds(C)
  PROVE  /\ OnsetsThrough(Observance(g), ReadYear(end)) = {Onset(c) : c \in g}
         /\ \A c \in g : /\ c.at \in MovesIn(start, end) /\ c = ChangeAt(c.at)
                          /\ Observance(g).from = Probe(c.at - 1).offset
                          /\ Observance(g).to = Probe(c.at).offset
                          /\ Onset(c) - Observance(g).from = c.at
<1>1. AreChanges(C) /\ \A c \in C : c.at \in MovesIn(start, end)
  BY WindowChanges
<1>2. /\ g \in SUBSET C /\ Earliest(g) \in g
      /\ \A c \in g : g = KindOf(C, c) /\ SameKind(c, Earliest(g))
  BY <1>1, KindsAre
<1>3. ASSUME NEW c \in g
      PROVE  /\ c.at \in MovesIn(start, end) /\ c = ChangeAt(c.at)
             /\ Observance(g).from = Probe(c.at - 1).offset
             /\ Observance(g).to = Probe(c.at).offset
             /\ Onset(c) - Observance(g).from = c.at
             /\ Year(Onset(c)) <= ReadYear(end)
  <2>1. c \in C /\ c.at \in MovesIn(start, end) /\ c = ChangeAt(c.at)
    BY <1>1, <1>2 DEF AreChanges
  <2>2. c.before = Probe(c.at - 1) /\ c.after = Probe(c.at)
    BY <2>1 DEF ChangeAt
  <2>3. c.before.offset = Earliest(g).before.offset /\ c.after = Earliest(g).after
    BY <1>2 DEF SameKind
  <2>4. /\ Observance(g).from = Earliest(g).before.offset
        /\ Observance(g).to = Earliest(g).after.offset
    BY DEF Observance
  <2>5. c.at \in Int /\ c.at - 1 \in Int /\ c.at <= end
    BY <2>1 DEF MovesIn, Window
  <2>6. Onset(c) = c.at + Probe(c.at - 1).offset
    BY <2>2 DEF Onset
  <2>7. /\ Onset(c) - Probe(c.at - 1).offset = c.at
        /\ Year(Onset(c)) <= ReadYear(end)
    BY <2>5, <2>6, OnsetRead
  <2> QED BY <2>1, <2>2, <2>3, <2>4, <2>7
<1>4. /\ Observance(g).dtstart = Onset(Earliest(g)) /\ Observance(g).rule = {}
      /\ Observance(g).rdates = {Onset(c) : c \in g \ {Earliest(g)}}
  BY DEF Observance
<1>5. {Observance(g).dtstart} \cup Observance(g).rdates = {Onset(c) : c \in g}
  BY <1>2, <1>4
<1>6. \A o \in {Onset(c) : c \in g} : Year(o) <= ReadYear(end)
  BY <1>3
<1>7. OnsetsThrough(Observance(g), ReadYear(end)) = {Onset(c) : c \in g}
  <2>1. PICK obs : obs = Observance(g)
    OBVIOUS
  <2>2. obs.rule = {} /\ \A o \in {obs.dtstart} \cup obs.rdates : Year(o) <= ReadYear(end)
    BY <1>4, <1>5, <1>6, <2>1
  <2>3. OnsetsThrough(obs, ReadYear(end)) = {obs.dtstart} \cup obs.rdates
    BY <2>2, PlainOnsets
  <2> QED BY <1>5, <2>1, <2>3
<1> QED BY <1>3, <1>7

LEMMA EventsWritten ==
  ASSUME NEW start, NEW end, Window(start, end), Changes(start, end) # {},
         NEW z, z = FromTzinfo(start, end)
  PROVE  EventsOfMoves(z, Events(z, UpToYear(z, ReadYear(end))), MovesIn(start, end))
<1> DEFINE y == ReadYear(end)
           M == MovesIn(start, end)
           S == Events(z, UpToYear(z, y))
<1>1. PICK C : C = Changes(start, end)
  OBVIOUS
<1>2. AreChanges(C) /\ C # {}
  BY <1>1, WindowChanges
<1>3. PICK n \in Nat : n = Cardinality(Kinds(C))
  BY <1>2, KindsRanked
<1>4. /\ \A k \in 1..n : KindAt(C, k) \in Kinds(C)
      /\ \A g \in Kinds(C) : \E k \in 1..n : KindAt(C, k) = g
      /\ \A j, k \in 1..n : KindAt(C, j) = KindAt(C, k) => j = k
  BY <1>2, <1>3, KindsRanked
<1>5. z = [k \in 1..n |-> Observance(KindAt(C, k))]
  BY <1>1, <1>2, <1>3, FromTzinfoIs
<1>6. DOMAIN z = 1..n /\ \A k \in 1..n : z[k] = Observance(KindAt(C, k))
  BY <1>5
<1>7. ASSUME NEW k \in 1..n
      PROVE  /\ UpToYear(z, y)[k] = {Onset(c) : c \in KindAt(C, k)}
             /\ \A c \in KindAt(C, k) :
                  /\ c.at \in M /\ c = ChangeAt(c.at)
                  /\ z[k].from = Probe(c.at - 1).offset /\ z[k].to = Probe(c.at).offset
                  /\ Onset(c) - z[k].from = c.at
  <2>1. KindAt(C, k) \in Kinds(C) /\ z[k] = Observance(KindAt(C, k))
    BY <1>4, <1>6
  <2>2. UpToYear(z, y)[k] = OnsetsThrough(Observance(KindAt(C, k)), y)
    BY <1>6, <2>1 DEF UpToYear
  <2> QED BY <1>1, <2>1, <2>2, ObservanceIs
<1> DEFINE Ev(c, k) == [utc |-> c.at, obs |-> k]
<1>8. S = UNION {{[utc |-> w - z[k].from, obs |-> k] : w \in UpToYear(z, y)[k]} : k \in 1..n}
  BY <1>6 DEF Events
<1> HIDE DEF S, M, y
<1>9. ASSUME NEW e \in S  PROVE \E k \in 1..n : \E c \in KindAt(C, k) : e = Ev(c, k)
  <2>1. PICK k \in 1..n : \E w \in UpToYear(z, y)[k] : e = [utc |-> w - z[k].from, obs |-> k]
    BY <1>8
  <2>2. PICK w \in UpToYear(z, y)[k] : e = [utc |-> w - z[k].from, obs |-> k]
    BY <2>1
  <2>3. PICK c \in KindAt(C, k) : w = Onset(c)
    BY <2>2, <1>7
  <2>4. e = Ev(c, k)
    BY <2>2, <2>3, <1>7
  <2> QED BY <2>4
<1>10. ASSUME NEW k \in 1..n, NEW c \in KindAt(C, k)  PROVE Ev(c, k) \in S
  <2>1. Onset(c) \in UpToYear(z, y)[k] /\ Onset(c) - z[k].from = c.at
    BY <1>7
  <2>2. [utc |-> Onset(c) - z[k].from, obs |-> k] \in S
    BY <1>8, <2>1
  <2> QED BY <2>1, <2>2
<1>11. \A u \in M : u \in Int
  BY DEF M, MovesIn, Window
<1>12. ASSUME NEW e \in S
       PROVE  /\ e \in Event /\ e.utc \in M /\ e.obs \in 1..n
              /\ ChangeAt(e.utc) \in KindAt(C, e.obs)
              /\ z[e.obs].from = Probe(e.utc - 1).offset
              /\ z[e.obs].to = Probe(e.utc).offset
              /\ e = [utc |-> e.utc, obs |-> e.obs]
  <2>1. PICK k \in 1..n : \E c \in KindAt(C, k) : e = Ev(c, k)
    BY <1>9
  <2>2. PICK c \in KindAt(C, k) : e = Ev(c, k)
    BY <2>1
  <2>3. e.utc = c.at /\ e.obs = k /\ c.at \in M /\ c = ChangeAt(c.at)
    BY <2>2, <1>7
  <2>4. z[k].from = Probe(c.at - 1).offset /\ z[k].to = Probe(c.at).offset
    BY <1>7
  <2>5. e \in Event
    BY <2>2, <2>3, <1>11 DEF Event
  <2> QED BY <2>2, <2>3, <2>4, <2>5
<1>13. ASSUME NEW e \in S, NEW f \in S, e.utc = f.utc  PROVE e = f
  <2>1. /\ ChangeAt(e.utc) \in KindAt(C, e.obs) /\ ChangeAt(e.utc) \in KindAt(C, f.obs)
        /\ e.obs \in 1..n /\ f.obs \in 1..n
    BY <1>12, <1>13
  <2>2. KindAt(C, e.obs) = KindOf(C, ChangeAt(e.utc)) /\ KindAt(C, f.obs) = KindOf(C, ChangeAt(e.utc))
    BY <2>1, <1>2, <1>4, KindsAre
  <2>3. e.obs = f.obs
    BY <2>1, <2>2, <1>4
  <2> QED BY <2>3, <1>12, <1>13
<1>14. ASSUME NEW u \in M  PROVE \E e \in S : e.utc = u
  <2>1. ChangeAt(u) \in C
    BY <1>1, WindowChanges DEF M
  <2>2. KindOf(C, ChangeAt(u)) \in Kinds(C) /\ ChangeAt(u) \in KindOf(C, ChangeAt(u))
    BY <2>1, <1>2, KindsAre
  <2>3. PICK k \in 1..n : KindAt(C, k) = KindOf(C, ChangeAt(u))
    BY <2>2, <1>4
  <2>4. Ev(ChangeAt(u), k) \in S
    BY <2>2, <2>3, <1>10
  <2>5. Ev(ChangeAt(u), k).utc = u
    BY DEF ChangeAt
  <2> QED BY <2>4, <2>5
<1>15. IsFiniteSet(S)
  <2>0. PICK f : f = [u \in M |-> CHOOSE e \in S : e.utc = u]
    OBVIOUS
  <2>1. IsFiniteSet(M)
    <3>1. M \in SUBSET ((start + 1)..end)
      BY DEF M, MovesIn
    <3>2. IsFiniteSet((start + 1)..end)
      BY FS_Interval DEF Window
    <3> QED BY <3>1, <3>2, FS_Subset
  <2>2. \A e \in S : e.utc \in M /\ f[e.utc] = e
    BY <2>0, <1>12, <1>13
  <2>3. \A u \in M : f[u] \in S
    BY <2>0, <1>14
  <2>4. {f[u] : u \in M} = S
    BY <2>2, <2>3
  <2>5. IsFiniteSet({f[u] : u \in M})
    <3>1. DOMAIN f = M
      BY <2>0
    <3> QED BY <2>1, <3>1, FiniteImage
  <2> QED BY <2>4, <2>5
<1> HIDE DEF Ev
<1>16. EventsOfMoves(z, S, M)
  BY <1>12, <1>13, <1>14, <1>15 DEF EventsOfMoves
<1> QED BY <1>16 DEF S, M, y

\* The table that is read: from what the clock shows at the start, each
\* transition leads on to what it shows then, and all that it shows is there.
Describes(t, n, start, end) ==
  /\ n \in Nat /\ n > 0 /\ DOMAIN t = 1..n
  /\ \A k \in 1..n : /\ t[k].utc \in Int /\ start <= t[k].utc /\ t[k].utc <= end
                     /\ t[k].after = Probe(t[k].utc).offset
  /\ t[1].before = Probe(start).offset
  /\ \A k \in 1..n : k > 1 => t[k].before = t[k - 1].after
  /\ \A j, k \in 1..n : j < k => t[j].utc < t[k].utc
  /\ \A u \in MovesIn(start, end) : \E k \in 1..n : t[k].utc = u
  /\ \A k \in 1..n : t[k].utc \in MovesIn(start, end) \/ (n = 1 /\ t[k].after = t[k].before)

NoMoveIn(start, end, a, b) == \A u \in MovesIn(start, end) : ~(a < u /\ u <= b)

LEMMA StillUntil ==
  ASSUME NEW start \in Int, NEW end \in Int, NEW a \in Int, NEW b \in Int,
         start <= a, a <= b, b <= end, NoMoveIn(start, end, a, b)
  PROVE  Probe(b) = Probe(a)
<1>1. Still(a, b)
  <2>1. ASSUME NEW v \in Int, a < v, v <= b  PROVE ~Moves(v)
    <3>1. v \in (start + 1)..end
      BY <2>1
    <3>2. v \notin MovesIn(start, end)
      BY <2>1 DEF NoMoveIn
    <3> QED BY <3>1, <3>2 DEF MovesIn
  <2> QED BY <2>1 DEF Still
<1> QED BY <1>1, StaysSame

LEMMA ChangingDescribed ==
  ASSUME NEW start, NEW end, Window(start, end), NEW z, NEW onsets,
         EventsOfMoves(z, Events(z, onsets), MovesIn(start, end)), MovesIn(start, end) # {}
  PROVE  \E n : Describes(Transitions(z, onsets), n, start, end)
<1> DEFINE S == Events(z, onsets)
           M == MovesIn(start, end)
           t == Transitions(z, onsets)
           s == InOrder(S)
           n == Cardinality(S)
<1>1. S \in SUBSET Event /\ IsFiniteSet(S)
  BY DEF EventsOfMoves
<1>2. /\ \A e \in S : /\ e.utc \in M /\ e \in Event
                      /\ z[e.obs].from = Probe(e.utc - 1).offset
                      /\ z[e.obs].to = Probe(e.utc).offset
      /\ \A u \in M : \E e \in S : e.utc = u
      /\ \A e, f \in S : e.utc = f.utc => e = f
  BY DEF EventsOfMoves
<1>3. start \in Int /\ end \in Int /\ start <= end /\ M # {}
  BY DEF Window
<1>4. \A u \in M : u \in Int /\ start < u /\ u <= end
  BY <1>3 DEF MovesIn
<1>5. /\ DOMAIN t = 1..n
      /\ \A k \in 1..n : t[k] = Entry(z, s, k)
  BY <1>1, EntriesOf
<1>6. /\ n \in Nat
      /\ \A k \in 1..n : s[k] \in S
      /\ \A e \in S : s[Place(S, e) + 1] = e /\ Place(S, e) \in 0..(n - 1)
      /\ \A j, k \in 1..n : j < k => Earlier(s[j], s[k])
  BY <1>1, Sorted, PlaceType
<1> HIDE DEF S, M, t, s, n
<1>7. \A k \in 1..n :
        /\ t[k].utc = s[k].utc /\ t[k].after = z[s[k].obs].to
        /\ k = 1 => t[k].before = z[s[1].obs].from
        /\ k > 1 => t[k].before = z[s[k - 1].obs].to
  BY SMTT(30), <1>5, <1>6 DEF Entry
<1>8. \A k \in 1..n : /\ t[k].utc \in M /\ t[k].after = Probe(t[k].utc).offset
                      /\ t[k].utc \in Int /\ start < t[k].utc /\ t[k].utc <= end
  BY <1>2, <1>4, <1>6, <1>7
<1>9. \A k \in 1..n : k > 1 => t[k].before = t[k - 1].after
  <2> SUFFICES ASSUME NEW k \in 1..n, k > 1 PROVE t[k].before = t[k - 1].after
    OBVIOUS
  <2>1. k - 1 \in 1..n
    BY <1>6
  <2> QED BY <1>7, <2>1
<1>10. \A j, k \in 1..n : j < k => t[j].utc < t[k].utc
  <2> SUFFICES ASSUME NEW j \in 1..n, NEW k \in 1..n, j < k PROVE t[j].utc < t[k].utc
    OBVIOUS
  <2>1. PICK e \in S : e = s[j]
    BY <1>6
  <2>2. PICK f \in S : f = s[k]
    BY <1>6
  <2>3. Earlier(e, f) /\ e \in Event /\ f \in Event
    BY <1>2, <1>6, <2>1, <2>2
  <2>4. e # f
    BY <2>3, Linear
  <2>5. e.utc # f.utc
    BY <1>2, <2>4
  <2>6. e.utc <= f.utc /\ e.utc \in Int /\ f.utc \in Int
    BY <2>3 DEF Earlier, Event
  <2>7. t[j].utc = e.utc /\ t[k].utc = f.utc
    BY <1>7, <2>1, <2>2
  <2> QED BY <2>5, <2>6, <2>7
<1>11. \A u \in M : \E k \in 1..n : t[k].utc = u
  <2> SUFFICES ASSUME NEW u \in M PROVE \E k \in 1..n : t[k].utc = u
    OBVIOUS
  <2>1. PICK e \in S : e.utc = u
    BY <1>2
  <2>2. Place(S, e) + 1 \in 1..n /\ s[Place(S, e) + 1] = e
    BY <1>6
  <2> QED BY <1>7, <2>1, <2>2
<1>12. n > 0 /\ 1 \in 1..n
  BY <1>3, <1>6, <1>11
<1>13. t[1].before = Probe(start).offset
  <2>1. PICK e \in S : e = s[1]
    BY <1>6, <1>12
  <2>2. t[1].utc = e.utc /\ t[1].before = Probe(e.utc - 1).offset
    BY <1>2, <1>7, <1>12, <2>1
  <2>3. e.utc \in Int /\ start < e.utc /\ e.utc <= end
    BY <1>2, <1>4
  <2>4. \A u \in M : ~(start < u /\ u <= e.utc - 1)
    <3> SUFFICES ASSUME NEW u \in M, u <= e.utc - 1 PROVE FALSE
      OBVIOUS
    <3>1. PICK k \in 1..n : t[k].utc = u
      BY <1>11
    <3>2. k # 1
      BY <2>2, <2>3, <3>1, <1>4
    <3>3. 1 < k
      BY <1>6, <3>2
    <3>4. e.utc < u
      BY <1>10, <1>12, <2>2, <3>1, <3>3
    <3> QED BY <1>4, <2>3, <3>4
  <2>5. start <= e.utc - 1 /\ e.utc - 1 <= end /\ e.utc - 1 \in Int
    BY <1>3, <2>3
  <2>6. Probe(e.utc - 1) = Probe(start)
    BY <1>3, <2>4, <2>5, StillUntil DEF M, NoMoveIn
  <2> QED BY <2>2, <2>6
<1>14. Describes(t, n, start, end)
  <2>1. \A k \in 1..n : start <= t[k].utc
    BY <1>3, <1>8
  <2> QED BY <2>1, <1>5, <1>6, <1>8, <1>9, <1>10, <1>11, <1>12, <1>13 DEF Describes, M
<1> QED BY <1>14 DEF t, n

LEMMA FixedDescribed ==
  ASSUME NEW start, NEW end, Window(start, end), MovesIn(start, end) = {},
         NEW y \in Int, Year(start + Probe(start).offset) <= y
  PROVE  Describes(Table(<<Fixed(start)>>, y), 1, start, end)
<1> DEFINE z == <<Fixed(start)>>
           o == Probe(start).offset
           S == Events(z, UpToYear(z, y))
           e == [utc |-> start, obs |-> 1]
<1>1. start \in Int /\ end \in Int /\ start <= end /\ o \in Int
  BY Probed DEF Window
<1>2. /\ Fixed(start).from = o /\ Fixed(start).to = o /\ Fixed(start).rule = {}
      /\ Fixed(start).dtstart = start + o /\ Fixed(start).rdates = {}
  BY DEF Fixed
<1>3. DOMAIN z = {1} /\ z[1] = Fixed(start)
  OBVIOUS
<1>4. OnsetsThrough(Fixed(start), y) = {start + o}
  <2>1. PICK obs : obs = Fixed(start)
    OBVIOUS
  <2>2. obs.rule = {} /\ \A w \in {obs.dtstart} \cup obs.rdates : Year(w) <= y
    BY <1>2, <2>1
  <2>3. OnsetsThrough(obs, y) = {obs.dtstart} \cup obs.rdates
    BY <2>2, PlainOnsets
  <2> QED BY <1>2, <2>1, <2>3
<1> HIDE DEF z, o
<1>5. UpToYear(z, y)[1] = {start + o}
  BY <1>3, <1>4 DEF UpToYear
<1>6. S = {e}
  <2>1. S = UNION {{[utc |-> w - z[i].from, obs |-> i] : w \in UpToYear(z, y)[i]} : i \in {1}}
    BY <1>3 DEF Events
  <2>2. (start + o) - o = start
    BY <1>1
  <2> QED BY <1>2, <1>3, <1>5, <2>1, <2>2
<1>7. S \in SUBSET Event /\ IsFiniteSet(S) /\ Cardinality(S) = 1
  <2>1. e \in Event
    BY <1>1 DEF Event
  <2> HIDE DEF S, e
  <2> QED BY <1>6, <2>1, FS_Singleton
<1>8. Table(z, y) = Transitions(z, UpToYear(z, y))
  BY DEF Table, UpToYear
<1> DEFINE t == Table(z, y)
<1>9. DOMAIN t = 1..1 /\ t[1] = Entry(z, InOrder(S), 1)
  BY <1>7, <1>8, EntriesOf
<1>10. InOrder(S)[1] = e
  BY <1>6, <1>7, Sorted
<1> HIDE DEF S, t
<1>11. t[1].utc = start /\ t[1].before = o /\ t[1].after = o
  BY <1>2, <1>3, <1>9, <1>10 DEF Entry
<1>12. Describes(t, 1, start, end)
  BY <1>1, <1>9, <1>11 DEF Describes, o
<1> QED BY <1>12 DEF t, z

LEMMA ReadDescribes ==
  ASSUME NEW start, NEW end, Window(start, end)
  PROVE  \E n : Describes(Table(FromTzinfo(start, end), ReadYear(end)), n, start, end)
<1>1. PICK C : C = Changes(start, end)
  OBVIOUS
<1>2. CASE C = {}
  <2>1. FromTzinfo(start, end) = <<Fixed(start)>>
    BY <1>1, <1>2, FromTzinfoIs
  <2>2. MovesIn(start, end) = {}
    BY <1>1, <1>2, WindowChanges
  <2>3. Year(start + Probe(start).offset) <= ReadYear(end) /\ ReadYear(end) \in Int
    <3>1. start \in Int /\ end \in Int /\ start <= end
      BY DEF Window
    <3> QED BY <3>1, OnsetRead, ReadYearType
  <2> QED BY <2>1, <2>2, <2>3, FixedDescribed
<1>3. CASE C # {}
  <2>1. PICK z : z = FromTzinfo(start, end)
    OBVIOUS
  <2>2. EventsOfMoves(z, Events(z, UpToYear(z, ReadYear(end))), MovesIn(start, end))
    BY <1>1, <1>3, <2>1, EventsWritten
  <2>3. MovesIn(start, end) # {}
    BY <1>1, <1>3, WindowChanges
  <2>4. \E n : Describes(Transitions(z, UpToYear(z, ReadYear(end))), n, start, end)
    BY <2>2, <2>3, ChangingDescribed
  <2>5. Table(z, ReadYear(end)) = Transitions(z, UpToYear(z, ReadYear(end)))
    BY DEF Table, UpToYear
  <2> QED BY <2>1, <2>4, <2>5
<1> QED BY <1>2, <1>3

-----------------------------------------------------------------------------
(* It reads as the zone does. *)

LEMMA ReadsUtc ==
  ASSUME NEW start, NEW end, Window(start, end), NEW t, NEW n, Describes(t, n, start, end),
         NEW u \in Int, start <= u, u <= end
  PROVE  OffsetAfter(t, UtcCount(t, u)) = Probe(u).offset
<1> DEFINE P == {k \in 1..n : t[k].utc <= u}
           c == Cardinality(P)
           M == MovesIn(start, end)
<1>1. /\ n \in Nat /\ n > 0 /\ DOMAIN t = 1..n
      /\ \A k \in 1..n : /\ t[k].utc \in Int /\ start <= t[k].utc /\ t[k].utc <= end
                         /\ t[k].after = Probe(t[k].utc).offset
      /\ t[1].before = Probe(start).offset
      /\ \A j, k \in 1..n : j < k => t[j].utc < t[k].utc
      /\ \A v \in M : \E k \in 1..n : t[k].utc = v
  BY DEF Describes
<1>2. start \in Int /\ end \in Int
  BY DEF Window
<1>3. UtcCount(t, u) = c
  BY <1>1 DEF UtcCount
<1>4. \A j, k \in 1..n : j <= k /\ k \in P => j \in P
  <2> SUFFICES ASSUME NEW j \in 1..n, NEW k \in 1..n, j <= k, t[k].utc <= u PROVE t[j].utc <= u
    OBVIOUS
  <2>1. t[j].utc < t[k].utc \/ j = k
    BY <1>1
  <2> QED BY <1>1, <2>1
<1>5. c \in 0..n /\ \A k \in 1..n : t[k].utc <= u <=> k <= c
  <2>1. P \in SUBSET (1..n)
    OBVIOUS
  <2> HIDE DEF c
  <2>2. Cardinality(P) \in 0..n /\ \A k \in 1..n : k \in P <=> k <= Cardinality(P)
    BY <1>1, <1>4, <2>1, CountUpTo
  <2> QED BY <2>2 DEF c
<1> HIDE DEF P, c, M
<1>6. CASE c = 0
  <2>1. \A v \in M : ~(start < v /\ v <= u)
    BY <1>1, <1>5, <1>6
  <2>2. Probe(u) = Probe(start)
    BY <1>2, <2>1, StillUntil DEF M, NoMoveIn
  <2> QED BY <1>1, <1>3, <1>6, <2>2 DEF OffsetAfter
<1>7. CASE c # 0
  <2>1. c \in 1..n
    BY <1>5, <1>7
  <2>2. /\ t[c].utc \in Int /\ start <= t[c].utc /\ t[c].utc <= u
        /\ t[c].after = Probe(t[c].utc).offset
    BY <1>1, <1>5, <2>1
  <2>3. \A v \in M : ~(t[c].utc < v /\ v <= u)
    <3> SUFFICES ASSUME NEW v \in M, t[c].utc < v, v <= u PROVE FALSE
      OBVIOUS
    <3>1. PICK k \in 1..n : t[k].utc = v
      BY <1>1
    <3>2. k <= c
      BY <1>5, <3>1
    <3>3. k < c \/ k = c
      BY <2>1, <3>2
    <3>4. t[k].utc <= t[c].utc /\ t[k].utc \in Int
      BY <1>1, <2>1, <3>3
    <3> QED BY <2>2, <3>1, <3>4
  <2>4. Probe(u) = Probe(t[c].utc)
    BY <1>2, <2>2, <2>3, StillUntil DEF M, NoMoveIn
  <2> QED BY <1>3, <1>7, <2>2, <2>4 DEF OffsetAfter
<1> QED BY <1>6, <1>7

\* A wall time that is well within the window is read by the changes up to some
\* instant of the window.
IsReadAsOf(w, lo, hi, wall, fold) ==
  /\ w \in Int /\ lo - Padding <= w /\ w <= hi + Padding
  /\ UtcCount(Full[zone], w) = WallCount(Full[zone], wall, fold)

LEMMA ReadAsOf ==
  ASSUME HasClock, NEW lo \in Int, NEW hi \in Int, lo <= hi,
         NEW wall \in Int, lo <= wall, wall <= hi, NEW fold \in {0, 1}
  PROVE  \E w : IsReadAsOf(w, lo, hi, wall, fold)
<1> DEFINE F == Full[zone]
           n == WallCount(F, wall, fold)
           start == lo - Padding
<1>1. WellMade(zone, F) /\ F # <<>> /\ zone \in Zones
  BY FullIs DEF HasClock
<1>2. Len(F) \in Nat /\ DOMAIN F = 1..Len(F) /\ \A k \in 1..Len(F) : F[k].utc \in Int
  BY <1>1 DEF WellMade
<1>3. n \in 0..Len(F) /\ \A k \in 1..Len(F) : WallFold(F[k], fold) <= wall <=> k <= n
  BY <1>1, CountedWall
<1>4. Padding \in Int /\ 2 * Padding >= YearLen /\ YearLen \in Int /\ YearLen > 0
  BY PaddingAssumption, YearLenPositive
<1>5. \A k \in 1..Len(F) :
        /\ WallFold(F[k], fold) < F[k].utc + Padding /\ F[k].utc - Padding < WallFold(F[k], fold)
        /\ WallFold(F[k], fold) \in Int
  <2> SUFFICES ASSUME NEW k \in 1..Len(F)
               PROVE  /\ WallFold(F[k], fold) < F[k].utc + Padding
                      /\ F[k].utc - Padding < WallFold(F[k], fold)
                      /\ WallFold(F[k], fold) \in Int
    OBVIOUS
  <2>1. PICK p \in Offsets(zone) : WallFold(F[k], fold) = F[k].utc + p
    BY <1>1, <1>2, WallFoldType
  <2>2. p \in Int /\ -YearLen < 2 * p /\ 2 * p < YearLen
    BY <1>1, OffsetsType
  <2>3. F[k].utc \in Int
    BY <1>2
  <2> HIDE DEF F
  <2> QED BY <1>4, <2>1, <2>2, <2>3
<1>6. \A j, k \in 1..Len(F) : j < k => F[j].utc < F[k].utc
  <2> SUFFICES ASSUME NEW j \in 1..Len(F), NEW k \in 1..Len(F), j < k PROVE F[j].utc < F[k].utc
    OBVIOUS
  <2>1. F[j].utc + ProbeStep <= F[k].utc
    BY Apart
  <2>2. ProbeStep \in Int /\ ProbeStep > 0 /\ F[j].utc \in Int /\ F[k].utc \in Int
    BY <1>2, ProbeAssumption
  <2> HIDE DEF F
  <2> QED BY <2>1, <2>2
<1> HIDE DEF F, n
<1>7. SUFFICES \E w \in Int : /\ start <= w /\ w <= hi + Padding
                              /\ \A k \in 1..Len(F) : F[k].utc <= w <=> k <= n
  <2>1. PICK w \in Int : /\ start <= w /\ w <= hi + Padding
                         /\ \A k \in 1..Len(F) : F[k].utc <= w <=> k <= n
    BY <1>7
  <2> DEFINE m == UtcCount(F, w)
  <2>2. m \in 0..Len(F) /\ \A k \in 1..Len(F) : F[k].utc <= w <=> k <= m
    BY <1>1, CountedUtc DEF F
  <2> HIDE DEF m
  <2>3. \A k \in 1..Len(F) : k <= m <=> k <= n
    BY <2>1, <2>2
  <2>4. m = n
    <3>1. m \in 1..Len(F) => m <= n
      BY <2>3
    <3>2. n \in 1..Len(F) => n <= m
      BY <2>3
    <3> QED BY <1>2, <1>3, <2>2, <3>1, <3>2
  <2> QED BY <2>1, <2>4 DEF m, n, F, IsReadAsOf
<1>8. \A k \in 1..Len(F) : ~(k <= n) => start < F[k].utc
  <2> SUFFICES ASSUME NEW k \in 1..Len(F), ~(k <= n) PROVE start < F[k].utc
    OBVIOUS
  <2>1. ~(WallFold(F[k], fold) <= wall) /\ WallFold(F[k], fold) \in Int
    BY <1>3, <1>5
  <2> QED BY <1>2, <1>4, <1>5, <2>1
<1>9. CASE n = 0 \/ (n # 0 /\ F[n].utc < start)
  <2>1. ASSUME NEW k \in 1..Len(F), k <= n  PROVE F[k].utc <= start
    <3>1. n \in 1..Len(F) /\ F[n].utc < start
      BY <1>3, <1>9, <2>1
    <3>2. k = n \/ F[k].utc < F[n].utc
      BY <1>6, <2>1, <3>1
    <3> QED BY <1>2, <1>4, <3>1, <3>2
  <2>2. start \in Int /\ start <= hi + Padding
    BY <1>4, PaddingAssumption
  <2>3. \A k \in 1..Len(F) : F[k].utc <= start <=> k <= n
    <3>1. \A k \in 1..Len(F) : start < F[k].utc => ~(F[k].utc <= start)
      BY <1>2, <2>2
    <3> HIDE DEF start
    <3> QED BY <1>8, <2>1, <3>1
  <2> QED BY <2>2, <2>3
<1>10. CASE n # 0 /\ ~(F[n].utc < start)
  <2>1. n \in 1..Len(F) /\ F[n].utc \in Int /\ n <= n
    BY <1>2, <1>3, <1>10
  <2>2. WallFold(F[n], fold) <= wall /\ WallFold(F[n], fold) \in Int
    BY <1>3, <1>5, <2>1
  <2>3. start <= F[n].utc /\ F[n].utc <= hi + Padding
    BY <1>4, <1>5, <1>10, <2>1, <2>2
  <2>4. \A k \in 1..Len(F) : F[k].utc <= F[n].utc <=> k <= n
    <3> SUFFICES ASSUME NEW k \in 1..Len(F) PROVE F[k].utc <= F[n].utc <=> k <= n
      OBVIOUS
    <3>1. (k < n => F[k].utc < F[n].utc) /\ (n < k => F[n].utc < F[k].utc)
      BY <1>6, <2>1
    <3>2. F[k].utc \in Int
      BY <1>2
    <3> QED BY <2>1, <3>1, <3>2
  <2> QED BY <2>1, <2>3, <2>4
<1> QED BY <1>9, <1>10

LEMMA ReadsWall ==
  ASSUME NEW lo \in Int, NEW hi \in Int, lo <= hi, Window(lo - Padding, hi + Padding),
         NEW t, NEW n, Describes(t, n, lo - Padding, hi + Padding),
         NEW wall \in Int, lo <= wall, wall <= hi, NEW fold \in {0, 1}
  PROVE  WallOffset(t, wall, fold) = WallOffset(Full[zone], wall, fold)
<1> DEFINE F == Full[zone]
           start == lo - Padding
           end == hi + Padding
           M == MovesIn(start, end)
<1>0. HasClock /\ start \in Int /\ end \in Int /\ start <= end
  BY DEF Window
<1>1. PICK w \in Int : /\ start <= w /\ w <= end
                       /\ UtcCount(F, w) = WallCount(F, wall, fold)
  <2>1. PICK w : IsReadAsOf(w, lo, hi, wall, fold)
    BY <1>0, ReadAsOf
  <2> QED BY <2>1 DEF IsReadAsOf
<1>2. WallOffset(F, wall, fold) = Probe(w).offset
  BY <1>1 DEF WallOffset, WallCount, Probe
<1>3. OffsetAfter(t, UtcCount(t, w)) = Probe(w).offset
  BY <1>1, ReadsUtc
<1>4. /\ n \in Nat /\ n > 0 /\ DOMAIN t = 1..n
      /\ \A k \in 1..n : /\ t[k].utc \in Int /\ start <= t[k].utc /\ t[k].utc <= end
                         /\ t[k].after = Probe(t[k].utc).offset
      /\ t[1].before = Probe(start).offset
      /\ \A k \in 1..n : k > 1 => t[k].before = t[k - 1].after
      /\ \A j, k \in 1..n : j < k => t[j].utc < t[k].utc
      /\ \A u \in M : \E k \in 1..n : t[k].utc = u
      /\ \A k \in 1..n : t[k].utc \in M \/ (n = 1 /\ t[k].after = t[k].before)
  BY DEF Describes
<1>5. F # <<>> /\ zone \in Zones /\ WellMade(zone, F)
  BY <1>0, FullIs DEF HasClock
<1> HIDE DEF start, end, M
<1>6. CASE \A k \in 1..n : t[k].utc \in M
  <2>1. ASSUME NEW k \in 1..n  PROVE WallFold(t[k], fold) <= wall <=> t[k].utc <= w
    <3>1. PICK u \in Int : u = t[k].utc /\ Moves(u) /\ start < u /\ u <= end
      BY <1>0, <1>6 DEF MovesIn, M
    <3>2. PICK j \in 1..Len(F) : F[j].utc = u
      BY <1>0, <3>1, MoveIsChange
    <3>3. F[j].after = Probe(u).offset /\ F[j].before = Probe(u - 1).offset
      BY <1>0, <3>2, CountedAt
    <3>4. t[k].before = Probe(u - 1).offset
      <4>1. CASE k = 1
        <5>1. \A v \in M : ~(start < v /\ v <= u - 1)
          <6> SUFFICES ASSUME NEW v \in M, v <= u - 1 PROVE FALSE
            OBVIOUS
          <6>1. PICK i \in 1..n : t[i].utc = v
            BY <1>4
          <6>2. i = 1 \/ t[1].utc < t[i].utc
            BY <1>4
          <6>3. v \in Int
            BY <1>4, <6>1
          <6> QED BY <3>1, <4>1, <6>1, <6>2, <6>3
        <5>2. u - 1 \in Int /\ start <= u - 1 /\ u - 1 <= end
          BY <1>0, <3>1
        <5>3. Probe(u - 1) = Probe(start)
          BY <1>0, <5>1, <5>2, StillUntil DEF M, NoMoveIn
        <5> QED BY <1>4, <4>1, <5>3
      <4>2. CASE k # 1
        <5>1. k - 1 \in 1..n /\ k > 1 /\ k - 1 < k /\ k \in Int
          BY <1>4, <4>2
        <5>2. PICK p \in Int : p = t[k - 1].utc
          BY <1>4, <5>1
        <5>3. p < u /\ start <= p /\ t[k].before = Probe(p).offset
          BY <1>4, <3>1, <5>1, <5>2
        <5>4. \A v \in M : ~(p < v /\ v <= u - 1)
          <6> SUFFICES ASSUME NEW v \in M, p < v, v <= u - 1 PROVE FALSE
            OBVIOUS
          <6>1. PICK i \in 1..n : t[i].utc = v
            BY <1>4
          <6>2. i <= k - 1 \/ k <= i
            BY <5>1
          <6>3. v \in Int
            BY <1>4, <6>1
          <6>4. CASE i <= k - 1
            <7>1. i = k - 1 \/ t[i].utc < t[k - 1].utc
              BY <1>4, <5>1, <6>4
            <7> QED BY SMTT(30), <5>2, <6>1, <6>3, <7>1
          <6>5. CASE k <= i
            <7>1. i = k \/ t[k].utc < t[i].utc
              BY <1>4, <6>5
            <7> QED BY <3>1, <6>1, <6>3, <7>1
          <6> QED BY <6>2, <6>4, <6>5
        <5>5. u - 1 \in Int /\ p <= u - 1 /\ u - 1 <= end
          BY SMTT(30), <1>0, <3>1, <5>2, <5>3
        <5>6. Probe(u - 1) = Probe(p)
          <6>1. \A v \in MovesIn(start, end) : ~(p < v /\ v <= u - 1)
            BY <5>4 DEF M
          <6>2. PICK b \in Int : b = u - 1 /\ p <= b /\ b <= end
            BY <5>5
          <6>3. NoMoveIn(start, end, p, b)
            BY <6>1, <6>2 DEF NoMoveIn
          <6>4. Probe(b) = Probe(p)
            BY SMTT(30), <1>0, <5>2, <5>3, <6>2, <6>3, StillUntil
          <6> QED BY <6>2, <6>4
        <5> QED BY <5>3, <5>6
      <4> QED BY <4>1, <4>2
    <3>5. t[k].after = Probe(u).offset
      BY <1>4, <3>1
    <3>6. WallFold(t[k], fold) = WallFold(F[j], fold)
      BY <3>1, <3>2, <3>3, <3>4, <3>5 DEF WallFold
    <3>7. WallFold(F[j], fold) <= wall <=> j <= WallCount(F, wall, fold)
      BY <1>5, CountedWall
    <3>8. F[j].utc <= w <=> j <= UtcCount(F, w)
      BY <1>5, CountedUtc
    <3> QED BY <1>1, <3>1, <3>2, <3>6, <3>7, <3>8
  <2>2. {k \in DOMAIN t : WallFold(t[k], fold) <= wall} = {k \in DOMAIN t : t[k].utc <= w}
    BY <1>4, <2>1
  <2>3. WallOffset(t, wall, fold) = OffsetAfter(t, UtcCount(t, w))
    BY <2>2 DEF WallOffset, UtcCount
  <2> QED BY <1>2, <1>3, <2>3
<1>7. CASE n = 1 /\ t[1].after = t[1].before
  <2>1. DOMAIN t = {1}
    BY <1>4, <1>7
  <2>2. \A S \in SUBSET {1} : OffsetAfter(t, Cardinality(S)) = t[1].before
    <3> SUFFICES ASSUME NEW S \in SUBSET {1} PROVE OffsetAfter(t, Cardinality(S)) = t[1].before
      OBVIOUS
    <3>1. S = {} \/ S = {1}
      OBVIOUS
    <3>2. Cardinality(S) = 0 \/ Cardinality(S) = 1
      BY <3>1, FS_EmptySet, FS_Singleton
    <3> QED BY <1>7, <3>2 DEF OffsetAfter
  <2>3. {k \in DOMAIN t : WallFold(t[k], fold) <= wall} \in SUBSET {1}
    BY <2>1
  <2>4. {k \in DOMAIN t : t[k].utc <= w} \in SUBSET {1}
    BY <2>1
  <2> QED BY <1>2, <1>3, <2>2, <2>3, <2>4 DEF WallOffset, UtcCount
<1> QED BY <1>4, <1>6, <1>7

-----------------------------------------------------------------------------
(* The specification. *)

\* What is written for a span reads as a zone does.
ReadsAs(z, first, last, written) ==
  LET start == first - Padding  end == last + Padding
      read == Table(written, ReadYear(end))
  IN  /\ \A u \in start..end :
           OffsetAfter(read, UtcCount(read, u)) = OffsetAfter(Full[z], UtcCount(Full[z], u))
      /\ \A wall \in first..last, fold \in {0, 1} :
           WallOffset(read, wall, fold) = WallOffset(Full[z], wall, fold)
GenInv ==
  /\ zone \in Zones
  /\ span # NoSpan => ReadsAs(zone, span[1], span[2], component)

LEMMA WrittenReads ==
  ASSUME zone \in Zones, zone # <<>>, NEW lo \in Int, NEW hi \in Int, lo <= hi,
         {lo - Padding, hi + Padding} \subseteq Times
  PROVE  ReadsAs(zone, lo, hi, FromTzinfo(lo - Padding, hi + Padding))
<1> DEFINE start == lo - Padding
           end == hi + Padding
           t == Table(FromTzinfo(start, end), ReadYear(end))
<1>1. Full[zone] # <<>>
  <2>1. zone \in Seq(ObservanceRecord) /\ DOMAIN zone = 1..Len(zone) /\ Len(zone) \in Nat
    BY AllEventsType
  <2>2. 1 \in DOMAIN zone /\ zone[1] \in ObservanceRecord
    BY <2>1
  <2>3. zone[1].dtstart \in AllOnsets(zone)[1]
    BY <2>2 DEF AllOnsets, Onsets
  <2>4. [utc |-> zone[1].dtstart - zone[1].from, obs |-> 1] \in Events(zone, AllOnsets(zone))
    BY <2>1, <2>2, <2>3, AllEventsType, EventsType
  <2> DEFINE S == Events(zone, AllOnsets(zone))
  <2>5. IsFiniteSet(S) /\ S # {}
    BY <2>4, AllEventsType, EventsType
  <2>6. Cardinality(S) # 0
    BY <2>5, FS_EmptySet
  <2>7. WellMade(zone, Full[zone]) /\ Len(Full[zone]) = Cardinality(S)
    BY FullIs DEF MadeOf
  <2> HIDE DEF S
  <2> QED BY <2>6, <2>7 DEF WellMade
<1>2. Window(start, end)
  <2>1. start \in Nat /\ end \in Nat
    <3>1. \A u \in Times : u \in Nat
      BY DEF Times
    <3> QED BY <3>1
  <2>2. start <= end
    BY PaddingAssumption
  <2> HIDE DEF start, end
  <2> QED BY <1>1, <2>1, <2>2 DEF Window, HasClock
<1>3. PICK n : Describes(t, n, start, end)
  BY <1>2, ReadDescribes
<1>4. ASSUME NEW u \in start..end
      PROVE  OffsetAfter(t, UtcCount(t, u)) = OffsetAfter(Full[zone], UtcCount(Full[zone], u))
  <2>1. u \in Int /\ start <= u /\ u <= end
    BY <1>2 DEF Window
  <2> HIDE DEF t, start, end
  <2>2. OffsetAfter(t, UtcCount(t, u)) = Probe(u).offset
    BY <1>2, <1>3, <2>1, ReadsUtc
  <2> QED BY <2>2 DEF Probe
<1>5. ASSUME NEW wall \in lo..hi, NEW fold \in {0, 1}
      PROVE  WallOffset(t, wall, fold) = WallOffset(Full[zone], wall, fold)
  <2>1. wall \in Int /\ lo <= wall /\ wall <= hi
    OBVIOUS
  <2> HIDE DEF t
  <2> QED BY <1>2, <1>3, <2>1, ReadsWall
<1> QED BY <1>4, <1>5 DEF ReadsAs

LEMMA GenInvNext ==
  ASSUME GenInv, [GenNext]_<<vars, genVars>>
  PROVE  GenInv'
<1>1. CASE UNCHANGED <<vars, genVars>>
  <2>1. zone' = zone /\ span' = span /\ component' = component
    BY <1>1 DEF vars, genVars
  <2> QED BY <2>1 DEF GenInv
<1>2. CASE GenNext
  <2>1. PICK s \in Spans : Generate(s[1], s[2])
    BY <1>2 DEF GenNext
  <2>2. s[1] \in Int /\ s[2] \in Int /\ s[1] <= s[2]
    BY PaddingAssumption
  <2>3. PICK lo \in Int : lo = s[1]
    BY <2>2
  <2>4. PICK hi \in Int : hi = s[2]
    BY <2>2
  <2>5. /\ zone # <<>> /\ {lo - Padding, hi + Padding} \subseteq Times
        /\ span' = <<lo, hi>> /\ component' = FromTzinfo(lo - Padding, hi + Padding)
        /\ zone' = zone
    BY <2>1, <2>3, <2>4 DEF Generate, vars
  <2>6. ReadsAs(zone, lo, hi, FromTzinfo(lo - Padding, hi + Padding))
    BY <2>2, <2>3, <2>4, <2>5, WrittenReads DEF GenInv
  <2>7. span'[1] = lo /\ span'[2] = hi
    BY <2>5
  <2>8. ReadsAs(zone', span'[1], span'[2], component')
    BY <2>5, <2>6, <2>7
  <2> QED BY <2>5, <2>8 DEF GenInv
<1> QED BY <1>1, <1>2

LEMMA GenInvAgrees == GenInv => GeneratedAgrees
BY DEF GenInv, GeneratedAgrees, ReadsAs, ReadYear, ClockOffset

\* timezones.py: the component generated for a zone reads, through VTimezone, as
\* the zone does: at every instant of the window, and at every wall time that
\* the document refers to, whichever its fold.
THEOREM GeneratedReadsAlike ==
  GenSpec => []GeneratedAgrees
<1>1. GenInit => GenInv
  BY DEF GenInit, Init, GenInv, NoSpan
<1>2. GenInv /\ [GenNext]_<<vars, genVars>> => GenInv'
  BY GenInvNext
<1> QED BY <1>1, <1>2, GenInvAgrees, PTL DEF GenSpec
=============================================================================
