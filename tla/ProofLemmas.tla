----------------------------- MODULE ProofLemmas -----------------------------
(***************************************************************************)
(* Facts about numbers, finite sets and sequences that the proofs of       *)
(* several modules need.                                                   *)
(***************************************************************************)
EXTENDS SequencesExt, Integers, Sequences, FiniteSets, WellFoundedInduction, FiniteSetTheorems, TLAPS

\* A set of numbers has a least one.
LEMMA Least ==
  ASSUME NEW S \in SUBSET Nat, S # {}
  PROVE  \E m \in S : \A n \in S : m <= n
<1> DEFINE R == OpToRel(<, Nat)
<1>1. R = {p \in Nat \X Nat : p[1] < p[2]}
  BY DEF OpToRel
<1>2. IsWellFoundedOn(R, Nat)
  BY NatLessThanWellFounded
<1> HIDE DEF R
<1>3. PICK m \in S : \A n \in S : ~(<<n, m>> \in R)
  BY <1>2, WFMin
<1>4. \A n \in S : ~(n < m)
  BY <1>1, <1>3
<1> QED BY <1>4

\* A bounded one has a greatest, too.
LEMMA Greatest ==
  ASSUME NEW S \in SUBSET Nat, S # {}, NEW b \in Nat, \A n \in S : n <= b
  PROVE  \E m \in S : \A n \in S : n <= m
<1> DEFINE T == {d \in Nat : \E n \in S : d = b - n}
<1>1. T \in SUBSET Nat
  OBVIOUS
<1>2. T # {}
  <2>1. PICK n \in S : TRUE
    OBVIOUS
  <2>2. b - n \in T
    BY <2>1
  <2> QED BY <2>2
<1>3. PICK d \in T : \A e \in T : d <= e
  BY <1>1, <1>2, Least
<1>4. PICK m \in S : d = b - m
  BY <1>3
<1>5. ASSUME NEW n \in S  PROVE n <= m
  <2>1. b - n \in T
    OBVIOUS
  <2> QED BY <2>1, <1>3, <1>4
<1> QED BY <1>5

-----------------------------------------------------------------------------
\* How many members of a set of numbers are no greater than one.
Rank(S, i) == Cardinality({k \in S : k <= i})

LEMMA RankType ==
  ASSUME NEW S \in SUBSET Nat, IsFiniteSet(S), NEW i \in S
  PROVE  Cardinality(S) \in Nat /\ Rank(S, i) \in 1..Cardinality(S)
<1> DEFINE T == {k \in S : k <= i}
<1>1. T \in SUBSET S /\ i \in T
  OBVIOUS
<1>2. IsFiniteSet(T) /\ Cardinality(T) <= Cardinality(S)
  BY <1>1, FS_Subset
<1>3. Cardinality(T) \in Nat /\ Cardinality(S) \in Nat
  BY <1>2, FS_CardinalityType
<1>4. Cardinality(T) # 0
  BY <1>1, <1>2, FS_EmptySet
<1>5. Rank(S, i) = Cardinality(T)
  BY DEF Rank
<1> HIDE DEF T
<1> QED BY <1>2, <1>3, <1>4, <1>5

LEMMA RankGrows ==
  ASSUME NEW S \in SUBSET Nat, IsFiniteSet(S), NEW i \in S, NEW j \in S, i < j
  PROVE  Rank(S, i) < Rank(S, j)
<1> DEFINE T == {k \in S : k <= i}
           U == {k \in S : k <= j}
<1>0. i \in Nat /\ j \in Nat
  OBVIOUS
<1>1. j \in U /\ j \notin T
  BY <1>0
<1>2. U \in SUBSET S
  OBVIOUS
<1>3. T \in SUBSET U
  <2>1. ASSUME NEW k \in T  PROVE k \in U
    BY <1>0
  <2> HIDE DEF T, U
  <2> QED BY <2>1
<1>4. IsFiniteSet(U)
  BY <1>2, FS_Subset
<1>5. Cardinality(T) <= Cardinality(U) /\ Cardinality(U) # Cardinality(T)
  BY <1>1, <1>3, <1>4, FS_Subset
<1>6. Rank(S, i) = Cardinality(T) /\ Rank(S, j) = Cardinality(U)
  BY DEF Rank
<1>7. Rank(S, i) \in Nat /\ Rank(S, j) \in Nat
  BY RankType
<1> HIDE DEF T, U
<1> QED BY <1>5, <1>6, <1>7

\* Every place up to its size is that of one member.
LEMMA EveryRankTaken ==
  ASSUME NEW S \in SUBSET Nat, IsFiniteSet(S), NEW j \in 1..Cardinality(S)
  PROVE  \E i \in S : Rank(S, i) = j
<1> DEFINE f == [i \in S |-> Rank(S, i)]
           T == 1..Cardinality(S)
<1>1. Cardinality(S) \in Nat
  BY FS_CardinalityType
<1>2. IsFiniteSet(T) /\ Cardinality(T) = Cardinality(S)
  BY <1>1, FS_Interval
<1>3. f \in [S -> T]
  BY RankType
<1>4. ASSUME NEW a \in S, NEW b \in S, f[a] = f[b]
      PROVE  a = b
  <2>1. a \in Nat /\ b \in Nat /\ Rank(S, a) = Rank(S, b)
    BY <1>4
  <2>2. Rank(S, a) \in Nat /\ Rank(S, b) \in Nat
    BY RankType
  <2>3. CASE a < b
    BY <2>1, <2>2, <2>3, RankGrows
  <2>4. CASE b < a
    BY <2>1, <2>2, <2>4, RankGrows
  <2> QED BY <2>1, <2>3, <2>4
<1>5. f \in Injection(S, T)
  BY <1>3, <1>4 DEF Injection, IsInjective
<1>6. f \in Surjection(S, T)
  BY <1>2, <1>5, FS_Injection
<1> QED BY <1>6 DEF Surjection

-----------------------------------------------------------------------------
\* A sequence that repeats nothing has as many elements as places.
LEMMA DistinctElements ==
  ASSUME NEW T, NEW s \in Seq(T), \A i, j \in DOMAIN s : s[i] = s[j] => i = j
  PROVE  LET S == {s[i] : i \in DOMAIN s}
         IN  IsFiniteSet(S) /\ Cardinality(S) = Len(s)
<1> DEFINE S == {s[i] : i \in DOMAIN s}
           n == Len(s)
<1>1. n \in Nat /\ DOMAIN s = 1..n
  OBVIOUS
<1>2. IsFiniteSet(1..n) /\ Cardinality(1..n) = n
  BY SMTT(30), <1>1, FS_Interval
<1> DEFINE f == [i \in 1..n |-> s[i]]
<1>3. f \in [1..n -> S]
  BY <1>1
<1>4. \A i, j \in 1..n : f[i] = f[j] => i = j
  BY <1>1
<1>5. \A x \in S : \E i \in 1..n : f[i] = x
  BY <1>1
<1> HIDE DEF f, S, n
<1>6. f \in Bijection(1..n, S)
  BY <1>3, <1>4, <1>5 DEF Bijection, Injection, IsInjective, Surjection
<1>7. ExistsBijection(1..n, S)
  BY <1>6 DEF ExistsBijection
<1>8. IsFiniteSet(S) /\ Cardinality(S) = Cardinality(1..n)
  BY <1>2, <1>7, FS_Bijection
<1> QED BY <1>2, <1>8 DEF S, n

-----------------------------------------------------------------------------
(* Sequences: longer by one element, joined, and cut in two. *)

LEMMA Pushed ==
  ASSUME NEW T, NEW s \in Seq(T), NEW x \in T
  PROVE  LET t == Append(s, x)
         IN  /\ t \in Seq(T) /\ t # <<>> /\ Len(t) = Len(s) + 1 /\ DOMAIN t = 1..(Len(s) + 1)
             /\ \A i \in DOMAIN s : t[i] = s[i]
             /\ t[Len(s) + 1] = x
OBVIOUS

LEMMA Joined ==
  ASSUME NEW T, NEW s \in Seq(T), NEW t \in Seq(T)
  PROVE  /\ s \o t \in Seq(T) /\ Len(s \o t) = Len(s) + Len(t)
         /\ \A i \in 1..Len(s) : (s \o t)[i] = s[i]
         /\ \A i \in 1..Len(t) : (s \o t)[Len(s) + i] = t[i]
OBVIOUS

LEMMA Behead ==
  ASSUME NEW T, NEW s \in Seq(T), s # <<>>
  PROVE  /\ Head(s) = s[1] /\ s[1] \in T /\ Len(s) \in Nat /\ Len(s) >= 1
         /\ Tail(s) \in Seq(T) /\ Len(Tail(s)) = Len(s) - 1
         /\ \A i \in 1..(Len(s) - 1) : Tail(s)[i] = s[i + 1]
<1>1. Len(s) \in Nat /\ Len(s) >= 1 /\ Head(s) = s[1] /\ \A i \in 1..Len(s) : s[i] \in T
  OBVIOUS
<1>2. /\ Tail(s) \in Seq(T) /\ Len(Tail(s)) = Len(s) - 1
      /\ \A i \in 1..Len(Tail(s)) : Tail(s)[i] = s[i + 1]
  OBVIOUS
<1> QED BY <1>1, <1>2

\* The first elements, and the others.
LEMMA Parts ==
  ASSUME NEW T, NEW s \in Seq(T), NEW k \in 0..Len(s)
  PROVE  LET first == SubSeq(s, 1, k)
             rest == SubSeq(s, k + 1, Len(s))
         IN  /\ first \in Seq(T) /\ Len(first) = k /\ (\A i \in 1..k : first[i] = s[i])
             /\ rest \in Seq(T) /\ Len(rest) = Len(s) - k
             /\ \A i \in 1..(Len(s) - k) : rest[i] = s[k + i]
<1>1. Len(s) \in Nat /\ k \in Nat /\ k <= Len(s) /\ \A i \in 1..Len(s) : s[i] \in T
  OBVIOUS
<1>2. SubSeq(s, 1, k) = [i \in 1..k |-> s[i]]
  BY <1>1
<1>3. SubSeq(s, k + 1, Len(s)) = [i \in 1..(Len(s) - k) |-> s[k + i]]
  <2>1. Len(s) - (k + 1) + 1 = Len(s) - k
    BY <1>1
  <2>2. SubSeq(s, k + 1, Len(s)) = [i \in 1..(Len(s) - (k + 1) + 1) |-> s[i + (k + 1) - 1]]
    BY <1>1
  <2>3. \A i \in 1..(Len(s) - k) : i + (k + 1) - 1 = k + i
    BY <1>1
  <2> QED BY <2>1, <2>2, <2>3
<1> QED BY <1>1, <1>2, <1>3


LEMMA SameSequence ==
  ASSUME NEW T, NEW s \in Seq(T), NEW t \in Seq(T), Len(s) = Len(t),
         \A i \in 1..Len(s) : s[i] = t[i]
  PROVE  s = t
<1>1. s = [i \in 1..Len(s) |-> s[i]] /\ t = [i \in 1..Len(t) |-> t[i]]
  OBVIOUS
<1> QED BY <1>1

LEMMA JoinedOnce ==
  ASSUME NEW T, NEW s \in Seq(T), NEW t \in Seq(T), NEW u \in Seq(T)
  PROVE  (s \o t) \o u = s \o (t \o u)
<1>1. PICK st, tu, l, r : st = s \o t /\ tu = t \o u /\ l = st \o u /\ r = s \o tu
  OBVIOUS
<1>2. /\ st \in Seq(T) /\ Len(st) = Len(s) + Len(t) /\ (\A i \in 1..Len(s) : st[i] = s[i])
      /\ \A i \in 1..Len(t) : st[Len(s) + i] = t[i]
  BY <1>1, Joined
<1>3. /\ tu \in Seq(T) /\ Len(tu) = Len(t) + Len(u) /\ (\A i \in 1..Len(t) : tu[i] = t[i])
      /\ \A i \in 1..Len(u) : tu[Len(t) + i] = u[i]
  BY <1>1, Joined
<1>4. /\ l \in Seq(T) /\ Len(l) = Len(st) + Len(u) /\ (\A i \in 1..Len(st) : l[i] = st[i])
      /\ \A i \in 1..Len(u) : l[Len(st) + i] = u[i]
  BY <1>1, <1>2, Joined
<1>5. /\ r \in Seq(T) /\ Len(r) = Len(s) + Len(tu) /\ (\A i \in 1..Len(s) : r[i] = s[i])
      /\ \A i \in 1..Len(tu) : r[Len(s) + i] = tu[i]
  BY <1>1, <1>3, Joined
<1>6. Len(s) \in Nat /\ Len(t) \in Nat /\ Len(u) \in Nat
  OBVIOUS
<1>7. Len(l) = Len(s) + Len(t) + Len(u) /\ Len(r) = Len(s) + Len(t) + Len(u)
  BY <1>2, <1>3, <1>4, <1>5, <1>6
<1>8. ASSUME NEW i \in 1..Len(l) PROVE l[i] = r[i]
  <2>1. CASE i <= Len(s)
    <3>1. i \in 1..Len(s) /\ i \in 1..Len(st)
      BY <1>2, <1>6, <2>1
    <3> QED BY <1>2, <1>4, <1>5, <3>1
  <2>2. CASE Len(s) < i /\ i <= Len(s) + Len(t)
    <3>1. PICK k \in 1..Len(t) : i = Len(s) + k
      <4>1. i - Len(s) \in 1..Len(t) /\ i = Len(s) + (i - Len(s))
        BY <1>6, <2>2
      <4> QED BY <4>1
    <3>2. i \in 1..Len(st) /\ k \in 1..Len(tu)
      BY <1>2, <1>3, <1>6, <2>2, <3>1
    <3>3. l[i] = st[i] /\ st[Len(s) + k] = t[k]
      BY <1>2, <1>4, <3>2
    <3>4. r[Len(s) + k] = tu[k] /\ tu[k] = t[k]
      BY <1>3, <1>5, <3>2
    <3> QED BY <3>1, <3>3, <3>4
  <2>3. CASE Len(s) + Len(t) < i
    <3>1. PICK k \in 1..Len(u) : i = Len(s) + Len(t) + k
      <4>1. i - Len(s) - Len(t) \in 1..Len(u) /\ i = Len(s) + Len(t) + (i - Len(s) - Len(t))
        BY <1>6, <1>7, <2>3
      <4> QED BY <4>1
    <3>2. PICK h : h = Len(t) + k
      OBVIOUS
    <3>3. h \in 1..Len(tu) /\ i = Len(st) + k /\ i = Len(s) + h
      BY <1>2, <1>3, <1>6, <3>1, <3>2
    <3>4. l[Len(st) + k] = u[k]
      BY <1>4
    <3>5. r[Len(s) + h] = tu[h] /\ tu[h] = u[k]
      BY <1>3, <1>5, <3>2, <3>3
    <3> QED BY <3>3, <3>4, <3>5
  <2>4. i <= Len(s) \/ (Len(s) < i /\ i <= Len(s) + Len(t)) \/ Len(s) + Len(t) < i
    BY <1>6, <1>7
  <2> QED BY <2>1, <2>2, <2>3, <2>4
<1>9. l = r
  BY <1>4, <1>5, <1>7, <1>8, SameSequence
<1> QED BY <1>1, <1>9

LEMMA Ahead ==
  ASSUME NEW T, NEW x \in T, NEW s \in Seq(T), NEW m, m = <<x>> \o s
  PROVE  m \in Seq(T) /\ m # <<>> /\ Head(m) = x /\ Tail(m) = s
<1>1. PICK one : one = <<x>>
  OBVIOUS
<1>2. one \in Seq(T) /\ Len(one) = 1 /\ one[1] = x
  BY <1>1
<1>3. /\ m \in Seq(T) /\ Len(m) = Len(one) + Len(s) /\ (\A i \in 1..Len(one) : m[i] = one[i])
      /\ \A i \in 1..Len(s) : m[Len(one) + i] = s[i]
  BY <1>1, <1>2, Joined
<1>4. /\ m # <<>> /\ m[1] = x /\ Len(s) \in Nat /\ Len(m) = Len(s) + 1
      /\ \A i \in 1..Len(s) : m[i + 1] = s[i]
  <2>1. Len(s) \in Nat /\ Len(m) = Len(s) + 1 /\ 1 \in 1..Len(one)
    BY <1>2, <1>3
  <2>2. m # <<>>
    BY <2>1
  <2>3. \A i \in 1..Len(s) : i + 1 = 1 + i
    OBVIOUS
  <2> QED BY <1>2, <1>3, <2>1, <2>2, <2>3
<1>5. PICK t : t = Tail(m)
  OBVIOUS
<1>6. /\ Head(m) = m[1] /\ t \in Seq(T) /\ Len(t) = Len(m) - 1
      /\ \A i \in 1..(Len(m) - 1) : t[i] = m[i + 1]
  BY <1>3, <1>4, <1>5, Behead
<1>7. Len(t) = Len(s) /\ \A i \in 1..Len(t) : t[i] = s[i]
  BY <1>4, <1>6
<1>8. t = s
  BY <1>6, <1>7, SameSequence
<1> QED BY <1>3, <1>4, <1>5, <1>6, <1>8

LEMMA JoinedTail ==
  ASSUME NEW T, NEW s \in Seq(T), s # <<>>, NEW t \in Seq(T), NEW w, w = s \o t
  PROVE  w \in Seq(T) /\ w # <<>> /\ Head(w) = Head(s) /\ Tail(w) = Tail(s) \o t
<1>1. /\ w \in Seq(T) /\ Len(w) = Len(s) + Len(t) /\ (\A i \in 1..Len(s) : w[i] = s[i])
      /\ \A i \in 1..Len(t) : w[Len(s) + i] = t[i]
  BY Joined
<1>2. Len(s) \in Nat /\ Len(s) >= 1 /\ Len(t) \in Nat /\ Len(w) \in Nat /\ w # <<>>
  <2>1. Len(s) \in Nat /\ Len(s) >= 1 /\ Len(t) \in Nat
    OBVIOUS
  <2>2. Len(w) # 0 /\ Len(w) \in Nat
    BY <1>1, <2>1
  <2> QED BY <2>1, <2>2
<1>3. PICK ts, tw, r : ts = Tail(s) /\ tw = Tail(w) /\ r = ts \o t
  OBVIOUS
<1>4. /\ Head(s) = s[1] /\ ts \in Seq(T) /\ Len(ts) = Len(s) - 1
      /\ \A i \in 1..(Len(s) - 1) : ts[i] = s[i + 1]
  BY <1>3, Behead
<1>5. /\ Head(w) = w[1] /\ tw \in Seq(T) /\ Len(tw) = Len(w) - 1
      /\ \A i \in 1..(Len(w) - 1) : tw[i] = w[i + 1]
  BY <1>1, <1>2, <1>3, Behead
<1>6. /\ r \in Seq(T) /\ Len(r) = Len(ts) + Len(t) /\ (\A i \in 1..Len(ts) : r[i] = ts[i])
      /\ \A i \in 1..Len(t) : r[Len(ts) + i] = t[i]
  BY <1>3, <1>4, Joined
<1>7. Len(tw) = Len(s) + Len(t) - 1 /\ Len(r) = Len(s) + Len(t) - 1
  BY <1>1, <1>2, <1>4, <1>5, <1>6
<1>8. ASSUME NEW i \in 1..Len(tw) PROVE tw[i] = r[i]
  <2>1. tw[i] = w[i + 1]
    BY <1>1, <1>2, <1>5, <1>7
  <2>2. CASE i <= Len(s) - 1
    <3>1. i \in 1..(Len(s) - 1) /\ i \in 1..Len(ts) /\ i + 1 \in 1..Len(s)
      BY <1>2, <1>4, <2>2
    <3>2. w[i + 1] = s[i + 1] /\ ts[i] = s[i + 1] /\ r[i] = ts[i]
      BY <1>1, <1>4, <1>6, <3>1
    <3> QED BY <2>1, <3>2
  <2>3. CASE Len(s) <= i
    <3>1. PICK k \in 1..Len(t) : i + 1 = Len(s) + k /\ i = Len(ts) + k
      <4>1. /\ i - Len(s) + 1 \in 1..Len(t) /\ i + 1 = Len(s) + (i - Len(s) + 1)
            /\ i = Len(ts) + (i - Len(s) + 1)
        BY <1>2, <1>4, <1>7, <2>3
      <4> QED BY <4>1
    <3>2. w[Len(s) + k] = t[k] /\ r[Len(ts) + k] = t[k]
      BY <1>1, <1>6
    <3> QED BY <2>1, <3>1, <3>2
  <2>4. i <= Len(s) - 1 \/ Len(s) <= i
    BY <1>2
  <2> QED BY <2>2, <2>3, <2>4
<1>9. tw = r
  BY <1>5, <1>6, <1>7, <1>8, SameSequence
<1>10. Head(w) = Head(s)
  <2>1. 1 \in 1..Len(s)
    BY <1>2
  <2> QED BY <1>1, <1>4, <1>5, <2>1
<1> QED BY <1>1, <1>2, <1>3, <1>9, <1>10


\* Another element in the place of the last.
LastReplaced(s, x) == [s EXCEPT ![Len(s)] = x]

LEMMA Replaced ==
  ASSUME NEW T, NEW s \in Seq(T), s # <<>>, NEW x \in T, NEW t, t = LastReplaced(s, x)
  PROVE  /\ t \in Seq(T) /\ t # <<>> /\ Len(t) = Len(s) /\ Last(t) = x /\ Last(s) \in T
<1>1. Len(s) \in Nat /\ Len(s) >= 1 /\ DOMAIN s = 1..Len(s) /\ \A i \in 1..Len(s) : s[i] \in T
  OBVIOUS
<1>2. t \in Seq(T) /\ Len(t) = Len(s) /\ t[Len(s)] = x
  <2>1. PICK z : z = [s EXCEPT ![Len(s)] = x]
    OBVIOUS
  <2>2. z \in Seq(T) /\ Len(z) = Len(s) /\ z[Len(s)] = x
    BY <1>1, <2>1
  <2>3. t = z
    BY <2>1 DEF LastReplaced
  <2> QED BY <1>1, <2>2, <2>3
<1>3. Len(t) # 0 /\ t # <<>> /\ Len(s) \in 1..Len(s)
  BY <1>1, <1>2
<1> QED BY <1>1, <1>2, <1>3 DEF Last

LEMMA ReplacedAgain ==
  ASSUME NEW T, NEW s \in Seq(T), s # <<>>, NEW x \in T, NEW y \in T,
         NEW t, t = LastReplaced(s, x),
         NEW a, a = LastReplaced(t, y), NEW b, b = LastReplaced(s, y)
  PROVE  a = b
<1>1. t \in Seq(T) /\ t # <<>> /\ Len(t) = Len(s) /\ Last(t) = x
  BY Replaced
<1>3. a \in Seq(T) /\ Len(a) = Len(s) /\ b \in Seq(T) /\ Len(b) = Len(s)
  BY <1>1, Replaced
<1>4. Len(s) \in Nat /\ Len(s) >= 1 /\ DOMAIN s = 1..Len(s) /\ DOMAIN t = 1..Len(s)
  BY <1>1
<1>5. \A i \in 1..Len(a) : a[i] = b[i]
  BY <1>1, <1>3, <1>4 DEF LastReplaced, Last
<1> QED BY <1>3, <1>5, SameSequence

\* The last of a longer sequence, put there instead of another.
LEMMA ReplacedPushed ==
  ASSUME NEW T, NEW s \in Seq(T), NEW y \in T,
         NEW t \in Seq(T), t # <<>>, Len(t) = Len(s) + 1, \A i \in 1..Len(s) : t[i] = s[i],
         NEW a, a = LastReplaced(t, y), NEW b, b = Append(s, y)
  PROVE  a = b
<1>1. PICK n : n = Len(s)
  OBVIOUS
<1>2. n \in Nat /\ DOMAIN t = 1..(n + 1) /\ Len(t) = n + 1 /\ \A i \in 1..n : t[i] = s[i]
  BY <1>1
<1>3. b \in Seq(T) /\ Len(b) = n + 1 /\ b[n + 1] = y /\ \A i \in 1..n : b[i] = s[i]
  BY <1>1
<1>4. a \in Seq(T) /\ Len(a) = n + 1 /\ a[n + 1] = y
  <2>1. a \in Seq(T) /\ Len(a) = Len(t) /\ Last(a) = y
    BY Replaced
  <2> QED BY <1>2, <2>1 DEF Last
<1>5. n \in Nat /\ \A i \in 1..n : a[i] = t[i]
  <2>1. n \in Nat /\ a = [t EXCEPT ![n + 1] = y]
    BY <1>1, <1>2 DEF LastReplaced
  <2>2. \A i \in 1..n : i \in DOMAIN t /\ i # n + 1
    BY <1>2, <2>1
  <2> QED BY <2>1, <2>2
<1>6. \A i \in 1..Len(a) : a[i] = b[i]
  <2> SUFFICES ASSUME NEW i \in 1..(n + 1) PROVE a[i] = b[i]
    BY <1>4
  <2>1. i = n + 1 \/ i \in 1..n
    BY <1>5
  <2> QED BY <1>2, <1>3, <1>4, <1>5, <2>1
<1> QED BY <1>3, <1>4, <1>6, SameSequence


\* The first elements, one by one.
LEMMA FirstOnes ==
  ASSUME NEW T, NEW s \in Seq(T)
  PROVE  /\ SubSeq(s, 1, 0) = <<>> /\ SubSeq(s, 1, Len(s)) = s
         /\ \A k \in 0..Len(s) : SubSeq(s, 1, k) \in Seq(T) /\ Len(SubSeq(s, 1, k)) = k
OBVIOUS

LEMMA OneMore ==
  ASSUME NEW T, NEW s \in Seq(T), NEW k \in 0..(Len(s) - 1)
  PROVE  SubSeq(s, 1, k + 1) = Append(SubSeq(s, 1, k), s[k + 1])
<1>1. Len(s) \in Nat /\ k \in Nat /\ k + 1 \in 0..Len(s) /\ k \in 0..Len(s) /\ s[k + 1] \in T
  OBVIOUS
<1>2. PICK a, b, c : a = SubSeq(s, 1, k) /\ b = SubSeq(s, 1, k + 1) /\ c = Append(a, s[k + 1])
  OBVIOUS
<1>3. a \in Seq(T) /\ Len(a) = k /\ \A i \in 1..k : a[i] = s[i]
  BY <1>1, <1>2, Parts
<1>4. b \in Seq(T) /\ Len(b) = k + 1 /\ \A i \in 1..(k + 1) : b[i] = s[i]
  <2>1. PICK h : h = k + 1
    OBVIOUS
  <2>2. b = SubSeq(s, 1, h) /\ h \in 0..Len(s)
    BY <1>1, <1>2, <2>1
  <2>3. b \in Seq(T) /\ Len(b) = h /\ \A i \in 1..h : b[i] = s[i]
    BY <2>2, Parts
  <2> QED BY <2>1, <2>3
<1>5. c \in Seq(T) /\ Len(c) = k + 1 /\ c[k + 1] = s[k + 1] /\ \A i \in 1..k : c[i] = a[i]
  BY <1>1, <1>2, <1>3
<1>6. \A i \in 1..(k + 1) : b[i] = c[i]
  <2> SUFFICES ASSUME NEW i \in 1..(k + 1) PROVE b[i] = c[i]
    OBVIOUS
  <2>1. i = k + 1 \/ i \in 1..k
    BY <1>1
  <2> QED BY <1>3, <1>4, <1>5, <2>1
<1>7. b = c
  BY <1>4, <1>5, <1>6, SameSequence
<1> QED BY <1>2, <1>7


LEMMA ReplacedIs ==
  ASSUME NEW T, NEW s \in Seq(T), s # <<>>, NEW x \in T
  PROVE  LastReplaced(s, x) = Front(s) \o <<x>>
<1>1. PICK n, r, h, w : /\ n = Len(s) /\ r = LastReplaced(s, x) /\ h = Front(s) /\ w = h \o <<x>>
  OBVIOUS
<1>2. n \in Nat /\ n >= 1 /\ DOMAIN s = 1..n
  BY <1>1
<1>3. h \in Seq(T) /\ Len(h) = n - 1 /\ \A i \in 1..(n - 1) : h[i] = s[i]
  <2>1. PICK g : g = SubSeq(s, 1, n - 1)
    OBVIOUS
  <2>2. g \in Seq(T) /\ Len(g) = n - 1 /\ \A i \in 1..(n - 1) : g[i] = s[i]
    BY <1>1, <1>2, <2>1
  <2> QED BY <1>1, <2>1, <2>2 DEF Front
<1>4. w \in Seq(T) /\ Len(w) = n /\ w[n] = x /\ \A i \in 1..(n - 1) : w[i] = h[i]
  <2>1. w = Append(h, x)
    BY <1>1, <1>3
  <2>2. w \in Seq(T) /\ Len(w) = Len(h) + 1 /\ w[Len(h) + 1] = x /\ \A i \in DOMAIN h : w[i] = h[i]
    BY <1>3, <2>1
  <2>3. DOMAIN h = 1..(n - 1) /\ Len(h) + 1 = n
    BY <1>2, <1>3
  <2> QED BY <2>2, <2>3
<1>5. r \in Seq(T) /\ Len(r) = n /\ r[n] = x /\ \A i \in 1..(n - 1) : r[i] = s[i]
  <2>1. PICK z : z = [s EXCEPT ![n] = x]
    OBVIOUS
  <2>2. z \in Seq(T) /\ Len(z) = n /\ z[n] = x /\ \A i \in 1..(n - 1) : z[i] = s[i]
    BY <1>1, <1>2, <2>1
  <2> QED BY <1>1, <2>1, <2>2 DEF LastReplaced
<1>6. \A i \in 1..n : r[i] = w[i]
  <2> SUFFICES ASSUME NEW i \in 1..n PROVE r[i] = w[i]
    OBVIOUS
  <2>1. i = n \/ i \in 1..(n - 1)
    BY <1>2
  <2> QED BY <1>3, <1>4, <1>5, <2>1
<1>7. r = w
  BY <1>4, <1>5, <1>6, SameSequence
<1> QED BY <1>1, <1>7


LEMMA NoElements == ASSUME NEW T, NEW s \in Seq(T), Len(s) = 0 PROVE s = <<>>
OBVIOUS

-----------------------------------------------------------------------------
(* Walks: each step from the one before. *)

\* What gives each step of a walk from 0 to n its value, from the value before.
StepRules(n, T) == [(1..n) \X T -> T]
IsWalk(f, n, T, a, G) ==
  f \in [0..n -> T] /\ f[0] = a /\ \A i \in 1..n : f[i] = G[<<i, f[i - 1]>>]

LEMMA StepByStep ==
  ASSUME NEW n \in Nat, NEW T, NEW a \in T, NEW G \in StepRules(n, T)
  PROVE  \E f : IsWalk(f, n, T, a, G)
<1> DEFINE Walk(k) ==
             \E f \in [0..k -> T] : f[0] = a /\ \A i \in 1..k : f[i] = G[<<i, f[i - 1]>>]
           Bad == {k \in 0..n : ~Walk(k)}
<1>1. SUFFICES ASSUME Bad # {} PROVE FALSE
  <2>1. n \in 0..n
    OBVIOUS
  <2> QED BY SMTT(30), <2>1 DEF IsWalk
<1>2. PICK k \in Bad : \A j \in Bad : k <= j
  <2>1. Bad \in SUBSET Nat
    OBVIOUS
  <2> HIDE DEF Bad
  <2> QED BY <1>1, <2>1, Least
<1>3. CASE k = 0
  <2>1. PICK f : f = [i \in 0..0 |-> a]
    OBVIOUS
  <2>2. f \in [0..0 -> T] /\ f[0] = a
    BY <2>1
  <2>3. Walk(0)
    BY <2>2
  <2> QED BY <1>3, <2>3
<1>4. CASE k # 0
  <2>1. k \in 1..n /\ k - 1 \in 0..n /\ k - 1 \notin Bad /\ k \in Int
    <3>1. k \in 1..n /\ k - 1 \in 0..n /\ ~(k <= k - 1)
      BY <1>4
    <3> QED BY SMTT(30), <1>2, <3>1
  <2>2. PICK f \in [0..(k - 1) -> T] : f[0] = a /\ \A i \in 1..(k - 1) : f[i] = G[<<i, f[i - 1]>>]
    BY <2>1
  <2>3. PICK g : g = [i \in 0..k |-> IF i = k THEN G[<<k, f[k - 1]>>] ELSE f[i]]
    OBVIOUS
  <2>4. f[k - 1] \in T /\ G[<<k, f[k - 1]>>] \in T
    BY <2>1, <2>2 DEF StepRules
  <2>5. /\ \A i \in 0..(k - 1) : g[i] = f[i] /\ f[i] \in T
        /\ g[k] = G[<<k, f[k - 1]>>]
    BY <2>1, <2>2, <2>3
  <2>6. g \in [0..k -> T]
    BY <2>1, <2>2, <2>3, <2>4
  <2>7. g[0] = a
    BY <2>1, <2>2, <2>5
  <2>8. ASSUME NEW i \in 1..k PROVE g[i] = G[<<i, g[i - 1]>>]
    <3>1. CASE i = k
      <4>1. g[k - 1] = f[k - 1]
        BY <2>1, <2>5
      <4> QED BY <2>5, <3>1, <4>1
    <3>2. CASE i # k
      <4>1. i \in 1..(k - 1) /\ i \in 0..(k - 1) /\ i - 1 \in 0..(k - 1)
        BY <2>1, <3>2
      <4> QED BY <2>2, <2>5, <4>1
    <3> QED BY <3>1, <3>2
  <2>9. Walk(k)
    BY <2>6, <2>7, <2>8
  <2> QED BY <2>9
<1> QED BY <1>3, <1>4

\* Two such walks are the same as far as they go.
InParallel(f, g, n) ==
  f[0] = g[0] /\ \A i \in 1..n : f[i - 1] = g[i - 1] => f[i] = g[i]

LEMMA SameSteps ==
  ASSUME NEW n \in Nat, NEW f, NEW g, InParallel(f, g, n)
  PROVE  \A i \in 0..n : f[i] = g[i]
<1> DEFINE Bad == {i \in 0..n : f[i] # g[i]}
<1>1. SUFFICES ASSUME Bad # {} PROVE FALSE
  OBVIOUS
<1>2. PICK k \in Bad : \A j \in Bad : k <= j
  <2>1. Bad \in SUBSET Nat
    OBVIOUS
  <2> HIDE DEF Bad
  <2> QED BY <1>1, <2>1, Least
<1>3. k # 0 /\ k \in 0..n
  BY DEF InParallel
<1>4. k \in 1..n /\ k - 1 \in 0..n /\ ~(k <= k - 1)
  BY <1>3
<1>5. k - 1 \notin Bad
  BY <1>2, <1>4
<1> QED BY <1>4, <1>5 DEF InParallel

-----------------------------------------------------------------------------
(* Sequences joined one after the other. *)

\* FlattenSeq, as a walk that begins with nothing.
LEMMA FlatWalk ==
  ASSUME NEW T, NEW ss \in Seq(Seq(T))
  PROVE  \E f :
           /\ \A i \in 0..Len(ss) : f[i] \in Seq(T)
           /\ f[0] = <<>> /\ \A i \in 1..Len(ss) : f[i] = f[i - 1] \o ss[i]
           /\ FlattenSeq(ss) = f[Len(ss)]
<1>1. PICK n \in Nat : n = Len(ss)
  OBVIOUS
<1>2. \A i \in 1..n : ss[i] \in Seq(T)
  BY <1>1
<1>3. PICK G : G = [p \in (1..n) \X Seq(T) |-> p[2] \o ss[p[1]]]
  OBVIOUS
<1>4. G \in [(1..n) \X Seq(T) -> Seq(T)]
  <2>1. ASSUME NEW p \in (1..n) \X Seq(T) PROVE p[2] \o ss[p[1]] \in Seq(T)
    <3>1. p[2] \in Seq(T) /\ ss[p[1]] \in Seq(T)
      BY <1>2
    <3> QED BY <3>1, Joined
  <2> QED BY <1>3, <2>1
<1>5. <<>> \in Seq(T)
  OBVIOUS
<1>6. PICK f \in [0..n -> Seq(T)] : f[0] = <<>> /\ \A i \in 1..n : f[i] = G[<<i, f[i - 1]>>]
  <2>1. PICK D : D = Seq(T)
    OBVIOUS
  <2>2. G \in StepRules(n, D)
    BY <1>4, <2>1 DEF StepRules
  <2>3. PICK a \in D : a = <<>>
    BY <1>5, <2>1
  <2>4. \E f : IsWalk(f, n, D, a, G)
    BY <2>2, StepByStep
  <2> QED BY <2>1, <2>3, <2>4 DEF IsWalk
<1>7. ASSUME NEW i \in 1..n PROVE f[i] = f[i - 1] \o ss[i]
  <2>1. i - 1 \in 0..n
    OBVIOUS
  <2>2. <<i, f[i - 1]>> \in (1..n) \X Seq(T)
    BY <1>6, <2>1
  <2> QED BY <1>3, <1>6, <2>2
<1>8. FlattenSeq(ss) = f[n]
  <2>1. CASE n = 0
    <3>1. ss = <<>>
      BY <1>1, <2>1, NoElements
    <3> QED BY <1>1, <1>5, <1>6, <2>1, <3>1 DEF FlattenSeq
  <2>2. CASE n # 0
    <3> DEFINE Is(h) == h = [i \in 1..n |-> IF i = 1 THEN ss[i] ELSE h[i - 1] \o ss[i]]
    <3>1. PICK g : g = [i \in 1..n |-> f[i]]
      OBVIOUS
    <3>2. \A i \in 1..n : g[i] = IF i = 1 THEN ss[i] ELSE g[i - 1] \o ss[i]
      <4> SUFFICES ASSUME NEW i \in 1..n PROVE g[i] = IF i = 1 THEN ss[i] ELSE g[i - 1] \o ss[i]
        OBVIOUS
      <4>1. CASE i = 1
        <5>1. <<>> \o ss[1] = ss[1]
          BY <1>2, <4>1
        <5>2. i - 1 = 0
          BY <4>1
        <5> QED BY <1>5, <1>6, <1>7, <3>1, <4>1, <5>1, <5>2
      <4>2. CASE i # 1
        <5>1. i - 1 \in 1..n
          BY <4>2
        <5> QED BY <1>7, <3>1, <4>2, <5>1
      <4> QED BY <4>1, <4>2
    <3>3. g = [i \in 1..n |-> IF i = 1 THEN ss[i] ELSE g[i - 1] \o ss[i]]
      <4>1. g = [i \in 1..n |-> g[i]]
        BY <3>1
      <4> QED BY <3>2, <4>1
    <3>4. PICK h : h = CHOOSE j : Is(j)
      OBVIOUS
    <3>5. Is(h)
      BY <3>3, <3>4
    <3>6. FlattenSeq(ss) = h[n]
      BY <1>1, <2>2, <3>4 DEF FlattenSeq
    <3>7. \A i \in 1..n : h[i] = IF i = 1 THEN ss[i] ELSE h[i - 1] \o ss[i]
      BY <3>5
    <3>8. PICK k : k = [i \in 0..n |-> IF i = 0 THEN <<>> ELSE h[i]]
      OBVIOUS
    <3>9. \A i \in 1..n : k[i] = k[i - 1] \o ss[i]
      <4> SUFFICES ASSUME NEW i \in 1..n PROVE k[i] = k[i - 1] \o ss[i]
        OBVIOUS
      <4>1. CASE i = 1
        <5>1. <<>> \o ss[1] = ss[1]
          BY <1>2, <4>1
        <5>2. k[1] = h[1] /\ k[0] = <<>> /\ h[1] = ss[1] /\ i - 1 = 0
          BY <3>7, <3>8, <4>1
        <5> QED BY <4>1, <5>1, <5>2
      <4>2. CASE i # 1
        <5>1. i - 1 \in 1..n /\ i \in 0..n /\ i - 1 \in 0..n /\ i - 1 # 0 /\ i # 0
          BY <4>2
        <5> QED BY <3>7, <3>8, <4>2, <5>1
      <4> QED BY <4>1, <4>2
    <3>10. InParallel(k, f, n)
      <4>1. k[0] = f[0]
        BY <1>5, <1>6, <3>8
      <4>2. ASSUME NEW i \in 1..n, k[i - 1] = f[i - 1] PROVE k[i] = f[i]
        <5>1. k[i] = k[i - 1] \o ss[i]
          BY <3>9
        <5>2. f[i] = f[i - 1] \o ss[i]
          BY <1>7
        <5> QED BY <4>2, <5>1, <5>2
      <4> QED BY <4>1, <4>2 DEF InParallel
    <3>11. k[n] = f[n]
      <4>1. n \in 0..n
        OBVIOUS
      <4> QED BY <3>10, <4>1, SameSteps
    <3> QED BY <2>2, <3>6, <3>8, <3>11
  <2> QED BY <2>1, <2>2
<1>9. \A i \in 0..n : f[i] \in Seq(T)
  BY <1>6
<1> QED BY <1>1, <1>6, <1>7, <1>8, <1>9

LEMMA FlatNothing == FlattenSeq(<<>>) = <<>>
BY DEF FlattenSeq

LEMMA FlatType ==
  ASSUME NEW T, NEW ss \in Seq(Seq(T))
  PROVE  FlattenSeq(ss) \in Seq(T)
<1>1. PICK f : (\A i \in 0..Len(ss) : f[i] \in Seq(T)) /\ FlattenSeq(ss) = f[Len(ss)]
  BY FlatWalk
<1>2. Len(ss) \in 0..Len(ss)
  OBVIOUS
<1> QED BY <1>1, <1>2

LEMMA FlatMore ==
  ASSUME NEW T, NEW ss \in Seq(Seq(T)), NEW t \in Seq(T)
  PROVE  FlattenSeq(Append(ss, t)) = FlattenSeq(ss) \o t
<1>a. PICK n \in Nat : n = Len(ss)
  OBVIOUS
<1>b. PICK rr : rr = Append(ss, t)
  OBVIOUS
<1>1. n = Len(ss) /\ rr = Append(ss, t)
  BY <1>a, <1>b
<1>2. /\ rr \in Seq(Seq(T)) /\ Len(rr) = n + 1 /\ rr[n + 1] = t
      /\ \A i \in 1..n : rr[i] = ss[i]
  BY <1>1, Pushed
<1>3. PICK f :
        /\ \A i \in 0..n : f[i] \in Seq(T)
        /\ f[0] = <<>> /\ \A i \in 1..n : f[i] = f[i - 1] \o ss[i]
        /\ FlattenSeq(ss) = f[n]
  BY <1>1, FlatWalk
<1>4. PICK g :
        /\ \A i \in 0..(n + 1) : g[i] \in Seq(T)
        /\ g[0] = <<>> /\ \A i \in 1..(n + 1) : g[i] = g[i - 1] \o rr[i]
        /\ FlattenSeq(rr) = g[n + 1]
  <2>1. \E g :
          /\ \A i \in 0..Len(rr) : g[i] \in Seq(T)
          /\ g[0] = <<>> /\ \A i \in 1..Len(rr) : g[i] = g[i - 1] \o rr[i]
          /\ FlattenSeq(rr) = g[Len(rr)]
    BY <1>2, FlatWalk
  <2>2. Len(rr) = n + 1
    BY <1>2
  <2> QED BY <2>1, <2>2
<1>5. ASSUME NEW i \in 1..n, f[i - 1] = g[i - 1] PROVE f[i] = g[i]
  <2>1. f[i] = f[i - 1] \o ss[i] /\ rr[i] = ss[i]
    BY <1>2, <1>3
  <2>2. g[i] = g[i - 1] \o rr[i]
    <3>1. i \in 1..(n + 1)
      OBVIOUS
    <3> QED BY <1>4, <3>1
  <2> QED BY <1>5, <2>1, <2>2
<1>6. f[n] = g[n]
  <2>1. n \in 0..n
    OBVIOUS
  <2>2. InParallel(f, g, n)
    BY <1>3, <1>4, <1>5 DEF InParallel
  <2>3. \A i \in 0..n : f[i] = g[i]
    BY <2>2, SameSteps
  <2> QED BY <2>1, <2>3
<1>7. g[n + 1] = g[n] \o t
  <2>1. n + 1 \in 1..(n + 1) /\ (n + 1) - 1 = n
    OBVIOUS
  <2> QED BY <1>2, <1>4, <2>1
<1> QED BY <1>1, <1>3, <1>4, <1>6, <1>7

-----------------------------------------------------------------------------
(* PlacesIn in sequences, and how they are counted. *)

\* The places that hold one of some elements, and these with the numbers of the places.
PlacesIn(s, C) == {i \in DOMAIN s : s[i] \in C}
Numbered(s, C) == {<<Rank(PlacesIn(s, C), i), s[i]>> : i \in PlacesIn(s, C)}

\* Numbers, and numbered elements, moved on by n.
Moved(n, B) == {n + i : i \in B}
MovedOn(n, N) == {<<n + p[1], p[2]>> : p \in N}

AllUpTo(n, A) == n \in Nat /\ A \in SUBSET (1..n)
AddUp(A, B, W) ==
  /\ IsFiniteSet(A) /\ IsFiniteSet(B) /\ IsFiniteSet(W)
  /\ Cardinality(A) \in Nat /\ Cardinality(B) \in Nat
  /\ Cardinality(W) = Cardinality(A) + Cardinality(B)

LEMMA ShiftedUnion ==
  ASSUME NEW n, NEW m, NEW A, NEW B, AllUpTo(n, A), AllUpTo(m, B)
  PROVE  AddUp(A, B, A \cup Moved(n, B))
<1> USE DEF AllUpTo, AddUp
<1>0. PICK U : U = Moved(n, B)
  OBVIOUS
<1>1. IsFiniteSet(A) /\ IsFiniteSet(B)
  <2>1. IsFiniteSet(1..n) /\ IsFiniteSet(1..m)
    BY FS_Interval
  <2> QED BY <2>1, FS_Subset
<1>u. U = {n + i : i \in B}
  BY <1>0 DEF Moved
<1>2. IsFiniteSet(U) /\ Cardinality(U) = Cardinality(B)
  <2>1. PICK f : f = [i \in B |-> n + i]
    OBVIOUS
  <2>2. f \in [B -> U] /\ \A i \in B : f[i] = n + i
    BY <2>1, <1>u
  <2>3. \A a, b \in B : f[a] = f[b] => a = b
    BY <2>2
  <2>4. \A u \in U : \E i \in B : f[i] = u
    BY <2>2, <1>u
  <2>5. f \in Bijection(B, U)
    BY <2>2, <2>3, <2>4 DEF Bijection, Injection, IsInjective, Surjection
  <2>6. ExistsBijection(B, U)
    BY <2>5 DEF ExistsBijection
  <2> QED BY <1>1, <2>6, FS_Bijection
<1>3. A \cap U = {}
  BY <1>u
<1>4. /\ IsFiniteSet(A \cup U) /\ Cardinality(A) \in Nat /\ Cardinality(B) \in Nat
      /\ Cardinality(A \cup U) = Cardinality(A) + Cardinality(U) - Cardinality(A \cap U)
  BY <1>1, <1>2, FS_Union, FS_CardinalityType
<1> QED BY <1>0, <1>1, <1>2, <1>3, <1>4, FS_EmptySet

LEMMA PlacesType ==
  ASSUME NEW T, NEW s \in Seq(T), NEW C
  PROVE  /\ PlacesIn(s, C) \in SUBSET (1..Len(s)) /\ PlacesIn(s, C) \in SUBSET Nat
         /\ IsFiniteSet(PlacesIn(s, C)) /\ Cardinality(PlacesIn(s, C)) \in Nat
<1>1. PlacesIn(s, C) \in SUBSET (1..Len(s)) /\ Len(s) \in Nat
  BY DEF PlacesIn
<1>2. IsFiniteSet(1..Len(s))
  BY <1>1, FS_Interval
<1> QED BY <1>1, <1>2, FS_Subset, FS_CardinalityType

LEMMA PlacesJoined ==
  ASSUME NEW T, NEW s \in Seq(T), NEW t \in Seq(T), NEW C
  PROVE  /\ PlacesIn(s \o t, C) = PlacesIn(s, C) \cup Moved(Len(s), PlacesIn(t, C))
         /\ Cardinality(PlacesIn(s \o t, C)) = Cardinality(PlacesIn(s, C)) + Cardinality(PlacesIn(t, C))
<1>1. PICK w : w = s \o t
  OBVIOUS
<1>2. PICK n \in Nat, m \in Nat : n = Len(s) /\ m = Len(t)
  OBVIOUS
<1>3. /\ w \in Seq(T) /\ Len(w) = n + m
      /\ \A i \in 1..n : w[i] = s[i]
      /\ \A i \in 1..m : w[n + i] = t[i]
  BY <1>1, <1>2, Joined
<1>4. DOMAIN w = 1..(n + m) /\ DOMAIN s = 1..n /\ DOMAIN t = 1..m
  BY <1>2, <1>3
<1>5. ASSUME NEW k
      PROVE  k \in PlacesIn(w, C) <=> k \in PlacesIn(s, C) \cup Moved(n, PlacesIn(t, C))
  <2>1. CASE k \in 1..n
    <3>1. ~\E i \in 1..m : k = n + i
      BY <2>1
    <3> QED BY <1>3, <1>4, <2>1, <3>1 DEF PlacesIn, Moved
  <2>2. CASE k \in (n + 1)..(n + m)
    <3>1. PICK i \in 1..m : k = n + i
      <4>1. k - n \in 1..m /\ k = n + (k - n)
        BY <2>2
      <4> QED BY <4>1
    <3>2. k \notin 1..n /\ \A j \in 1..m : k = n + j => j = i
      BY <2>2, <3>1
    <3>3. k \in PlacesIn(w, C) <=> i \in PlacesIn(t, C)
      BY <1>3, <1>4, <2>2, <3>1 DEF PlacesIn
    <3>4. k \notin PlacesIn(s, C)
      BY <1>4, <3>2 DEF PlacesIn
    <3>5. PlacesIn(t, C) \subseteq 1..m
      BY <1>4 DEF PlacesIn
    <3>6. k \in Moved(n, PlacesIn(t, C)) <=> i \in PlacesIn(t, C)
      BY <3>1, <3>2, <3>5 DEF Moved
    <3> QED BY <3>3, <3>4, <3>6
  <2>3. CASE k \notin 1..(n + m)
    <3>1. k \notin 1..n /\ ~\E i \in 1..m : k = n + i
      BY <2>3
    <3> QED BY <1>4, <2>3, <3>1 DEF PlacesIn, Moved
  <2>4. k \in 1..(n + m) => k \in 1..n \/ k \in (n + 1)..(n + m)
    OBVIOUS
  <2> QED BY <2>1, <2>2, <2>3, <2>4
<1>6. PlacesIn(w, C) = PlacesIn(s, C) \cup Moved(n, PlacesIn(t, C))
  BY <1>5
<1>7. AllUpTo(n, PlacesIn(s, C)) /\ AllUpTo(m, PlacesIn(t, C))
  BY <1>2, PlacesType DEF AllUpTo
<1>8. PICK A, B : A = PlacesIn(s, C) /\ B = PlacesIn(t, C)
  OBVIOUS
<1>9. Cardinality(A \cup Moved(n, B)) = Cardinality(A) + Cardinality(B)
  <2>1. AllUpTo(n, A) /\ AllUpTo(m, B)
    BY <1>7, <1>8
  <2>2. AddUp(A, B, A \cup Moved(n, B))
    BY <2>1, ShiftedUnion
  <2> QED BY <2>2 DEF AddUp
<1> QED BY <1>1, <1>2, <1>6, <1>8, <1>9

LEMMA RanksJoined ==
  ASSUME NEW T, NEW s \in Seq(T), NEW t \in Seq(T), NEW C
  PROVE  /\ \A i \in PlacesIn(s, C) : Rank(PlacesIn(s \o t, C), i) = Rank(PlacesIn(s, C), i)
         /\ \A i \in PlacesIn(t, C) : Rank(PlacesIn(s \o t, C), Len(s) + i)
                                      = Cardinality(PlacesIn(s, C)) + Rank(PlacesIn(t, C), i)
<1>1. PICK n \in Nat, m \in Nat : n = Len(s) /\ m = Len(t)
  OBVIOUS
<1>2. PICK A \in SUBSET (1..n), B \in SUBSET (1..m) : A = PlacesIn(s, C) /\ B = PlacesIn(t, C)
  BY <1>1, PlacesType
<1>0. PICK W : W = PlacesIn(s \o t, C)
  OBVIOUS
<1>3. W = A \cup Moved(n, B)
  BY <1>0, <1>1, <1>2, PlacesJoined
<1>4. ASSUME NEW i \in A PROVE Rank(W, i) = Rank(A, i)
  <2>1. {k \in W : k <= i} = {k \in A : k <= i}
    <3>1. \A k \in Moved(n, B) : ~(k <= i)
      BY DEF Moved
    <3> QED BY <1>3, <3>1
  <2> QED BY <2>1 DEF Rank
<1>5. ASSUME NEW i \in B PROVE Rank(W, n + i) = Cardinality(A) + Rank(B, i)
  <2>1. PICK D \in SUBSET (1..m) : D = {k \in B : k <= i}
    OBVIOUS
  <2>2. {k \in W : k <= n + i} = A \cup Moved(n, D)
    <3>1. \A k \in A : k <= n + i
      OBVIOUS
    <3>2. ASSUME NEW x \in W, x <= n + i PROVE x \in A \cup Moved(n, D)
      <4>1. CASE x \in A
        BY <4>1
      <4>2. ASSUME NEW k \in B, x = n + k PROVE x \in Moved(n, D)
        <5>1. k <= i
          BY <3>2, <4>2
        <5> QED BY <2>1, <4>2, <5>1 DEF Moved
      <4> QED BY <1>3, <4>1, <4>2 DEF Moved
    <3>3. ASSUME NEW k \in D PROVE n + k \in W /\ n + k <= n + i
      <4>1. k \in B /\ k <= i
        BY <2>1
      <4>2. n + k <= n + i
        BY <4>1
      <4> QED BY <1>3, <4>1, <4>2 DEF Moved
    <3>4. \A x \in A : x \in W
      BY <1>3
    <3>5. \A x \in Moved(n, D) : x \in W /\ x <= n + i
      BY <3>3 DEF Moved
    <3> QED BY <3>1, <3>2, <3>4, <3>5
  <2>3. Cardinality(A \cup Moved(n, D)) = Cardinality(A) + Cardinality(D)
    <3>1. AllUpTo(n, A) /\ AllUpTo(m, D)
      BY DEF AllUpTo
    <3>2. AddUp(A, D, A \cup Moved(n, D))
      BY <3>1, ShiftedUnion
    <3> QED BY <3>2 DEF AddUp
  <2> QED BY <2>1, <2>2, <2>3 DEF Rank
<1> QED BY <1>0, <1>1, <1>2, <1>4, <1>5

LEMMA NumberedJoined ==
  ASSUME NEW T, NEW s \in Seq(T), NEW t \in Seq(T), NEW C
  PROVE  Numbered(s \o t, C)
           = Numbered(s, C) \cup MovedOn(Cardinality(PlacesIn(s, C)), Numbered(t, C))
<1>1. PICK w : w = s \o t
  OBVIOUS
<1>2. PICK n : n = Len(s)
  OBVIOUS
<1>3. /\ \A i \in 1..n : w[i] = s[i]
      /\ \A i \in 1..Len(t) : w[n + i] = t[i]
  BY <1>1, <1>2, Joined
<1>4. PICK A, B, W : A = PlacesIn(s, C) /\ B = PlacesIn(t, C) /\ W = PlacesIn(w, C)
  OBVIOUS
<1>5. W = A \cup Moved(n, B)
  BY <1>1, <1>2, <1>4, PlacesJoined
<1>6. /\ \A i \in A : Rank(W, i) = Rank(A, i) /\ w[i] = s[i]
      /\ \A i \in B : Rank(W, n + i) = Cardinality(A) + Rank(B, i) /\ w[n + i] = t[i]
  <2>1. A \subseteq 1..n /\ B \subseteq 1..Len(t)
    BY <1>2, <1>4, PlacesType
  <2> QED BY <1>1, <1>2, <1>3, <1>4, <2>1, RanksJoined
<1>7. Numbered(w, C) = {<<Rank(W, i), w[i]>> : i \in W}
  BY <1>4 DEF Numbered
<1>8. Numbered(s, C) = {<<Rank(A, i), s[i]>> : i \in A} /\ Numbered(t, C) = {<<Rank(B, i), t[i]>> : i \in B}
  BY <1>4 DEF Numbered
<1>9. Numbered(w, C)
        = {<<Rank(A, i), s[i]>> : i \in A} \cup {<<Cardinality(A) + Rank(B, i), t[i]>> : i \in B}
  <2>1. ASSUME NEW x \in Numbered(w, C)
        PROVE  x \in {<<Rank(A, i), s[i]>> : i \in A} \cup {<<Cardinality(A) + Rank(B, i), t[i]>> : i \in B}
    <3>1. PICK k \in W : x = <<Rank(W, k), w[k]>>
      BY <1>7
    <3>2. CASE k \in A
      BY <1>6, <3>1, <3>2
    <3>3. ASSUME NEW i \in B, k = n + i PROVE x \in {<<Cardinality(A) + Rank(B, j), t[j]>> : j \in B}
      BY <1>6, <3>1, <3>3
    <3> QED BY <1>5, <3>2, <3>3 DEF Moved
  <2>2. ASSUME NEW i \in A PROVE <<Rank(A, i), s[i]>> \in Numbered(w, C)
    BY <1>5, <1>6, <1>7
  <2>3. ASSUME NEW i \in B PROVE <<Cardinality(A) + Rank(B, i), t[i]>> \in Numbered(w, C)
    <3>1. n + i \in W
      BY <1>5 DEF Moved
    <3> QED BY <1>6, <1>7, <3>1
  <2> QED BY <2>1, <2>2, <2>3
<1>10. {<<Cardinality(A) + Rank(B, i), t[i]>> : i \in B}
         = MovedOn(Cardinality(A), Numbered(t, C))
  <2>1. ASSUME NEW i \in B
        PROVE  \E p \in Numbered(t, C) : <<Cardinality(A) + Rank(B, i), t[i]>> = <<Cardinality(A) + p[1], p[2]>>
    <3>1. PICK p : p = <<Rank(B, i), t[i]>>
      OBVIOUS
    <3> QED BY <1>8, <3>1
  <2>2. ASSUME NEW p \in Numbered(t, C)
        PROVE  \E i \in B : <<Cardinality(A) + p[1], p[2]>> = <<Cardinality(A) + Rank(B, i), t[i]>>
    <3>1. PICK i \in B : p = <<Rank(B, i), t[i]>>
      BY <1>8
    <3> QED BY <3>1
  <2> QED BY <2>1, <2>2 DEF MovedOn
<1> QED BY <1>1, <1>4, <1>8, <1>9, <1>10

\* Two texts with the same elements of C, in the same order.
Alike(s, t, C) ==
  /\ Numbered(s, C) = Numbered(t, C)
  /\ Cardinality(PlacesIn(s, C)) = Cardinality(PlacesIn(t, C))

LEMMA AlikeJoined ==
  ASSUME NEW T, NEW s \in Seq(T), NEW t \in Seq(T), NEW u \in Seq(T), NEW v \in Seq(T), NEW C,
         Alike(s, t, C), Alike(u, v, C)
  PROVE  Alike(s \o u, t \o v, C)
<1>1. PICK m : m = Cardinality(PlacesIn(s, C)) /\ m = Cardinality(PlacesIn(t, C))
  BY DEF Alike
<1>2. Numbered(s \o u, C) = Numbered(s, C) \cup MovedOn(m, Numbered(u, C))
  <2>1. Numbered(s \o u, C) = Numbered(s, C) \cup MovedOn(Cardinality(PlacesIn(s, C)), Numbered(u, C))
    BY NumberedJoined
  <2> QED BY <1>1, <2>1
<1>3. Numbered(t \o v, C) = Numbered(t, C) \cup MovedOn(m, Numbered(v, C))
  <2>1. Numbered(t \o v, C) = Numbered(t, C) \cup MovedOn(Cardinality(PlacesIn(t, C)), Numbered(v, C))
    BY NumberedJoined
  <2> QED BY <1>1, <2>1
<1>5. /\ PlacesIn(s \o u, C) = PlacesIn(s, C) \cup Moved(Len(s), PlacesIn(u, C))
      /\ Cardinality(PlacesIn(s \o u, C)) = Cardinality(PlacesIn(s, C)) + Cardinality(PlacesIn(u, C))
  BY PlacesJoined
<1>6. /\ PlacesIn(t \o v, C) = PlacesIn(t, C) \cup Moved(Len(t), PlacesIn(v, C))
      /\ Cardinality(PlacesIn(t \o v, C)) = Cardinality(PlacesIn(t, C)) + Cardinality(PlacesIn(v, C))
  BY PlacesJoined
<1>4. /\ Cardinality(PlacesIn(s \o u, C)) = m + Cardinality(PlacesIn(u, C))
      /\ Cardinality(PlacesIn(t \o v, C)) = m + Cardinality(PlacesIn(v, C))
  BY <1>1, <1>5, <1>6
<1> QED BY <1>2, <1>3, <1>4 DEF Alike

LEMMA NonePlaced ==
  ASSUME NEW T, NEW s \in Seq(T), NEW C, \A i \in 1..Len(s) : s[i] \notin C
  PROVE  PlacesIn(s, C) = {} /\ Cardinality(PlacesIn(s, C)) = 0 /\ Alike(s, <<>>, C)
<1>1. PlacesIn(s, C) = {} /\ PlacesIn(<<>>, C) = {}
  BY DEF PlacesIn
<1> QED BY <1>1, FS_EmptySet DEF Alike, Numbered

LEMMA OnePlaced ==
  ASSUME NEW x, NEW C
  PROVE  Cardinality(PlacesIn(<<x>>, C)) = IF x \in C THEN 1 ELSE 0
<1>1. PlacesIn(<<x>>, C) = IF x \in C THEN {1} ELSE {}
  BY DEF PlacesIn
<1> QED BY <1>1, FS_EmptySet, FS_Singleton
=============================================================================
