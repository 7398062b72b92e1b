----------------------- MODULE FoldRoundTripProofs --------------------------
(***************************************************************************)
(* For any line, width and sizes of characters: the physical lines that    *)
(* fold_into() writes are within the width, hold the line's characters one *)
(* after the other, and never offer a soft break where it folds.  For any  *)
(* document: what the lenient reader reads without a repair, the strict    *)
(* one reads alike; the lenient one loses no character but the joins it    *)
(* reports; the strict one reads as the RFC says.  For any line, width and *)
(* neighbours, both read back what fold_into() wrote.                      *)
(***************************************************************************)
EXTENDS FoldRoundTrip, ProofLemmas

-----------------------------------------------------------------------------
(* The octets of a text. *)

LEMMA Injects ==
  ASSUME NEW S, NEW T, IsFiniteSet(T), NEW f \in [S -> T],
         \A a, b \in S : f[a] = f[b] => a = b
  PROVE  IsFiniteSet(S) /\ Cardinality(S) <= Cardinality(T)
<1>1. f \in Injection(S, T)
  BY DEF Injection, IsInjective
<1> QED BY <1>1, FS_Injection

LEMMA SizeType ==
  ASSUME NEW s \in Seq(Chars)
  PROVE  IsFiniteSet(OctetsOf(s)) /\ Size(s) \in Nat
<1>1. IsFiniteSet(DOMAIN s) /\ IsFiniteSet(1..4)
  <2>1. DOMAIN s = 1..Len(s) /\ Len(s) \in Int /\ 1 \in Int /\ 4 \in Int
    OBVIOUS
  <2> QED BY <2>1, FS_Interval
<1>2. IsFiniteSet((DOMAIN s) \X (1..4))
  BY <1>1, FS_Product
<1>3. OctetsOf(s) \in SUBSET ((DOMAIN s) \X (1..4))
  BY DEF OctetsOf
<1>4. IsFiniteSet(OctetsOf(s))
  BY <1>2, <1>3, FS_Subset
<1> QED BY <1>4, FS_CardinalityType DEF Size

LEMMA SizeOfNothing == Size(<<>>) = 0
<1>1. OctetsOf(<<>>) = {}
  BY DEF OctetsOf
<1> QED BY <1>1, FS_EmptySet DEF Size

\* An octet, by the text it is in.
LEMMA OctetIn ==
  ASSUME NEW s \in Seq(Chars), NEW i, NEW k
  PROVE  <<i, k>> \in OctetsOf(s) <=> i \in 1..Len(s) /\ k \in 1..4 /\ k <= Octets[s[i]]
BY DEF OctetsOf

LEMMA OctetPair ==
  ASSUME NEW s \in Seq(Chars), NEW p \in OctetsOf(s)
  PROVE  p = <<p[1], p[2]>> /\ p[1] \in 1..Len(s) /\ p[2] \in 1..4 /\ p[2] <= Octets[s[p[1]]]
BY DEF OctetsOf

LEMMA SizeOfJoin ==
  ASSUME NEW s \in Seq(Chars), NEW t \in Seq(Chars)
  PROVE  Size(s \o t) <= Size(s) + Size(t)
<1> DEFINE w == s \o t
           n == Len(s)
           A == OctetsOf(s)
           B == OctetsOf(t)
           W == OctetsOf(w)
           f == [p \in W \ A |-> <<p[1] - n, p[2]>>]
<1>1. /\ w \in Seq(Chars) /\ Len(w) = n + Len(t) /\ n \in Nat /\ Len(t) \in Nat
      /\ \A i \in 1..n : w[i] = s[i]
      /\ \A i \in 1..Len(t) : w[n + i] = t[i]
  OBVIOUS
<1> HIDE DEF w, n
<1>2. /\ IsFiniteSet(A) /\ IsFiniteSet(B) /\ IsFiniteSet(W)
      /\ Size(s) = Cardinality(A) /\ Size(t) = Cardinality(B) /\ Size(w) = Cardinality(W)
      /\ Size(s) \in Nat /\ Size(t) \in Nat /\ Size(w) \in Nat
  BY <1>1, SizeType DEF Size
<1>3. ASSUME NEW p \in W \ A
      PROVE  /\ p = <<p[1], p[2]>> /\ p[1] \in Nat /\ <<p[1] - n, p[2]>> \in B
  <2>1. /\ p = <<p[1], p[2]>> /\ p[1] \in 1..(n + Len(t)) /\ p[2] \in 1..4
        /\ p[2] <= Octets[w[p[1]]]
    BY <1>1, OctetPair
  <2>2. p[1] > n
    <3>1. ASSUME p[1] \in 1..n PROVE FALSE
      <4>1. <<p[1], p[2]>> \in A
        BY <1>1, <2>1, <3>1, OctetIn DEF n
      <4> QED BY <2>1, <4>1
    <3> QED BY <1>1, <2>1, <3>1
  <2>3. p[1] - n \in 1..Len(t) /\ w[p[1]] = t[p[1] - n]
    BY SMTT(30), <1>1, <2>1, <2>2
  <2>4. <<p[1] - n, p[2]>> \in B
    BY <2>1, <2>3, OctetIn
  <2> QED BY <2>1, <2>4
<1>4. f \in [W \ A -> B]
  BY <1>3
<1>5. \A p, q \in W \ A : f[p] = f[q] => p = q
  <2> SUFFICES ASSUME NEW p \in W \ A, NEW q \in W \ A, f[p] = f[q] PROVE p = q
    OBVIOUS
  <2>1. p[1] - n = q[1] - n /\ p[2] = q[2]
    OBVIOUS
  <2>2. p[1] = q[1]
    BY <1>1, <1>3, <2>1
  <2> QED BY <1>3, <2>1, <2>2
<1> HIDE DEF A, B, W, f
<1>6. IsFiniteSet(W \ A) /\ Cardinality(W \ A) <= Cardinality(B)
  BY <1>2, <1>4, <1>5, Injects
<1>7. Cardinality(W \ A) \in Nat /\ Cardinality(A \cap (W \ A)) = 0
  <2>1. A \cap (W \ A) = {}
    OBVIOUS
  <2> QED BY <1>6, <2>1, FS_CardinalityType, FS_EmptySet
<1>8. IsFiniteSet(A \cup (W \ A))
      /\ Cardinality(A \cup (W \ A)) = Cardinality(A) + Cardinality(W \ A) - Cardinality(A \cap (W \ A))
  BY <1>2, <1>6, FS_Union
<1>9. Cardinality(W) <= Cardinality(A \cup (W \ A))
  <2>1. W \in SUBSET (A \cup (W \ A))
    OBVIOUS
  <2> QED BY <1>8, <2>1, FS_Subset
<1>10. Size(w) <= Size(s) + Size(t)
  BY <1>2, <1>6, <1>7, <1>8, <1>9
<1> QED BY <1>10 DEF w

LEMMA SizeOfFirst ==
  ASSUME NEW s \in Seq(Chars), NEW k \in 0..Len(s)
  PROVE  Size(SubSeq(s, 1, k)) <= Size(s)
<1> DEFINE t == SubSeq(s, 1, k)
<1>1. t \in Seq(Chars) /\ Len(t) = k /\ (\A i \in 1..k : t[i] = s[i]) /\ k <= Len(s) /\ k \in Nat
      /\ Len(s) \in Nat
  BY Parts
<1> HIDE DEF t
<1>2. OctetsOf(t) \in SUBSET OctetsOf(s)
  <2> SUFFICES ASSUME NEW p \in OctetsOf(t) PROVE p \in OctetsOf(s)
    OBVIOUS
  <2>1. p = <<p[1], p[2]>> /\ p[1] \in 1..k /\ p[2] \in 1..4 /\ p[2] <= Octets[t[p[1]]]
    BY <1>1, OctetPair
  <2>2. p[1] \in 1..Len(s) /\ t[p[1]] = s[p[1]]
    BY <1>1, <2>1
  <2>3. <<p[1], p[2]>> \in OctetsOf(s)
    BY <2>1, <2>2, OctetIn
  <2> QED BY <2>1, <2>3
<1>3. IsFiniteSet(OctetsOf(s))
  BY SizeType
<1>4. Size(t) <= Size(s)
  BY <1>2, <1>3, FS_Subset DEF Size
<1> QED BY <1>4 DEF t

LEMMA SizeOfRest ==
  ASSUME NEW s \in Seq(Chars), NEW k \in 1..Len(s)
  PROVE  Size(SubSeq(s, k + 1, Len(s))) <= Size(s) - 1
<1> DEFINE t == SubSeq(s, k + 1, Len(s))
           A == OctetsOf(s)
           B == OctetsOf(t)
           f == [p \in B |-> <<p[1] + k, p[2]>>]
<1>1. /\ t \in Seq(Chars) /\ Len(t) = Len(s) - k /\ (\A i \in 1..(Len(s) - k) : t[i] = s[k + i])
      /\ k \in Nat /\ k >= 1 /\ k <= Len(s) /\ Len(s) \in Nat
  BY Parts
<1> HIDE DEF t
<1>2. /\ IsFiniteSet(A) /\ IsFiniteSet(B) /\ Size(s) = Cardinality(A) /\ Size(t) = Cardinality(B)
      /\ Size(s) \in Nat /\ Size(t) \in Nat
  BY <1>1, SizeType DEF Size
<1>3. <<1, 1>> \in A
  <2>1. s[1] \in Chars /\ 1 \in 1..Len(s)
    BY <1>1
  <2>2. 1 <= Octets[s[1]]
    BY <2>1, FoldingAssumption
  <2> QED BY <2>1, <2>2, OctetIn
<1>4. ASSUME NEW p \in B
      PROVE  p = <<p[1], p[2]>> /\ p[1] \in Nat /\ <<p[1] + k, p[2]>> \in A \ {<<1, 1>>}
  <2>1. p = <<p[1], p[2]>> /\ p[1] \in 1..(Len(s) - k) /\ p[2] \in 1..4 /\ p[2] <= Octets[t[p[1]]]
    BY <1>1, OctetPair
  <2>2. p[1] + k \in 1..Len(s) /\ t[p[1]] = s[p[1] + k] /\ p[1] + k # 1
    BY <1>1, <2>1
  <2>3. <<p[1] + k, p[2]>> \in A
    BY <2>1, <2>2, OctetIn
  <2> QED BY <2>1, <2>2, <2>3
<1>5. f \in [B -> A \ {<<1, 1>>}]
  BY <1>4
<1>6. \A p, q \in B : f[p] = f[q] => p = q
  <2> SUFFICES ASSUME NEW p \in B, NEW q \in B, f[p] = f[q] PROVE p = q
    OBVIOUS
  <2>1. p[1] + k = q[1] + k /\ p[2] = q[2]
    OBVIOUS
  <2>2. p[1] = q[1]
    BY <1>1, <1>4, <2>1
  <2> QED BY <1>4, <2>1, <2>2
<1> HIDE DEF A, B, f
<1>7. IsFiniteSet(A \ {<<1, 1>>}) /\ Cardinality(A \ {<<1, 1>>}) = Cardinality(A) - 1
  BY <1>2, <1>3, FS_RemoveElement
<1>8. Cardinality(B) <= Cardinality(A \ {<<1, 1>>})
  BY <1>5, <1>6, <1>7, Injects
<1>9. Size(t) <= Size(s) - 1
  BY <1>2, <1>7, <1>8
<1> QED BY <1>9 DEF t

-----------------------------------------------------------------------------
(* What a state keeps. *)

FoldTypes ==
  /\ width \in Nat
  /\ line \in Seq(Chars)
  /\ next \in Seq(Chars) /\ Len(next) <= 1
  /\ current \in Seq(Chars)
  /\ budget \in Nat
  /\ chunks \in Seq(Seq(Chars))
  /\ done \in BOOLEAN

\* The line being filled fits, or is one wide character.
Filling ==
  /\ ~done => budget = Budget(Len(chunks) + 1)
  /\ Size(current) <= budget \/ Len(current) = 1
  /\ done => next = <<>> /\ current = <<>> /\ chunks # <<>>

\* Where the line is cut: chunks, current and next are its pieces, in order.
CutAt(cuts) ==
  /\ cuts[0] = 0
  /\ \A j \in DOMAIN chunks :
       /\ Len(chunks[j]) = cuts[j] - cuts[j - 1]
       /\ \A i \in DOMAIN chunks[j] : chunks[j][i] = line[cuts[j - 1] + i]
  /\ Len(line) = cuts[Len(chunks)] + Len(current) + Len(next)
  /\ \A i \in DOMAIN current : current[i] = line[cuts[Len(chunks)] + i]
  /\ next # <<>> => next[1] = line[Len(line)]

CutPlaces == [0..Len(chunks) -> 0..Len(line)]
InPieces == \E cuts \in CutPlaces : CutAt(cuts)

\* No fold after an '=', but in a run of nothing else.
AllEquals(s) == \A i \in DOMAIN s : s[i] = "="
FoldedSafely ==
  \A j \in DOMAIN chunks :
    \/ done /\ j = Len(chunks)
    \/ chunks[j] # <<>> /\ (Last(chunks[j]) # "=" \/ AllEquals(chunks[j]))

FoldInv == FoldTypes /\ Filling /\ InPieces /\ FoldedSafely /\ WithinWidth

-----------------------------------------------------------------------------
LEMMA Widest == FoldTypes => EffectiveWidth \in Nat /\ EffectiveWidth >= 2
BY DEF FoldTypes, EffectiveWidth

LEMMA KeepSome ==
  ASSUME NEW s \in Seq(Chars), s # <<>>
  PROVE  Keep(s) \in 1..Len(s) /\ (s[Keep(s)] # "=" \/ (Keep(s) = Len(s) /\ AllEquals(s)))
<1> DEFINE solid == {i \in DOMAIN s : s[i] # "="}
<1>1. DOMAIN s = 1..Len(s) /\ Len(s) \in Nat /\ Len(s) >= 1
  OBVIOUS
<1>2. CASE solid = {}
  <2>1. Keep(s) = Len(s)
    BY <1>2 DEF Keep
  <2> QED BY <1>1, <1>2, <2>1 DEF AllEquals
<1>3. CASE solid # {}
  <2>1. solid \in SUBSET Nat /\ \A i \in solid : i <= Len(s)
    BY <1>1
  <2>2. \E i \in solid : \A j \in solid : j <= i
    BY <1>1, <1>3, <2>1, Greatest
  <2>3. Keep(s) = CHOOSE i \in solid : \A j \in solid : j <= i
    BY <1>3 DEF Keep
  <2>4. Keep(s) \in solid
    BY <2>2, <2>3
  <2> QED BY <1>1, <2>4
<1> QED BY <1>2, <1>3

LEMMA FoldInit == Init => FoldInv
<1> SUFFICES ASSUME Init PROVE FoldInv
  OBVIOUS
<1>1. /\ width \in Nat /\ line = <<>> /\ next = <<>> /\ current = <<>> /\ chunks = <<>>
      /\ done = FALSE /\ budget = EffectiveWidth
  BY FoldingAssumption DEF Init
<1>2. FoldTypes
  <2>1. /\ <<>> \in Seq(Chars) /\ <<>> \in Seq(Seq(Chars)) /\ Len(<<>>) = 0
    OBVIOUS
  <2>2. EffectiveWidth \in Nat
    BY <1>1 DEF EffectiveWidth
  <2>3. line \in Seq(Chars) /\ next \in Seq(Chars) /\ current \in Seq(Chars)
        /\ chunks \in Seq(Seq(Chars))
    BY <1>1, <2>1
  <2>4. Len(next) <= 1
    BY <1>1
  <2>5. budget \in Nat /\ done \in BOOLEAN /\ width \in Nat
    BY <1>1, <2>2
  <2> QED BY <2>3, <2>4, <2>5 DEF FoldTypes
<1>3. Filling
  BY <1>1, <1>2, SizeOfNothing, Widest DEF Filling, Budget
<1>4. InPieces
  <2> DEFINE cuts == [j \in 0..0 |-> 0]
  <2>1. cuts \in CutPlaces
    BY <1>1 DEF CutPlaces
  <2>2. CutAt(cuts)
    BY <1>1 DEF CutAt
  <2> HIDE DEF cuts
  <2> QED BY <2>1, <2>2 DEF InPieces
<1>5. FoldedSafely /\ WithinWidth
  BY <1>1 DEF FoldedSafely, WithinWidth
<1> QED BY <1>2, <1>3, <1>4, <1>5 DEF FoldInv

\* One more chunk, from the start of the line being filled.
LEMMA CutOnce ==
  ASSUME FoldTypes, InPieces, NEW k \in 0..Len(current),
         chunks' = Append(chunks, SubSeq(current, 1, k)),
         current' = SubSeq(current, k + 1, Len(current)), UNCHANGED <<line, next>>
  PROVE  InPieces'
<1>a. PICK n : n = Len(chunks)
  OBVIOUS
<1>b. PICK first : first = SubSeq(current, 1, k)
  OBVIOUS
<1>c. PICK rest : rest = SubSeq(current, k + 1, Len(current))
  OBVIOUS
<1>1. PICK cuts \in CutPlaces : CutAt(cuts)
  BY DEF InPieces
<1>2. /\ chunks \in Seq(Seq(Chars)) /\ n \in Nat /\ current \in Seq(Chars) /\ line \in Seq(Chars)
      /\ Len(line) \in Nat /\ Len(current) \in Nat /\ k \in Nat /\ k <= Len(current)
      /\ next \in Seq(Chars) /\ Len(next) \in Nat
      /\ \A i \in DOMAIN chunks : Len(chunks[i]) \in Nat
  BY <1>a DEF FoldTypes
<1>3. /\ first \in Seq(Chars) /\ Len(first) = k /\ (\A i \in 1..k : first[i] = current[i])
      /\ rest \in Seq(Chars) /\ Len(rest) = Len(current) - k
      /\ \A i \in 1..(Len(current) - k) : rest[i] = current[k + i]
  BY <1>2, <1>b, <1>c, Parts
<1>4. /\ chunks' \in Seq(Seq(Chars)) /\ Len(chunks') = n + 1 /\ DOMAIN chunks' = 1..(n + 1)
      /\ (\A j \in 1..n : chunks'[j] = chunks[j]) /\ chunks'[n + 1] = first
      /\ DOMAIN chunks = 1..n
  <2>1. chunks' = Append(chunks, first)
    BY <1>b
  <2> QED BY <1>2, <1>3, <1>a, <2>1
<1>5. current' = rest /\ line' = line /\ next' = next
  BY <1>c
<1>6. /\ n \in Nat
      /\ cuts \in [0..n -> 0..Len(line)] /\ cuts[0] = 0 /\ cuts[n] \in 0..Len(line)
      /\ \A j \in 1..n : Len(chunks[j]) = cuts[j] - cuts[j - 1]
                         /\ \A i \in DOMAIN chunks[j] : chunks[j][i] = line[cuts[j - 1] + i]
      /\ Len(line) = cuts[n] + Len(current) + Len(next)
      /\ \A i \in DOMAIN current : current[i] = line[cuts[n] + i]
      /\ next # <<>> => next[1] = line[Len(line)]
  <2>1. cuts \in [0..n -> 0..Len(line)] /\ n \in 0..n
    BY <1>1, <1>2, <1>a DEF CutPlaces
  <2> QED BY <1>1, <1>2, <1>4, <1>a, <2>1 DEF CutAt
<1>d. PICK more : more = [j \in 0..(n + 1) |-> IF j = n + 1 THEN cuts[n] + k ELSE cuts[j]]
  OBVIOUS
<1>7. /\ more \in [0..(n + 1) -> 0..Len(line)]
      /\ more[n + 1] = cuts[n] + k
      /\ \A j \in 0..n : more[j] = cuts[j]
  <2>1. cuts[n] + k \in 0..Len(line)
    <3>1. PICK a \in Nat, c \in Nat, l \in Nat, x \in Nat :
             a = cuts[n] /\ c = Len(current) /\ l = Len(line) /\ x = Len(next)
      BY <1>2, <1>6
    <3>2. l = a + c + x /\ k <= c
      BY <1>2, <1>6, <3>1
    <3>3. a + k \in 0..l
      BY ONLY SMTT(30), <3>1, <3>2, k \in Nat
    <3> QED BY <3>1, <3>3
  <2>2. \A j \in 0..(n + 1) : j # n + 1 => j \in 0..n
    BY <1>6
  <2>3. \A j \in 0..n : j # n + 1 /\ j \in 0..(n + 1)
    BY <1>6
  <2>4. n + 1 \in 0..(n + 1)
    BY <1>6
  <2> QED BY <1>6, <1>d, <2>1, <2>2, <2>3, <2>4
<1>8. n \in Nat
  BY <1>6
<1>9. ASSUME NEW j \in 1..(n + 1)
      PROVE  /\ Len(chunks'[j]) = more[j] - more[j - 1]
             /\ \A i \in DOMAIN chunks'[j] : chunks'[j][i] = line[more[j - 1] + i]
  <2>1. CASE j = n + 1
    <3>0. j - 1 = n /\ n \in 0..n
      BY <1>8, <2>1
    <3>1. more[j - 1] = cuts[n] /\ more[j] = cuts[n] + k /\ chunks'[j] = first
      BY <1>4, <1>7, <2>1, <3>0
    <3>2. \A i \in 1..k : i \in DOMAIN current
      BY <1>2
    <3>3. DOMAIN first = 1..k
      BY <1>3
    <3>4. Len(first) = (cuts[n] + k) - cuts[n]
      BY <1>2, <1>3, <1>6
    <3>5. \A i \in DOMAIN first : first[i] = line[cuts[n] + i]
      BY <1>3, <1>6, <3>2, <3>3
    <3>6. Len(chunks'[j]) = more[j] - more[j - 1]
      BY <1>3, <3>1, <3>4
    <3> QED BY <3>1, <3>5, <3>6
  <2>2. CASE j # n + 1
    <3>1. j \in 1..n /\ j \in 0..n /\ j - 1 \in 0..n
      BY <1>8, <2>2
    <3>2. more[j - 1] = cuts[j - 1] /\ more[j] = cuts[j] /\ chunks'[j] = chunks[j]
      BY <1>4, <1>7, <3>1
    <3> QED BY <1>6, <3>1, <3>2
  <2> QED BY <2>1, <2>2
<1>10. /\ Len(line) = more[n + 1] + Len(rest) + Len(next)
       /\ \A i \in DOMAIN rest : rest[i] = line[more[n + 1] + i]
  <2>1. Len(line) = more[n + 1] + Len(rest) + Len(next)
    BY SMTT(30), <1>2, <1>3, <1>6, <1>7
  <2>2. ASSUME NEW i \in DOMAIN rest PROVE rest[i] = line[more[n + 1] + i]
    <3>1. i \in 1..(Len(current) - k) /\ k + i \in DOMAIN current
      BY <1>2, <1>3
    <3>2. cuts[n] + (k + i) = (cuts[n] + k) + i
      BY <1>2, <1>6, <3>1
    <3>3. rest[i] = line[cuts[n] + (k + i)]
      BY <1>3, <1>6, <3>1
    <3> QED BY <1>7, <3>2, <3>3
  <2> QED BY <2>1, <2>2
<1>11. more[0] = 0
  <2>1. 0 \in 0..n
    BY <1>8
  <2> QED BY <1>6, <1>7, <2>1
<1>12. more \in CutPlaces' /\ CutAt(more)'
  <2>1. more \in CutPlaces'
    BY <1>4, <1>5, <1>7 DEF CutPlaces
  <2>2. CutAt(more)'
    <3>1. \A j \in DOMAIN chunks' :
            /\ Len(chunks'[j]) = more[j] - more[j - 1]
            /\ \A i \in DOMAIN chunks'[j] : chunks'[j][i] = line'[more[j - 1] + i]
      BY SMTT(30), <1>4, <1>5, <1>9
    <3>2. /\ Len(line') = more[Len(chunks')] + Len(current') + Len(next')
          /\ \A i \in DOMAIN current' : current'[i] = line'[more[Len(chunks')] + i]
          /\ next' # <<>> => next'[1] = line'[Len(line')]
      BY <1>4, <1>5, <1>6, <1>10
    <3> QED BY <1>11, <3>1, <3>2 DEF CutAt
  <2> QED BY <2>1, <2>2
<1> QED BY <1>12 DEF InPieces

-----------------------------------------------------------------------------
(* Every step keeps it. *)

LEMMA ReadCharStep == ASSUME FoldInv, NEW c \in Chars, ReadChar(c) PROVE FoldInv'
<1>1. /\ ~done /\ next = <<>> /\ next' = <<c>> /\ line' = Append(line, c)
      /\ UNCHANGED <<width, current, budget, chunks, done>>
  BY DEF ReadChar
<1>2. /\ line \in Seq(Chars) /\ Len(line) \in Nat /\ current \in Seq(Chars)
      /\ Len(line') = Len(line) + 1 /\ line'[Len(line) + 1] = c /\ line' \in Seq(Chars)
      /\ \A i \in 1..Len(line) : line'[i] = line[i]
  BY <1>1 DEF FoldInv, FoldTypes
<1>3. next' \in Seq(Chars) /\ Len(next') = 1 /\ next'[1] = c /\ Len(next) = 0
  BY <1>1
<1>4. FoldTypes'
  BY <1>1, <1>2, <1>3 DEF FoldInv, FoldTypes
<1>5. Filling'
  BY <1>1 DEF FoldInv, Filling, Budget, EffectiveWidth, Size, OctetsOf
<1>6. InPieces'
  <2>a. PICK n : n = Len(chunks)
    OBVIOUS
  <2>0. /\ n \in Nat /\ DOMAIN chunks = 1..n /\ DOMAIN current = 1..Len(current)
        /\ Len(current) \in Nat /\ \A j \in 1..n : DOMAIN chunks[j] = 1..Len(chunks[j]) /\ Len(chunks[j]) \in Nat
    BY <2>a DEF FoldInv, FoldTypes
  <2>1. PICK cuts \in [0..n -> 0..Len(line)] : CutAt(cuts)
    BY <2>a DEF FoldInv, InPieces, CutPlaces
  <2>2. /\ cuts[0] = 0
        /\ \A j \in 1..n :
             /\ Len(chunks[j]) = cuts[j] - cuts[j - 1]
             /\ \A i \in DOMAIN chunks[j] : chunks[j][i] = line[cuts[j - 1] + i]
        /\ Len(line) = cuts[n] + Len(current) + Len(next)
        /\ \A i \in DOMAIN current : current[i] = line[cuts[n] + i]
    BY <2>0, <2>1, <2>a DEF CutAt
  <2>3. cuts \in [0..n -> 0..Len(line')]
    BY <1>2, <2>1
  <2>4. ASSUME NEW j \in 1..n, NEW i \in DOMAIN chunks[j]
        PROVE  chunks[j][i] = line'[cuts[j - 1] + i]
    <3>1. j \in 0..n /\ j - 1 \in 0..n
      BY <2>0
    <3>2. cuts[j] \in 0..Len(line) /\ cuts[j - 1] \in 0..Len(line)
      BY <2>1, <3>1
    <3>3. cuts[j - 1] + i \in 1..Len(line)
      <4>1. i \in Nat /\ 1 <= i /\ i <= Len(chunks[j]) /\ Len(chunks[j]) \in Nat
        BY <2>0
      <4>2. Len(chunks[j]) = cuts[j] - cuts[j - 1]
        BY <2>2
      <4>3. PICK a \in Nat, d \in Nat, l \in Nat, x \in Nat :
               a = cuts[j - 1] /\ d = cuts[j] /\ l = Len(line) /\ x = Len(chunks[j])
        BY SMTT(30), <1>2, <3>2, <4>1
      <4>4. x = d - a /\ d <= l /\ i <= x
        BY <3>2, <4>1, <4>2, <4>3
      <4>5. a + i \in 1..l
        BY ONLY SMTT(30), <4>1, <4>3, <4>4
      <4> QED BY <4>3, <4>5
    <3> QED BY <1>2, <2>2, <3>3
  <2>5. ASSUME NEW i \in DOMAIN current PROVE current[i] = line'[cuts[n] + i]
    <3>1. cuts[n] \in 0..Len(line)
      BY <2>0, <2>1
    <3>2. cuts[n] + i \in 1..Len(line)
      BY SMTT(30), <1>2, <1>3, <2>0, <2>2, <3>1
    <3> QED BY <1>2, <2>2, <3>2
  <2>6. Len(line') = cuts[n] + Len(current) + Len(next')
    <3>1. cuts[n] \in Nat
      BY <2>0, <2>1
    <3> QED BY <1>2, <1>3, <2>0, <2>2, <3>1
  <2>7. chunks' = chunks /\ current' = current
    BY <1>1
  <2>8. CutAt(cuts)'
    BY SMTT(30), <1>2, <1>3, <2>0, <2>2, <2>4, <2>5, <2>6, <2>7, <2>a DEF CutAt
  <2>9. cuts \in CutPlaces'
    BY <2>3, <2>7, <2>a DEF CutPlaces
  <2> QED BY <2>8, <2>9 DEF InPieces
<1>7. FoldedSafely' /\ WithinWidth'
  BY <1>1 DEF FoldInv, FoldedSafely, WithinWidth, Budget, EffectiveWidth, Size, OctetsOf
<1> QED BY <1>4, <1>5, <1>6, <1>7 DEF FoldInv

LEMMA EmitChunkStep == ASSUME FoldInv, EmitChunk PROVE FoldInv'
<1>a. PICK k : k = Keep(current)
  OBVIOUS
<1>b. PICK n : n = Len(chunks)
  OBVIOUS
<1>c. PICK first : first = SubSeq(current, 1, k)
  OBVIOUS
<1>d. PICK rest : rest = SubSeq(current, k + 1, Len(current))
  OBVIOUS
<1>1. /\ next # <<>> /\ current # <<>>
      /\ chunks' = Append(chunks, first) /\ current' = rest
      /\ budget' = EffectiveWidth - 1 /\ UNCHANGED <<width, line, next, done>>
  BY <1>a, <1>c, <1>d DEF EmitChunk, Full
<1>2. FoldTypes /\ Filling /\ InPieces /\ FoldedSafely /\ WithinWidth
  BY DEF FoldInv
<1>3. /\ ~done /\ current \in Seq(Chars) /\ Len(current) \in Nat /\ n \in Nat
      /\ chunks \in Seq(Seq(Chars)) /\ DOMAIN chunks = 1..n
      /\ EffectiveWidth \in Nat /\ EffectiveWidth >= 2 /\ EffectiveWidth' = EffectiveWidth
  BY <1>1, <1>2, <1>b, Widest DEF Filling, FoldTypes, EffectiveWidth
<1>4. k \in 1..Len(current) /\ (current[k] # "=" \/ (k = Len(current) /\ AllEquals(current)))
  BY <1>1, <1>3, <1>a, KeepSome
<1>5. /\ first \in Seq(Chars) /\ Len(first) = k /\ (\A i \in 1..k : first[i] = current[i])
      /\ rest \in Seq(Chars) /\ Len(rest) = Len(current) - k
  <2>1. k \in 0..Len(current)
    BY <1>4
  <2> QED BY <1>3, <1>c, <1>d, <2>1, Parts
<1>6. /\ Size(first) <= Size(current) /\ Size(rest) <= Size(current) - 1
      /\ Size(first) \in Nat /\ Size(rest) \in Nat /\ Size(current) \in Nat
  <2>1. k \in 0..Len(current) /\ k \in 1..Len(current)
    BY <1>4
  <2> QED BY <1>3, <1>5, <1>c, <1>d, <2>1, SizeOfFirst, SizeOfRest, SizeType
<1>7. /\ chunks' \in Seq(Seq(Chars)) /\ Len(chunks') = n + 1 /\ DOMAIN chunks' = 1..(n + 1)
      /\ (\A j \in 1..n : chunks'[j] = chunks[j]) /\ chunks'[n + 1] = first
  BY <1>1, <1>3, <1>5, <1>b
<1>8. /\ budget = Budget(n + 1) /\ budget \in Nat /\ budget <= EffectiveWidth
      /\ \A j \in 1..(n + 1) : Budget(j)' = Budget(j)
  <2>1. budget = Budget(n + 1)
    BY <1>2, <1>3, <1>b DEF Filling
  <2> QED BY <1>3, <2>1 DEF Budget
<1>9. FoldTypes'
  BY <1>1, <1>2, <1>3, <1>5, <1>7 DEF FoldTypes
<1>10. Filling'
  <2>1. Size(rest) <= EffectiveWidth - 1
    <3>1. CASE Size(current) <= budget
      BY <1>3, <1>6, <1>8, <3>1
    <3>2. CASE Len(current) = 1
      <4>1. k = 1 /\ Len(rest) = 0
        BY <1>4, <1>5, <3>2
      <4>2. rest = <<>>
        BY <1>5, <4>1
      <4> QED BY <1>3, <4>2, SizeOfNothing
    <3> QED BY <1>2, <3>1, <3>2 DEF Filling
  <2>2. budget' = Budget(Len(chunks) + 1)'
    <3>1. Len(chunks') + 1 # 1
      BY <1>3, <1>7
    <3> QED BY <1>1, <1>3, <3>1 DEF Budget
  <2>3. Size(current)' = Size(rest)
    BY <1>1 DEF Size, OctetsOf
  <2>4. Size(current)' <= budget' /\ ~done'
    BY <1>1, <1>3, <2>1, <2>3
  <2> QED BY <2>2, <2>4 DEF Filling
<1>11. InPieces'
  <2>1. k \in 0..Len(current)
    BY <1>4
  <2> QED BY <1>1, <1>2, <1>c, <1>d, <2>1, CutOnce
<1>12. FoldedSafely'
  <2>1. first # <<>> /\ Last(first) = current[k]
    BY <1>4, <1>5 DEF Last
  <2>2. Last(first) # "=" \/ AllEquals(first)
    <3>1. ASSUME k = Len(current), AllEquals(current) PROVE AllEquals(first)
      BY <1>3, <1>5, <3>1 DEF AllEquals
    <3> QED BY <1>4, <2>1, <3>1
  <2>3. ASSUME NEW j \in DOMAIN chunks'
        PROVE  chunks'[j] # <<>> /\ (Last(chunks'[j]) # "=" \/ AllEquals(chunks'[j]))
    <3>1. CASE j \in 1..n
      BY <1>2, <1>3, <1>7, <3>1 DEF FoldedSafely
    <3>2. CASE j = n + 1
      BY <1>7, <2>1, <2>2, <3>2
    <3> QED BY <1>3, <1>7, <3>1, <3>2
  <2> QED BY <2>3 DEF FoldedSafely
<1>13. WithinWidth'
  <2>1. ASSUME NEW j \in 1..(n + 1)
        PROVE  Size(chunks'[j]) <= Budget(j) \/ Len(chunks'[j]) = 1
    <3>1. CASE j \in 1..n
      BY <1>2, <1>3, <1>7, <3>1 DEF WithinWidth
    <3>2. CASE j = n + 1
      <4>1. CASE Size(current) <= budget
        BY <1>6, <1>7, <1>8, <3>2, <4>1
      <4>2. CASE Len(current) = 1
        BY <1>4, <1>5, <1>7, <3>2, <4>2
      <4> QED BY <1>2, <4>1, <4>2 DEF Filling
    <3> QED BY <1>3, <3>1, <3>2
  <2> QED BY <1>7, <1>8, <2>1 DEF WithinWidth, Size, OctetsOf
<1> QED BY <1>9, <1>10, <1>11, <1>12, <1>13 DEF FoldInv

LEMMA PushCharStep == ASSUME FoldInv, PushChar PROVE FoldInv'
<1>a. PICK n : n = Len(chunks)
  OBVIOUS
<1>1. /\ next # <<>> /\ (Size(current) + Size(next) <= budget \/ current = <<>>)
      /\ current' = current \o next /\ next' = <<>>
      /\ UNCHANGED <<width, line, budget, chunks, done>>
  <2>1. Size(current) \in Nat /\ Size(next) \in Nat /\ budget \in Nat
    BY SizeType DEF FoldInv, FoldTypes
  <2> QED BY <2>1 DEF PushChar, Full
<1>2. /\ ~done /\ current \in Seq(Chars) /\ next \in Seq(Chars) /\ Len(current) \in Nat
      /\ Len(next) = 1 /\ line \in Seq(Chars) /\ Len(line) \in Nat /\ n \in Nat
      /\ chunks \in Seq(Seq(Chars))
  <2>1. ~done
    BY <1>1 DEF FoldInv, Filling
  <2>2. next \in Seq(Chars) /\ Len(next) <= 1 /\ Len(next) # 0 /\ Len(next) \in Nat
    BY <1>1 DEF FoldInv, FoldTypes
  <2>3. Len(next) = 1
    BY <2>2
  <2> QED BY <1>a, <2>1, <2>2, <2>3 DEF FoldInv, FoldTypes
<1>3. /\ current' \in Seq(Chars) /\ Len(current') = Len(current) + 1
      /\ (\A i \in 1..Len(current) : current'[i] = current[i])
      /\ current'[Len(current) + 1] = next[1]
  <2>a. PICK s : s = current \o next
    OBVIOUS
  <2>1. 1 \in 1..Len(next)
    BY <1>2
  <2>2. /\ s \in Seq(Chars) /\ Len(s) = Len(current) + Len(next)
        /\ \A i \in 1..Len(current) : s[i] = current[i]
        /\ \A i \in 1..Len(next) : s[Len(current) + i] = next[i]
    <3>1. current \in Seq(Chars) /\ next \in Seq(Chars)
      BY <1>2
    <3> QED BY <2>a, <3>1, Joined
  <2>3. current' = s
    BY <1>1, <2>a
  <2> QED BY <1>2, <2>1, <2>2, <2>3
<1>4. FoldTypes'
  <2>1. <<>> \in Seq(Chars) /\ Len(<<>>) <= 1
    OBVIOUS
  <2> QED BY <1>1, <1>3, <2>1 DEF FoldInv, FoldTypes
<1>5. Filling'
  <2>1. (~done => budget = Budget(Len(chunks) + 1))'
    BY <1>1 DEF FoldInv, Filling, Budget, EffectiveWidth
  <2>2. Size(current)' <= budget' \/ Len(current') = 1
    <3>1. CASE current = <<>>
      BY <1>3, <3>1
    <3>2. CASE Size(current) + Size(next) <= budget
      <4>1. Size(current \o next) <= Size(current) + Size(next)
        BY <1>2, SizeOfJoin
      <4>2. current \o next \in Seq(Chars)
        BY <1>2
      <4>3. Size(current \o next) \in Nat /\ Size(current) \in Nat /\ Size(next) \in Nat /\ budget \in Nat
        BY <1>2, <4>2, SizeType DEF FoldInv, FoldTypes
      <4>4. Size(current)' = Size(current \o next) /\ budget' = budget
        BY <1>1 DEF Size, OctetsOf
      <4> QED BY <3>2, <4>1, <4>3, <4>4
    <3> QED BY <1>1, <3>1, <3>2
  <2>3. ~done'
    BY <1>1, <1>2
  <2> QED BY <2>1, <2>2, <2>3 DEF Filling
<1>6. InPieces'
  <2>1. PICK cuts \in [0..n -> 0..Len(line)] : CutAt(cuts)
    BY <1>a DEF FoldInv, InPieces, CutPlaces
  <2>2. /\ Len(line) = cuts[n] + Len(current) + Len(next) /\ next[1] = line[Len(line)]
        /\ \A i \in DOMAIN current : current[i] = line[cuts[n] + i]
    BY <1>1, <1>a, <2>1 DEF CutAt
  <2>3. cuts[n] \in Nat
    BY <1>2, <2>1
  <2>4. Len(line) = cuts[n] + (Len(current) + 1)
    BY <1>2, <2>2, <2>3
  <2>5. \A i \in DOMAIN current' : current'[i] = line[cuts[n] + i]
    <3>1. DOMAIN current' = 1..(Len(current) + 1) /\ DOMAIN current = 1..Len(current)
      BY <1>2, <1>3
    <3>2. ASSUME NEW i \in 1..Len(current) PROVE current'[i] = line[cuts[n] + i]
      BY <1>3, <2>2, <3>1
    <3>3. current'[Len(current) + 1] = line[cuts[n] + (Len(current) + 1)]
      BY <1>3, <2>2, <2>4
    <3>4. \A i \in 1..(Len(current) + 1) : i \in 1..Len(current) \/ i = Len(current) + 1
      BY <1>2
    <3> QED BY <3>1, <3>2, <3>3, <3>4
  <2>6. Len(line) = cuts[n] + Len(current') + 0
    BY <1>2, <1>3, <2>3, <2>4
  <2>7. line' = line /\ chunks' = chunks /\ next' = <<>> /\ Len(<<>>) = 0
    BY <1>1
  <2>8. CutAt(cuts)'
    BY <1>a, <2>1, <2>5, <2>6, <2>7 DEF CutAt
  <2>9. cuts \in CutPlaces'
    BY <1>a, <2>1, <2>7 DEF CutPlaces
  <2> QED BY <2>8, <2>9 DEF InPieces
<1>7. FoldedSafely' /\ WithinWidth'
  BY <1>1 DEF FoldInv, FoldedSafely, WithinWidth, Budget, EffectiveWidth, Size, OctetsOf
<1> QED BY <1>4, <1>5, <1>6, <1>7 DEF FoldInv

LEMMA EndLineStep == ASSUME FoldInv, EndLine PROVE FoldInv'
<1>a. PICK n : n = Len(chunks)
  OBVIOUS
<1>1. /\ ~done /\ next = <<>> /\ chunks' = Append(chunks, current) /\ current' = <<>> /\ done' = TRUE
      /\ UNCHANGED <<width, line, next, budget>>
  BY DEF EndLine
<1>2. FoldTypes /\ Filling /\ InPieces /\ FoldedSafely /\ WithinWidth
  BY DEF FoldInv
<1>3. /\ current \in Seq(Chars) /\ Len(current) \in Nat /\ n \in Nat
      /\ chunks \in Seq(Seq(Chars)) /\ DOMAIN chunks = 1..n
  BY <1>2, <1>a DEF FoldTypes
<1>4. /\ chunks' \in Seq(Seq(Chars)) /\ Len(chunks') = n + 1 /\ DOMAIN chunks' = 1..(n + 1)
      /\ (\A j \in 1..n : chunks'[j] = chunks[j]) /\ chunks'[n + 1] = current /\ chunks' # <<>>
  BY <1>1, <1>3, <1>a
<1>5. FoldTypes'
  <2>1. <<>> \in Seq(Chars)
    OBVIOUS
  <2> QED BY <1>1, <1>2, <1>4, <2>1 DEF FoldTypes
<1>6. Filling'
  <2>1. Size(current)' = 0
    BY <1>1, SizeOfNothing DEF Size, OctetsOf
  <2>2. budget' \in Nat
    BY <1>5 DEF FoldTypes
  <2> QED BY <1>1, <1>4, <2>1, <2>2 DEF Filling
<1>7. InPieces'
  <2>a. PICK k : k = Len(current)
    OBVIOUS
  <2>1. /\ k \in 0..Len(current) /\ SubSeq(current, 1, k) = current
        /\ SubSeq(current, k + 1, Len(current)) = <<>>
    BY <1>3, <2>a
  <2>2. /\ chunks' = Append(chunks, SubSeq(current, 1, k))
        /\ current' = SubSeq(current, k + 1, Len(current)) /\ UNCHANGED <<line, next>>
    BY <1>1, <2>1
  <2> QED BY <1>2, <2>1, <2>2, CutOnce
<1>8. FoldedSafely'
  <2>1. ASSUME NEW j \in DOMAIN chunks', j # Len(chunks')
        PROVE  chunks'[j] # <<>> /\ (Last(chunks'[j]) # "=" \/ AllEquals(chunks'[j]))
    <3>1. j \in 1..n
      BY <1>3, <1>4, <2>1
    <3> QED BY <1>1, <1>2, <1>3, <1>4, <3>1 DEF FoldedSafely
  <2> QED BY <1>1, <2>1 DEF FoldedSafely
<1>9. WithinWidth'
  <2>0. budget = Budget(n + 1) /\ \A j : Budget(j)' = Budget(j)
    BY <1>1, <1>2, <1>a DEF Filling, Budget, EffectiveWidth
  <2>1. ASSUME NEW j \in 1..(n + 1)
        PROVE  Size(chunks'[j]) <= Budget(j) \/ Len(chunks'[j]) = 1
    <3>1. CASE j \in 1..n
      BY <1>2, <1>3, <1>4, <3>1 DEF WithinWidth
    <3>2. CASE j = n + 1
      BY <1>2, <1>4, <2>0, <3>2 DEF Filling
    <3> QED BY <1>3, <3>1, <3>2
  <2> QED BY <1>4, <2>0, <2>1 DEF WithinWidth, Size, OctetsOf
<1> QED BY <1>5, <1>6, <1>7, <1>8, <1>9 DEF FoldInv

LEMMA FoldKept == FoldInv /\ [Next]_vars => FoldInv'
<1> SUFFICES ASSUME FoldInv, [Next]_vars PROVE FoldInv'
  OBVIOUS
<1>1. CASE Next
  BY <1>1, ReadCharStep, EmitChunkStep, PushCharStep, EndLineStep DEF Next
<1>2. CASE UNCHANGED vars
  BY <1>2 DEF vars, FoldInv, FoldTypes, Filling, InPieces, CutPlaces, CutAt, FoldedSafely, AllEquals,
    WithinWidth, Budget, EffectiveWidth, Size, OctetsOf
<1> QED BY <1>1, <1>2

LEMMA FoldInvariance == Spec => []FoldInv
BY FoldInit, FoldKept, PTL DEF Spec

\* No physical line that fold_into writes is longer than the width asked for,
\* whatever the line and however wide its characters: only a character that does
\* not fit by itself sticks out.
THEOREM PhysicalLinesFit == Spec => []WithinWidth
<1>1. FoldInv => WithinWidth
  BY DEF FoldInv
<1> QED BY <1>1, FoldInvariance, PTL

\* "A folded physical line never ends with '=' when any other fold point exists":
\* one that is not the last ends in another character or holds nothing else.
THEOREM NoSoftBreakAtFold == Spec => []FoldedSafely
<1>1. FoldInv => FoldedSafely
  BY DEF FoldInv
<1> QED BY <1>1, FoldInvariance, PTL

\* The chunks, the line being filled and the next character are the line, cut
\* in pieces: folding drops, doubles and moves no character.
THEOREM NothingDropped == Spec => []InPieces
<1>1. FoldInv => InPieces
  BY DEF FoldInv
<1> QED BY <1>1, FoldInvariance, PTL

-----------------------------------------------------------------------------
(* The two readers. *)

\* The characters of a text, the fold marker among them.
Letter == STRING \cup {" "}
Text == Seq(Letter)
Physical == [text : Text, loose : BOOLEAN]
Logical == [text : Text, line : Nat]
Kind == {"LooseLineEnding", "JoinedQuotedPrintable", "SkippedBlankLine",
         "LeadingContinuationTreatedAsLine"}
Repair == [line : Nat, kind : Kind]

ReaderTypes ==
  /\ physical \in Seq(Physical)
  /\ sIdx \in 0..Len(physical) /\ sOut \in Seq(Logical)
  /\ sSoftBreak = FALSE /\ sOutcome \in {"reading", "done"} \cup U!S!ErrorKinds
  /\ lIdx \in 0..Len(physical) /\ lOut \in Seq(Logical) /\ lRepairs \in Seq(Repair)
  /\ lSoftBreak \in BOOLEAN /\ (lSoftBreak => lOut # <<>>)
  /\ lOutcome \in {"reading", "done"}

OnlyJoins(repairs) == \A i \in DOMAIN repairs : repairs[i].kind = "JoinedQuotedPrintable"

\* Without a repair both readers are in the same state; as long as the strict one
\* has not failed, the lenient one has repaired soft breaks at most.
InStep ==
  /\ lRepairs = <<>> =>
       sIdx = lIdx /\ sOut = lOut /\ sOutcome = lOutcome /\ lSoftBreak = FALSE
  /\ sOutcome \in {"reading", "done"} =>
       /\ sIdx = lIdx /\ sOutcome = lOutcome /\ OnlyJoins(lRepairs)
       /\ sOut = <<>> <=> lOut = <<>>

Reading == ReaderTypes /\ InStep

-----------------------------------------------------------------------------
(* One line: what a step of a reader does with it. *)

\* The repairs that are reported with a line, after those before.
LEMMA RepairsOfLine ==
  ASSUME NEW kinds \in Seq(Kind), NEW n \in Nat, NEW t,
         t = [i \in DOMAIN kinds |-> [line |-> n, kind |-> kinds[i]]]
  PROVE  /\ t \in Seq(Repair) /\ (t = <<>> <=> kinds = <<>>)
         /\ OnlyJoins(t) <=> \A i \in DOMAIN kinds : kinds[i] = "JoinedQuotedPrintable"
<1>1. DOMAIN kinds = 1..Len(kinds) /\ Len(kinds) \in Nat /\ \A i \in 1..Len(kinds) : kinds[i] \in Kind
  OBVIOUS
<1>2. \A i \in 1..Len(kinds) : t[i] \in Repair /\ t[i].kind = kinds[i]
  BY <1>1 DEF Repair
<1>3. t \in Seq(Repair) /\ Len(t) = Len(kinds) /\ DOMAIN t = 1..Len(kinds)
  BY <1>1, <1>2
<1>4. t = <<>> <=> kinds = <<>>
  BY <1>3
<1> QED BY <1>1, <1>2, <1>3, <1>4 DEF OnlyJoins

LEMMA One ==
  ASSUME NEW T, NEW x \in T
  PROVE  /\ <<x>> \in Seq(T) /\ Len(<<x>>) = 1 /\ <<x>> # <<>>
         /\ \A i \in DOMAIN <<x>> : <<x>>[i] = x
OBVIOUS

LEMMA RepairsAdded ==
  ASSUME NEW r \in Seq(Repair), NEW t \in Seq(Repair)
  PROVE  /\ r \o t \in Seq(Repair)
         /\ t = <<>> => r \o t = r
         /\ t # <<>> => r \o t # <<>>
         /\ OnlyJoins(r \o t) <=> OnlyJoins(r) /\ OnlyJoins(t)
<1>a. PICK s : s = r \o t
  OBVIOUS
<1>1. /\ s \in Seq(Repair) /\ Len(s) = Len(r) + Len(t)
      /\ \A i \in 1..Len(r) : s[i] = r[i]
      /\ \A i \in 1..Len(t) : s[Len(r) + i] = t[i]
  BY <1>a, Joined
<1>2. /\ DOMAIN s = 1..(Len(r) + Len(t)) /\ DOMAIN r = 1..Len(r) /\ DOMAIN t = 1..Len(t)
      /\ Len(r) \in Nat /\ Len(t) \in Nat
  BY <1>1
<1>3. (t = <<>> => s = r) /\ (t # <<>> => s # <<>>)
  <2>1. t = <<>> => s = r
    BY <1>a
  <2>2. t # <<>> => Len(t) # 0 /\ Len(s) # 0
    BY <1>1, <1>2
  <2> QED BY <2>1, <2>2
<1>4. ASSUME OnlyJoins(s) PROVE OnlyJoins(r) /\ OnlyJoins(t)
  <2>1. \A i \in 1..Len(r) : i \in DOMAIN s
    BY <1>2
  <2>2. \A i \in 1..Len(t) : Len(r) + i \in DOMAIN s
    BY <1>2
  <2>3. ASSUME NEW i \in 1..Len(t) PROVE t[i].kind = "JoinedQuotedPrintable"
    <3>1. s[Len(r) + i].kind = "JoinedQuotedPrintable"
      BY <1>4, <2>2 DEF OnlyJoins
    <3> QED BY <1>1, <3>1
  <2>4. \A i \in 1..Len(r) : r[i].kind = "JoinedQuotedPrintable"
    BY <1>1, <1>4, <2>1 DEF OnlyJoins
  <2> QED BY <1>2, <2>3, <2>4 DEF OnlyJoins
<1>5. ASSUME OnlyJoins(r), OnlyJoins(t) PROVE OnlyJoins(s)
  <2>1. ASSUME NEW i \in DOMAIN s PROVE s[i].kind = "JoinedQuotedPrintable"
    <3>1. CASE i \in 1..Len(r)
      BY <1>1, <1>2, <1>5, <3>1 DEF OnlyJoins
    <3>2. CASE i \notin 1..Len(r)
      <4>1. i - Len(r) \in 1..Len(t) /\ i = Len(r) + (i - Len(r))
        BY <1>2, <3>2
      <4> QED BY <1>1, <1>2, <1>5, <4>1 DEF OnlyJoins
    <3> QED BY <3>1, <3>2
  <2> QED BY <2>1 DEF OnlyJoins
<1> QED BY <1>1, <1>3, <1>4, <1>5, <1>a

\* A line put in the place of the last one.
LEMMA LastChanged ==
  ASSUME NEW out \in Seq(Logical), out # <<>>, NEW text \in Text, NEW more,
         more = [out EXCEPT ![Len(out)].text = text]
  PROVE  more \in Seq(Logical) /\ more # <<>>
<1>1. Len(out) \in Nat /\ Len(out) \in DOMAIN out /\ out[Len(out)] \in Logical
  OBVIOUS
<1>2. [out[Len(out)] EXCEPT !.text = text] \in Logical
  BY <1>1 DEF Logical
<1>3. more = [out EXCEPT ![Len(out)] = [out[Len(out)] EXCEPT !.text = text]]
  OBVIOUS
<1>4. more \in Seq(Logical) /\ Len(more) = Len(out)
  BY <1>1, <1>2, <1>3
<1> QED BY <1>1, <1>4

Continues(text) == text # <<>> /\ Head(text) = " "
Line == physical[lIdx + 1]

\* A line that both readers append to what they have, in the same way.
Taken(out, idx, text) ==
  IF Continues(text)
    THEN [out EXCEPT ![Len(out)].text = @ \o Tail(text)]
    ELSE Append(out, [text |-> text, line |-> idx + 1])
Plain(out, phys) ==
  ~phys.loose /\ phys.text # <<>> /\ ~(Continues(phys.text) /\ out = <<>>)

LEMMA LineTaken ==
  ASSUME NEW out \in Seq(Logical), NEW idx \in Nat, NEW phys \in Physical, Plain(out, phys)
  PROVE  Taken(out, idx, phys.text) \in Seq(Logical) /\ Taken(out, idx, phys.text) # <<>>
<1>1. phys.text \in Text /\ phys.text # <<>>
  BY DEF Physical, Plain
<1>2. CASE Continues(phys.text)
  <2>1. out # <<>>
    BY <1>2 DEF Plain
  <2>2. Tail(phys.text) \in Text
    BY <1>1, Behead DEF Text
  <2>3. Len(out) \in DOMAIN out /\ out[Len(out)] \in Logical
    BY <2>1
  <2>4. out[Len(out)].text \o Tail(phys.text) \in Text
    BY <2>2, <2>3 DEF Logical, Text
  <2>5. Taken(out, idx, phys.text)
          = [out EXCEPT ![Len(out)].text = out[Len(out)].text \o Tail(phys.text)]
    BY <1>2 DEF Taken
  <2> QED BY <2>1, <2>4, <2>5, LastChanged
<1>3. CASE ~Continues(phys.text)
  <2>1. [text |-> phys.text, line |-> idx + 1] \in Logical
    BY <1>1 DEF Logical
  <2>2. Taken(out, idx, phys.text) = Append(out, [text |-> phys.text, line |-> idx + 1])
    BY <1>3 DEF Taken
  <2> QED BY <2>1, <2>2, Pushed
<1> QED BY <1>2, <1>3

\* The strict reader takes a plain line, and fails at any other.
LEMMA StrictStep ==
  ASSUME ReaderTypes, U!S!Next
  PROVE  /\ sOutcome = "reading" /\ physical' = physical /\ sSoftBreak' = FALSE
         /\ \/ /\ sIdx = Len(physical) /\ sOutcome' = "done" /\ UNCHANGED <<sIdx, sOut>>
            \/ /\ sIdx < Len(physical) /\ sIdx' = sIdx + 1
               /\ \/ /\ Plain(sOut, physical[sIdx + 1]) /\ sOutcome' = "reading"
                     /\ sOut' = Taken(sOut, sIdx, physical[sIdx + 1].text)
                  \/ /\ ~Plain(sOut, physical[sIdx + 1]) /\ sOutcome' \in U!S!ErrorKinds
                     /\ sOut' = sOut
<1>1. CASE U!S!Finish
  BY <1>1 DEF U!S!Finish, ReaderTypes
<1>2. CASE U!S!RejectLooseEnding
  BY <1>2 DEF U!S!RejectLooseEnding, U!S!Take, U!S!Fail, U!S!Phys, U!S!ErrorKinds, Plain, ReaderTypes
<1>3. CASE U!S!JoinSoftBreak
  BY <1>3 DEF U!S!JoinSoftBreak, ReaderTypes
<1>4. CASE U!S!SkipBlankLine
  BY <1>4 DEF U!S!SkipBlankLine, U!S!TakeUsable, U!S!Take, U!S!Fail, U!S!Phys, U!S!ErrorKinds, Plain,
     ReaderTypes
<1>5. CASE U!S!LeadingContinuation
  BY <1>5 DEF U!S!LeadingContinuation, U!S!TakeUsable, U!S!Take, U!S!Fail, U!S!Phys, U!S!ErrorKinds,
     U!S!IsContinuation, Continues, Plain, ReaderTypes
<1>6. CASE U!S!AppendContinuation
  BY <1>6 DEF U!S!AppendContinuation, U!S!TakeUsable, U!S!Take, U!S!Phys, U!S!IsContinuation,
     Continues, Plain, Taken, ReaderTypes
<1>7. CASE U!S!StartLine
  BY <1>7 DEF U!S!StartLine, U!S!TakeUsable, U!S!Take, U!S!Phys, U!S!Breaks, U!S!IsContinuation,
     Continues, Plain, Taken, ReaderTypes
<1> QED BY <1>1, <1>2, <1>3, <1>4, <1>5, <1>6, <1>7 DEF U!S!Next

LEMMA Reported ==
  ASSUME ReaderTypes, lIdx' \in Nat, NEW kinds \in Seq(Kind), U!L!Repaired(kinds)
  PROVE  \E new \in Seq(Repair) :
           /\ lRepairs' = lRepairs \o new
           /\ new = <<>> <=> kinds = <<>>
           /\ OnlyJoins(new) <=> \A i \in DOMAIN kinds : kinds[i] = "JoinedQuotedPrintable"
<1>1. PICK new : new = [i \in DOMAIN kinds |-> [line |-> lIdx', kind |-> kinds[i]]]
  OBVIOUS
<1>2. lRepairs' = lRepairs \o new
  BY <1>1 DEF U!L!Repaired
<1> QED BY <1>1, <1>2, RepairsOfLine

LEMMA KindsAre ==
  /\ "LooseLineEnding" \in Kind /\ "JoinedQuotedPrintable" \in Kind
  /\ "SkippedBlankLine" \in Kind /\ "LeadingContinuationTreatedAsLine" \in Kind
BY DEF Kind

LEMMA EndingKinds ==
  ASSUME lIdx < Len(physical), NEW kind \in Kind
  PROVE  /\ U!L!LooseEnding \in Seq(Kind)
         /\ Line.loose => Len(U!L!LooseEnding) = 1
         /\ (U!L!LooseEnding = <<>> <=> ~Line.loose)
         /\ U!L!LooseEnding \o <<kind>> \in Seq(Kind)
         /\ U!L!LooseEnding \o <<kind>> # <<>>
<1>1. PICK loose : loose = U!L!LooseEnding
  OBVIOUS
<1>2. /\ loose \in Seq(Kind)
      /\ Line.loose => Len(loose) = 1 /\ loose # <<>>
      /\ ~Line.loose => loose = <<>>
  <2>1. CASE Line.loose
    <3>1. loose = <<"LooseLineEnding">>
      BY <1>1, <2>1 DEF U!L!LooseEnding, U!L!Phys, Line
    <3> QED BY <2>1, <3>1, KindsAre, One
  <2>2. CASE ~Line.loose
    <3>1. loose = <<>> /\ <<>> \in Seq(Kind)
      BY <1>1, <2>2 DEF U!L!LooseEnding, U!L!Phys, Line
    <3> QED BY <2>2, <3>1
  <2> QED BY <2>1, <2>2
<1>3. <<kind>> \in Seq(Kind) /\ Len(<<kind>>) = 1
  BY One
<1>4. loose \o <<kind>> \in Seq(Kind) /\ Len(loose \o <<kind>>) = Len(loose) + 1
  BY <1>2, <1>3, Joined
<1>5. loose \o <<kind>> # <<>>
  <2>1. Len(loose) \in Nat
    BY <1>2
  <2> QED BY <1>4, <2>1
<1> QED BY <1>1, <1>2, <1>4, <1>5

SoftEnd(text) == U!L!EndsInSoftBreak(text)

\* What is reported with a line: its ending, and a soft break.
LEMMA KindsOf ==
  ASSUME ReaderTypes, lIdx < Len(physical), NEW text, NEW kinds,
         kinds = U!L!LooseEnding \o U!L!JoinedQuotedPrintable(text)
  PROVE  /\ kinds \in Seq(Kind)
         /\ kinds = <<>> <=> ~Line.loose /\ ~U!L!Breaks(text)
         /\ ~Line.loose => \A i \in DOMAIN kinds : kinds[i] = "JoinedQuotedPrintable"
<1>1. PICK loose : loose = U!L!LooseEnding
  OBVIOUS
<1>2. PICK joined : joined = U!L!JoinedQuotedPrintable(text)
  OBVIOUS
<1>3. /\ loose \in Seq(Kind)
      /\ Line.loose => Len(loose) = 1
      /\ ~Line.loose => loose = <<>>
  BY <1>1, EndingKinds, KindsAre
<1>4. /\ joined \in Seq(Kind)
      /\ (U!L!Breaks(text) =>
           Len(joined) = 1 /\ \A i \in DOMAIN joined : joined[i] = "JoinedQuotedPrintable")
      /\ (~U!L!Breaks(text) => joined = <<>>)
  <2>1. CASE U!L!Breaks(text)
    <3>1. joined = <<"JoinedQuotedPrintable">>
      BY <1>2, <2>1 DEF U!L!JoinedQuotedPrintable
    <3> QED BY <2>1, <3>1, KindsAre, One
  <2>2. CASE ~U!L!Breaks(text)
    <3>1. joined = <<>> /\ <<>> \in Seq(Kind)
      BY <1>2, <2>2 DEF U!L!JoinedQuotedPrintable
    <3> QED BY <2>2, <3>1
  <2> QED BY <2>1, <2>2
<1>5. kinds = loose \o joined
  BY <1>1, <1>2
<1>6. kinds \in Seq(Kind) /\ Len(kinds) = Len(loose) + Len(joined)
  BY <1>3, <1>4, <1>5, Joined
<1>7. kinds = <<>> <=> ~Line.loose /\ ~U!L!Breaks(text)
  <2>1. kinds = <<>> <=> Len(kinds) = 0
    BY <1>6
  <2> QED BY <1>3, <1>4, <1>6, <2>1
<1>8. ~Line.loose => \A i \in DOMAIN kinds : kinds[i] = "JoinedQuotedPrintable"
  <2> SUFFICES ASSUME ~Line.loose PROVE \A i \in DOMAIN kinds : kinds[i] = "JoinedQuotedPrintable"
    OBVIOUS
  <2>1. kinds = joined
    BY <1>3, <1>4, <1>5
  <2> QED BY <1>4, <2>1
<1> QED BY <1>6, <1>7, <1>8

\* What the lenient reader makes of a line.
Handles(new) ==
  /\ lRepairs' = lRepairs \o new
  /\ lOut' \in Seq(Logical) /\ lSoftBreak' \in BOOLEAN /\ (lSoftBreak' => lOut' # <<>>)
  /\ new = <<>> => lSoftBreak' = FALSE
  /\ new = <<>> /\ lSoftBreak = FALSE => Plain(lOut, Line) /\ lOut' = Taken(lOut, lIdx, Line.text)
  /\ Plain(lOut, Line) => lOut' # <<>> /\ OnlyJoins(new)
  /\ lSoftBreak = FALSE /\ Plain(lOut, Line)
       /\ (Continues(Line.text) \/ ~SoftEnd(Line.text) \/ lIdx + 1 = Len(physical))
       => new = <<>>

LEMMA JoinSoftBreakStep ==
  ASSUME ReaderTypes, lIdx \in Nat, lIdx < Len(physical), Line \in Physical, U!L!JoinSoftBreak
  PROVE  \E new \in Seq(Repair) : Handles(new)
<1>1. PICK text : text = Front(Last(lOut).text) \o Line.text
  OBVIOUS
<1>2. PICK kinds : kinds = U!L!LooseEnding \o U!L!JoinedQuotedPrintable(text)
  OBVIOUS
<1>3. /\ lSoftBreak /\ lOut' = [lOut EXCEPT ![Len(lOut)].text = text]
      /\ lSoftBreak' = U!L!Breaks(text) /\ U!L!Repaired(kinds) /\ lIdx' = lIdx + 1
  BY <1>1, <1>2 DEF U!L!JoinSoftBreak, U!L!TakeUsable, U!L!Take, U!L!Phys, Line,
     U!L!Front, U!L!Last, Front, Last
<1>4. PICK new \in Seq(Repair) :
             /\ lRepairs' = lRepairs \o new
             /\ new = <<>> <=> kinds = <<>>
             /\ OnlyJoins(new) <=> \A i \in DOMAIN kinds : kinds[i] = "JoinedQuotedPrintable"
  <2>1. kinds \in Seq(Kind) /\ lIdx' \in Nat
    <3>1. kinds \in Seq(Kind)
      BY <1>2, KindsOf
    <3> QED BY <1>3, <3>1
  <2> QED BY <1>3, <2>1, Reported
<1>5. lOut # <<>> /\ lOut \in Seq(Logical) /\ text \in Text
  <2>1. lOut # <<>> /\ lOut \in Seq(Logical)
    BY <1>3 DEF ReaderTypes
  <2>2. PICK before : before = Last(lOut).text
    OBVIOUS
  <2>3. before \in Text
    <3>1. Len(lOut) \in DOMAIN lOut
      BY <2>1
    <3>2. lOut[Len(lOut)] \in Logical
      BY <2>1, <3>1
    <3> QED BY <2>2, <3>2 DEF Logical, Last
  <2>4. Front(before) \in Text
    BY <2>3 DEF Text, Front
  <2> QED BY <1>1, <2>1, <2>2, <2>4, Joined DEF Text, Physical
<1>6. lOut' \in Seq(Logical) /\ lOut' # <<>>
  BY <1>3, <1>5, LastChanged
<1>7. (new = <<>> => lSoftBreak' = FALSE) /\ lSoftBreak' \in BOOLEAN
  BY <1>2, <1>3, <1>4, KindsOf DEF U!L!Breaks
<1>8. Plain(lOut, Line) => OnlyJoins(new)
  BY <1>2, <1>4, KindsOf DEF Plain
<1> QED BY <1>3, <1>4, <1>6, <1>7, <1>8 DEF Handles


LEMMA StartLineStep ==
  ASSUME ReaderTypes, lIdx \in Nat, lIdx < Len(physical), Line \in Physical, U!L!StartLine
  PROVE  \E new \in Seq(Repair) : Handles(new)
<1>1. PICK kinds : kinds = U!L!LooseEnding \o U!L!JoinedQuotedPrintable(Line.text)
  OBVIOUS
<1>2. /\ lSoftBreak = FALSE /\ Line.text # <<>> /\ ~Continues(Line.text)
      /\ lOut' = Append(lOut, [text |-> Line.text, line |-> lIdx + 1])
      /\ lSoftBreak' = U!L!Breaks(Line.text) /\ U!L!Repaired(kinds) /\ lIdx' = lIdx + 1
  BY <1>1 DEF U!L!StartLine, U!L!TakeUsable, U!L!Take, U!L!Phys, Line, U!L!IsContinuation, Continues,
     ReaderTypes
<1>3. kinds \in Seq(Kind)
  BY <1>1, KindsOf
<1>4. PICK new \in Seq(Repair) :
             /\ lRepairs' = lRepairs \o new
             /\ new = <<>> <=> kinds = <<>>
             /\ OnlyJoins(new) <=> \A i \in DOMAIN kinds : kinds[i] = "JoinedQuotedPrintable"
  <2>1. lIdx' \in Nat
    BY <1>2
  <2> QED BY <1>2, <1>3, <2>1, Reported
<1>5. lOut' \in Seq(Logical) /\ lOut' # <<>>
  <2>1. [text |-> Line.text, line |-> lIdx + 1] \in Logical
    BY DEF Logical, Physical
  <2> QED BY SMTT(30), <1>2, <2>1, Pushed DEF ReaderTypes
<1>6. (new = <<>> => lSoftBreak' = FALSE) /\ lSoftBreak' \in BOOLEAN
  BY <1>1, <1>2, <1>4, KindsOf DEF U!L!Breaks
<1>7. Plain(lOut, Line) => OnlyJoins(new)
  BY <1>1, <1>4, KindsOf DEF Plain
<1>8. new = <<>> => Plain(lOut, Line)
  BY <1>1, <1>2, <1>4, KindsOf DEF Plain
<1>9. lOut' = Taken(lOut, lIdx, Line.text)
  BY <1>2 DEF Taken
<1>10. Plain(lOut, Line) /\ (~SoftEnd(Line.text) \/ lIdx + 1 = Len(physical)) => new = <<>>
  <2>1. ~SoftEnd(Line.text) \/ lIdx + 1 = Len(physical) => ~U!L!Breaks(Line.text)
    BY <1>2 DEF U!L!Breaks, SoftEnd
  <2> QED BY <1>1, <1>4, <2>1, KindsOf DEF Plain
<1> QED BY <1>2, <1>4, <1>5, <1>6, <1>7, <1>8, <1>9, <1>10 DEF Handles

LEMMA AppendContinuationStep ==
  ASSUME ReaderTypes, lIdx \in Nat, lIdx < Len(physical), Line \in Physical, U!L!AppendContinuation
  PROVE  \E new \in Seq(Repair) : Handles(new)
<1>1. PICK kinds : kinds = U!L!LooseEnding
  OBVIOUS
<1>2. /\ lSoftBreak = FALSE /\ lSoftBreak' = FALSE /\ Continues(Line.text) /\ lOut # <<>>
      /\ lOut' = [lOut EXCEPT ![Len(lOut)].text = @ \o Tail(Line.text)]
      /\ U!L!Repaired(kinds) /\ lIdx' = lIdx + 1
  BY <1>1 DEF U!L!AppendContinuation, U!L!TakeUsable, U!L!Take, U!L!Phys, Line, U!L!IsContinuation,
     Continues, ReaderTypes
<1>3. kinds \in Seq(Kind) /\ (kinds = <<>> <=> ~Line.loose)
  <2>1. "LooseLineEnding" \in Kind
    BY DEF Kind
  <2> QED BY <1>1, <2>1, EndingKinds
<1>4. PICK new \in Seq(Repair) :
             /\ lRepairs' = lRepairs \o new
             /\ new = <<>> <=> kinds = <<>>
             /\ OnlyJoins(new) <=> \A i \in DOMAIN kinds : kinds[i] = "JoinedQuotedPrintable"
  <2>1. lIdx' \in Nat
    BY <1>2
  <2> QED BY <1>2, <1>3, <2>1, Reported
<1>5. lOut' = Taken(lOut, lIdx, Line.text)
  BY <1>2 DEF Taken
<1>6. Plain(lOut, Line) <=> ~Line.loose
  BY <1>2 DEF Plain, Continues
<1>7. OnlyJoins(<<>>)
  BY DEF OnlyJoins
<1>8. lOut' \in Seq(Logical) /\ lOut' # <<>>
  <2>1. Line.text \in Text /\ Line.text # <<>>
    BY <1>2 DEF Physical, Continues
  <2>2. Tail(Line.text) \in Text
    BY <2>1, Behead DEF Text
  <2>3. Len(lOut) \in DOMAIN lOut /\ lOut \in Seq(Logical) /\ lOut[Len(lOut)] \in Logical
    BY <1>2 DEF ReaderTypes
  <2>4. lOut[Len(lOut)].text \o Tail(Line.text) \in Text
    BY <2>2, <2>3 DEF Logical, Text
  <2>5. lOut' = [lOut EXCEPT ![Len(lOut)].text = lOut[Len(lOut)].text \o Tail(Line.text)]
    BY <1>2
  <2> QED BY <1>2, <2>3, <2>4, <2>5, LastChanged
<1> QED BY <1>2, <1>3, <1>4, <1>5, <1>6, <1>7, <1>8 DEF Handles

LEMMA SkipBlankLineStep ==
  ASSUME ReaderTypes, lIdx \in Nat, lIdx < Len(physical), Line \in Physical, U!L!SkipBlankLine
  PROVE  \E new \in Seq(Repair) : Handles(new)
<1>1. PICK kinds : kinds = U!L!LooseEnding \o <<"SkippedBlankLine">>
  OBVIOUS
<1>2. /\ lSoftBreak = FALSE /\ lSoftBreak' = FALSE /\ Line.text = <<>> /\ lOut' = lOut
      /\ U!L!Repaired(kinds) /\ lIdx' = lIdx + 1
  BY <1>1 DEF U!L!SkipBlankLine, U!L!TakeUsable, U!L!Take, U!L!Phys, U!L!Fail, Line, ReaderTypes
<1>3. kinds \in Seq(Kind) /\ kinds # <<>>
  <2>1. "SkippedBlankLine" \in Kind
    BY DEF Kind
  <2> QED BY <1>1, <2>1, EndingKinds
<1>4. PICK new \in Seq(Repair) : lRepairs' = lRepairs \o new /\ (new = <<>> <=> kinds = <<>>)
  <2>1. lIdx' \in Nat
    BY <1>2
  <2> QED BY <1>2, <1>3, <2>1, Reported
<1>5. ~Plain(lOut, Line)
  BY <1>2 DEF Plain
<1> QED BY <1>2, <1>3, <1>4, <1>5 DEF Handles, ReaderTypes

LEMMA LeadingContinuationStep ==
  ASSUME ReaderTypes, lIdx \in Nat, lIdx < Len(physical), Line \in Physical, U!L!LeadingContinuation
  PROVE  \E new \in Seq(Repair) : Handles(new)
<1>1. PICK kinds : kinds = U!L!LooseEnding \o <<"LeadingContinuationTreatedAsLine">>
  OBVIOUS
<1>2. /\ lSoftBreak = FALSE /\ lSoftBreak' = FALSE /\ Continues(Line.text) /\ lOut = <<>>
      /\ lOut' = <<[text |-> Tail(Line.text), line |-> lIdx + 1]>>
      /\ U!L!Repaired(kinds) /\ lIdx' = lIdx + 1
  BY <1>1 DEF U!L!LeadingContinuation, U!L!TakeUsable, U!L!Take, U!L!Phys, U!L!Fail, Line,
     U!L!IsContinuation, Continues, ReaderTypes
<1>3. kinds \in Seq(Kind) /\ kinds # <<>>
  <2>1. "LeadingContinuationTreatedAsLine" \in Kind
    BY DEF Kind
  <2> QED BY <1>1, <2>1, EndingKinds
<1>4. PICK new \in Seq(Repair) : lRepairs' = lRepairs \o new /\ (new = <<>> <=> kinds = <<>>)
  <2>1. lIdx' \in Nat
    BY <1>2
  <2> QED BY <1>2, <1>3, <2>1, Reported
<1>5. ~Plain(lOut, Line)
  BY <1>2 DEF Plain
<1>6. lOut' \in Seq(Logical) /\ lOut' # <<>>
  <2>1. Line.text \in Text /\ Line.text # <<>>
    BY <1>2 DEF Physical, Continues
  <2>2. Tail(Line.text) \in Text
    BY <2>1, Behead DEF Text
  <2>3. [text |-> Tail(Line.text), line |-> lIdx + 1] \in Logical
    BY <2>2 DEF Logical
  <2> QED BY <1>2, <2>3, One
<1> QED BY <1>2, <1>3, <1>4, <1>5, <1>6 DEF Handles

\* The lenient reader's step, whatever the line.
LEMMA LenientStep ==
  ASSUME ReaderTypes, U!L!Next
  PROVE  /\ lOutcome = "reading" /\ physical' = physical
         /\ \/ /\ lIdx = Len(physical) /\ lOutcome' = "done"
               /\ UNCHANGED <<lIdx, lOut, lSoftBreak, lRepairs>>
            \/ /\ lIdx < Len(physical) /\ lIdx' = lIdx + 1 /\ lOutcome' = "reading"
               /\ \E new \in Seq(Repair) : Handles(new)
<1>1. CASE U!L!Finish
  BY <1>1 DEF U!L!Finish, ReaderTypes
<1>2. ASSUME U!L!Take, lOutcome' = lOutcome, \E new \in Seq(Repair) : Handles(new)
      PROVE  /\ lOutcome = "reading" /\ physical' = physical
             /\ lIdx < Len(physical) /\ lIdx' = lIdx + 1 /\ lOutcome' = "reading"
             /\ \E new \in Seq(Repair) : Handles(new)
  BY <1>2 DEF U!L!Take
<1>3. U!L!Take => lIdx \in Nat /\ lIdx < Len(physical) /\ Line \in Physical
  <2> SUFFICES ASSUME U!L!Take PROVE lIdx \in Nat /\ lIdx < Len(physical) /\ Line \in Physical
    OBVIOUS
  <2>1. lIdx \in Nat /\ lIdx < Len(physical) /\ physical \in Seq(Physical)
    BY DEF U!L!Take, ReaderTypes
  <2>2. lIdx + 1 \in DOMAIN physical
    BY <2>1
  <2> QED BY <2>1, <2>2 DEF Line
<1>4. CASE U!L!RejectLooseEnding
  BY <1>4 DEF U!L!RejectLooseEnding, U!L!Fail
<1>5. CASE U!L!JoinSoftBreak
  <2>1. U!L!Take /\ lOutcome' = lOutcome
    BY <1>5 DEF U!L!JoinSoftBreak, U!L!TakeUsable
  <2> QED BY <1>2, <1>3, <1>5, <2>1, JoinSoftBreakStep
<1>6. CASE U!L!SkipBlankLine
  <2>1. U!L!Take /\ lOutcome' = lOutcome
    BY <1>6 DEF U!L!SkipBlankLine, U!L!TakeUsable, U!L!Fail
  <2> QED BY <1>2, <1>3, <1>6, <2>1, SkipBlankLineStep
<1>7. CASE U!L!AppendContinuation
  <2>1. U!L!Take /\ lOutcome' = lOutcome
    BY <1>7 DEF U!L!AppendContinuation, U!L!TakeUsable
  <2> QED BY <1>2, <1>3, <1>7, <2>1, AppendContinuationStep
<1>8. CASE U!L!LeadingContinuation
  <2>1. U!L!Take /\ lOutcome' = lOutcome
    BY <1>8 DEF U!L!LeadingContinuation, U!L!TakeUsable, U!L!Fail
  <2> QED BY <1>2, <1>3, <1>8, <2>1, LeadingContinuationStep
<1>9. CASE U!L!StartLine
  <2>1. U!L!Take /\ lOutcome' = lOutcome
    BY <1>9 DEF U!L!StartLine, U!L!TakeUsable
  <2> QED BY <1>2, <1>3, <1>9, <2>1, StartLineStep
<1> QED BY <1>1, <1>4, <1>5, <1>6, <1>7, <1>8, <1>9 DEF U!L!Next


-----------------------------------------------------------------------------
(* Both readers, on any document. *)

\* The strict reader stays where it failed, and the lenient one has by then
\* repaired something.
LEMMA FailedStep ==
  ASSUME Reading, U!L!Next, sOutcome \in U!S!ErrorKinds, UNCHANGED U!strictVars
  PROVE  Reading'
<1>1. UNCHANGED <<sIdx, sOut, sSoftBreak, sRepairs, sOutcome>>
  BY DEF U!strictVars
<1>2. sOutcome \notin {"reading", "done"}
  BY DEF U!S!ErrorKinds
<1>3. lRepairs # <<>>
  BY <1>2 DEF Reading, InStep, ReaderTypes
<1>4. PICK old : old = lRepairs
  OBVIOUS
<1>5. CASE lIdx = Len(physical) /\ lOutcome' = "done" /\ UNCHANGED <<physical, lIdx, lOut, lSoftBreak, lRepairs>>
  BY <1>1, <1>2, <1>3, <1>5 DEF Reading, ReaderTypes, InStep
<1>6. CASE /\ physical' = physical
           /\ lIdx < Len(physical) /\ lIdx' = lIdx + 1 /\ lOutcome' = "reading"
           /\ \E new \in Seq(Repair) : Handles(new)
  <2>1. PICK new \in Seq(Repair) : Handles(new)
    BY <1>6
  <2>2. old \in Seq(Repair) /\ lRepairs' = old \o new /\ old # <<>>
    BY <1>3, <1>4, <2>1 DEF Handles, Reading, ReaderTypes
  <2>3. lRepairs' \in Seq(Repair) /\ lRepairs' # <<>>
    BY <2>2, RepairsAdded
  <2>4. lIdx' \in 0..Len(physical)
    BY <1>6 DEF Reading, ReaderTypes
  <2>5. lOut' \in Seq(Logical) /\ lSoftBreak' \in BOOLEAN /\ (lSoftBreak' => lOut' # <<>>)
    BY <2>1 DEF Handles
  <2>6. ReaderTypes'
    BY <1>1, <1>6, <2>3, <2>4, <2>5 DEF Reading, ReaderTypes
  <2>7. InStep'
    BY <1>1, <1>2, <2>3 DEF InStep
  <2> QED BY <2>6, <2>7 DEF Reading
<1> QED BY <1>5, <1>6, LenientStep DEF Reading

\* Neither has failed: they take the next line together.
LEMMA TogetherStep ==
  ASSUME Reading, U!L!Next, U!S!Next
  PROVE  Reading'
<1>1. /\ sOutcome = "reading" /\ lOutcome = "reading" /\ sIdx = lIdx
      /\ OnlyJoins(lRepairs) /\ (sOut = <<>> <=> lOut = <<>>)
      /\ ReaderTypes /\ lRepairs \in Seq(Repair)
  BY StrictStep DEF Reading, InStep, ReaderTypes
<1>2. /\ physical' = physical /\ sSoftBreak' = FALSE
      /\ Len(physical) \in Nat /\ ~(Len(physical) < Len(physical))
  <2>1. physical \in Seq(Physical)
    BY <1>1 DEF ReaderTypes
  <2> QED BY <1>1, <2>1, StrictStep
<1>3. CASE sIdx = Len(physical)
  <2>1. sOutcome' = "done" /\ UNCHANGED <<sIdx, sOut>>
    BY <1>1, <1>2, <1>3, StrictStep
  <2>2. lOutcome' = "done" /\ UNCHANGED <<lIdx, lOut, lSoftBreak, lRepairs>>
    BY <1>1, <1>2, <1>3, LenientStep
  <2> QED BY <1>1, <1>2, <2>1, <2>2 DEF Reading, ReaderTypes, InStep
<1>4. CASE sIdx < Len(physical)
  <2>1. PICK phys, t : phys = physical[sIdx + 1] /\ t = Taken(sOut, sIdx, physical[sIdx + 1].text)
    OBVIOUS
  <2>2. phys = Line /\ phys \in Physical /\ sIdx \in Nat /\ sOut \in Seq(Logical)
    <3>1. sIdx \in Nat /\ sIdx + 1 \in DOMAIN physical /\ physical \in Seq(Physical)
      BY <1>1, <1>4 DEF ReaderTypes
    <3> QED BY <1>1, <2>1, <3>1 DEF Line, ReaderTypes
  <2>3. /\ sIdx' = sIdx + 1
        /\ \/ Plain(sOut, phys) /\ sOutcome' = "reading" /\ sOut' = t
           \/ ~Plain(sOut, phys) /\ sOutcome' \in U!S!ErrorKinds /\ sOut' = sOut
    BY <1>1, <1>4, <2>1, StrictStep
  <2>4. PICK new \in Seq(Repair) : Handles(new)
    BY <1>1, <1>4, LenientStep
  <2>5. lIdx' = lIdx + 1 /\ lOutcome' = "reading"
    BY <1>1, <1>4, LenientStep
  <2>6. PICK old : old = lRepairs
    OBVIOUS
  <2>7. /\ lRepairs' = old \o new /\ old \o new \in Seq(Repair)
        /\ (new = <<>> => old \o new = old) /\ (new # <<>> => old \o new # <<>>)
        /\ OnlyJoins(old \o new) <=> OnlyJoins(old) /\ OnlyJoins(new)
    BY <1>1, <2>4, <2>6, RepairsAdded DEF Handles
  <2>8. old # <<>> => old \o new # <<>>
    BY <2>7
  <2>9. Plain(sOut, phys) <=> Plain(lOut, Line)
    BY <1>1, <2>2 DEF Plain
  <2>10. Plain(sOut, phys) => t \in Seq(Logical) /\ t # <<>>
    BY <2>1, <2>2, LineTaken
  <2>11. ReaderTypes'
    <3>1. sIdx' \in 0..Len(physical) /\ lIdx' \in 0..Len(physical)
      BY <1>1, <1>4, <2>2, <2>3, <2>5 DEF ReaderTypes
    <3>2. sOut' \in Seq(Logical) /\ sOutcome' \in {"reading", "done"} \cup U!S!ErrorKinds
      BY <2>2, <2>3, <2>10
    <3>3. lOut' \in Seq(Logical) /\ lSoftBreak' \in BOOLEAN /\ (lSoftBreak' => lOut' # <<>>)
      BY <2>4 DEF Handles
    <3> QED BY <1>1, <1>2, <2>5, <2>7, <3>1, <3>2, <3>3 DEF ReaderTypes
  <2>12. ASSUME lRepairs' = <<>>
         PROVE  sIdx' = lIdx' /\ sOut' = lOut' /\ sOutcome' = lOutcome' /\ lSoftBreak' = FALSE
    <3>1. old = <<>> /\ new = <<>>
      BY <2>7, <2>8, <2>12
    <3>2. lSoftBreak = FALSE /\ sOut = lOut
      BY <2>6, <3>1 DEF Reading, InStep
    <3>3. Plain(lOut, Line) /\ lOut' = Taken(lOut, lIdx, Line.text) /\ lSoftBreak' = FALSE
      BY <2>4, <3>1, <3>2 DEF Handles
    <3>4. lOut' = t
      BY <1>1, <2>1, <2>2, <3>2, <3>3
    <3> QED BY <1>1, <2>3, <2>5, <2>9, <3>3, <3>4
  <2>13. ASSUME sOutcome' \in {"reading", "done"}
         PROVE  /\ sIdx' = lIdx' /\ sOutcome' = lOutcome' /\ OnlyJoins(lRepairs)'
                /\ (sOut = <<>> <=> lOut = <<>>)'
    <3>1. Plain(sOut, phys)
      BY <2>3, <2>13 DEF U!S!ErrorKinds
    <3>2. lOut' # <<>> /\ OnlyJoins(new)
      BY <2>4, <2>9, <3>1 DEF Handles
    <3>3. OnlyJoins(old \o new)
      BY <1>1, <2>6, <2>7, <3>2
    <3>4. OnlyJoins(lRepairs)'
      BY <2>7, <3>3 DEF OnlyJoins
    <3>5. sOut' # <<>>
      BY <2>3, <2>10, <3>1
    <3> QED BY <1>1, <2>3, <2>5, <3>1, <3>2, <3>4, <3>5
  <2> QED BY <2>11, <2>12, <2>13 DEF Reading, InStep
<1> QED BY <1>1, <1>3, <1>4, StrictStep

LEMMA ReadingKept == ASSUME Reading, U!Next PROVE Reading'
<1>1. U!L!Next /\ (U!S!Next \/ (sOutcome \in U!S!ErrorKinds /\ UNCHANGED U!strictVars))
  BY DEF U!Next
<1> QED BY <1>1, FailedStep, TogetherStep


-----------------------------------------------------------------------------
(* The document that Send hands over. *)

LEMMA Wider == ASSUME NEW A, NEW B, A \subseteq B PROVE Seq(A) \subseteq Seq(B)
<1> SUFFICES ASSUME NEW s \in Seq(A) PROVE s \in Seq(B)
  OBVIOUS
<1>1. Len(s) \in Nat /\ DOMAIN s = 1..Len(s) /\ \A i \in 1..Len(s) : s[i] \in B
  OBVIOUS
<1>2. s = [i \in 1..Len(s) |-> s[i]]
  OBVIOUS
<1> QED BY <1>1, <1>2

Neighbours == Followers \cup {<<>>}

LEMMA OfLetters ==
  /\ Seq(Chars) \subseteq Text /\ <<" ">> \in Text
  /\ Before \in Seq(Text) /\ Before # <<>>
  /\ \A lines \in Neighbours : lines \in Seq(Text)
  /\ Inputs \subseteq Seq(Physical)
<1>1. STRING \subseteq Letter /\ Chars \subseteq Letter /\ " " \in Letter
  BY DocumentsAssumption DEF Letter
<1>2. Seq(STRING) \subseteq Text /\ Seq(Chars) \subseteq Text
  BY <1>1, Wider DEF Text
<1>3. Seq(Seq(STRING)) \subseteq Seq(Text)
  BY <1>2, Wider
<1>4. [text : Seq(STRING), loose : BOOLEAN] \subseteq Physical
  BY <1>2 DEF Physical
<1>5. Seq([text : Seq(STRING), loose : BOOLEAN]) \subseteq Seq(Physical)
  BY <1>4, Wider
<1>6. <<" ">> \in Text
  BY <1>1, One DEF Text
<1>7. <<>> \in Seq(Text)
  OBVIOUS
<1> QED BY <1>2, <1>3, <1>5, <1>6, <1>7, DocumentsAssumption DEF Neighbours

LEMMA TerminatedLines ==
  ASSUME NEW lines \in Seq(Text), NEW t, t = Terminated(lines)
  PROVE  /\ t \in Seq(Physical) /\ Len(t) = Len(lines)
         /\ \A i \in 1..Len(lines) : t[i].text = lines[i] /\ t[i].loose = FALSE
<1>1. DOMAIN lines = 1..Len(lines) /\ Len(lines) \in Nat /\ \A i \in 1..Len(lines) : lines[i] \in Text
  OBVIOUS
<1>2. t = [i \in 1..Len(lines) |-> [text |-> lines[i], loose |-> FALSE]]
  BY <1>1 DEF Terminated
<1>3. \A i \in 1..Len(lines) : t[i] \in Physical /\ t[i].text = lines[i] /\ t[i].loose = FALSE
  BY <1>1, <1>2 DEF Physical
<1>4. t \in Seq(Physical) /\ Len(t) = Len(lines)
  BY <1>1, <1>2, <1>3
<1> QED BY <1>3, <1>4

\* A chunk as it is written: all but the first behind a fold marker.
Marked(i) == IF i = 1 THEN chunks[i] ELSE <<" ">> \o chunks[i]

LEMMA MarkedLines ==
  ASSUME FoldTypes, NEW m, m = [i \in DOMAIN chunks |-> Marked(i)]
  PROVE  m \in Seq(Text) /\ Len(m) = Len(chunks) /\ \A i \in 1..Len(chunks) : m[i] = Marked(i)
<1>1. /\ chunks \in Seq(Seq(Chars)) /\ DOMAIN chunks = 1..Len(chunks) /\ Len(chunks) \in Nat
      /\ \A i \in 1..Len(chunks) : chunks[i] \in Seq(Chars)
  BY DEF FoldTypes
<1>2. \A i \in 1..Len(chunks) : chunks[i] \in Text /\ <<" ">> \o chunks[i] \in Text
  <2> SUFFICES ASSUME NEW i \in 1..Len(chunks) PROVE chunks[i] \in Text /\ <<" ">> \o chunks[i] \in Text
    OBVIOUS
  <2>1. chunks[i] \in Text /\ <<" ">> \in Text
    BY <1>1, OfLetters
  <2> QED BY <2>1, Joined DEF Text
<1>3. \A i \in 1..Len(chunks) : Marked(i) \in Text
  BY <1>2 DEF Marked
<1> QED BY <1>1, <1>3

\* Line after line of a written document.
WrittenIs(w, b, n, f) ==
  /\ b \in Nat /\ n \in Nat /\ f \in Nat
  /\ w \in Seq(Physical) /\ Len(w) = b + n + f
  /\ \A i \in 1..(b + n + f) : w[i].loose = FALSE
  /\ \A i \in 1..b : w[i].text = Before[i]
  /\ \A i \in 1..n : w[b + i].text = Marked(i)
  /\ \A i \in 1..f : w[b + n + i].text = follower[i]

LEMMA Written ==
  ASSUME FoldTypes, follower \in Neighbours
  PROVE  WrittenIs(WrittenLines, Len(Before), Len(chunks), Len(follower))
<1> SUFFICES ASSUME NEW w, w = WrittenLines,
                    NEW b, NEW n, NEW f, b = Len(Before), n = Len(chunks), f = Len(follower)
             PROVE  WrittenIs(w, b, n, f)
  OBVIOUS
<1>1. PICK m, tb, tm, tf : /\ m = [i \in DOMAIN chunks |-> Marked(i)]
                           /\ tb = Terminated(Before) /\ tm = Terminated(m) /\ tf = Terminated(follower)
  OBVIOUS
<1>2. m \in Seq(Text) /\ Len(m) = n /\ \A i \in 1..n : m[i] = Marked(i)
  BY <1>1, MarkedLines
<1>3. /\ tb \in Seq(Physical) /\ Len(tb) = b
      /\ \A i \in 1..b : tb[i].text = Before[i] /\ tb[i].loose = FALSE
  BY ZenonT(40), <1>1, OfLetters, TerminatedLines
<1>4. /\ tm \in Seq(Physical) /\ Len(tm) = n
      /\ \A i \in 1..n : tm[i].text = Marked(i) /\ tm[i].loose = FALSE
  <2>1. /\ tm \in Seq(Physical) /\ Len(tm) = Len(m)
        /\ \A i \in 1..Len(m) : tm[i].text = m[i] /\ tm[i].loose = FALSE
    <3>1. m \in Seq(Text) /\ tm = Terminated(m)
      BY <1>1, <1>2
    <3> QED BY ONLY <3>1, TerminatedLines
  <2> QED BY <1>2, <2>1
<1>5. /\ tf \in Seq(Physical) /\ Len(tf) = f
      /\ \A i \in 1..f : tf[i].text = follower[i] /\ tf[i].loose = FALSE
  BY ZenonT(40), <1>1, OfLetters, TerminatedLines
<1>6. w = (tb \o tm) \o tf
  <2>1. m = [i \in DOMAIN chunks |-> IF i = 1 THEN chunks[i] ELSE <<" ">> \o chunks[i]]
    BY <1>1 DEF Marked
  <2>2. w = Terminated(Before) \o Terminated(m) \o Terminated(follower)
    BY <2>1 DEF WrittenLines
  <2> QED BY <1>1, <2>2
<1>7. PICK u : u = tb \o tm
  OBVIOUS
<1>8. /\ u \in Seq(Physical) /\ Len(u) = b + n /\ (\A i \in 1..b : u[i] = tb[i])
      /\ \A i \in 1..n : u[b + i] = tm[i]
  <2>1. /\ u \in Seq(Physical) /\ Len(u) = Len(tb) + Len(tm) /\ (\A i \in 1..Len(tb) : u[i] = tb[i])
        /\ \A i \in 1..Len(tm) : u[Len(tb) + i] = tm[i]
    <3>1. tb \in Seq(Physical) /\ tm \in Seq(Physical)
      BY <1>3, <1>4
    <3> QED BY <1>7, <3>1, Joined
  <2> QED BY <1>3, <1>4, <2>1
<1>9. b \in Nat /\ n \in Nat /\ f \in Nat
  BY <1>3, <1>4, <1>5
<1>10. /\ w \in Seq(Physical) /\ Len(w) = b + n + f /\ (\A i \in 1..(b + n) : w[i] = u[i])
       /\ \A i \in 1..f : w[b + n + i] = tf[i]
  <2>1. w = u \o tf
    BY <1>6, <1>7
  <2>2. /\ w \in Seq(Physical) /\ Len(w) = Len(u) + Len(tf) /\ (\A i \in 1..Len(u) : w[i] = u[i])
        /\ \A i \in 1..Len(tf) : w[Len(u) + i] = tf[i]
    <3>1. u \in Seq(Physical) /\ tf \in Seq(Physical)
      BY <1>5, <1>8
    <3> QED BY <2>1, <3>1, Joined
  <2> QED BY <1>5, <1>8, <2>2
<1>11. \A i \in 1..b : w[i] = tb[i]
  BY <1>8, <1>9, <1>10
<1>12. \A i \in 1..n : w[b + i] = tm[i]
  <2> SUFFICES ASSUME NEW i \in 1..n PROVE w[b + i] = tm[i]
    OBVIOUS
  <2>1. b + i \in 1..(b + n)
    BY <1>9
  <2> QED BY <1>8, <1>10, <2>1
<1>13. ASSUME NEW i \in 1..(b + n + f) PROVE w[i].loose = FALSE
  <2>1. CASE i <= b
    <3>1. i \in 1..b
      BY <1>9, <2>1
    <3> QED BY <1>3, <1>11, <3>1
  <2>2. CASE b < i /\ i <= b + n
    <3>1. PICK k \in 1..n : i = b + k
      <4>1. i - b \in 1..n /\ i = b + (i - b)
        BY <1>9, <2>2
      <4> QED BY <4>1
    <3>2. w[b + k] = tm[k]
      BY <1>12
    <3> QED BY <1>4, <3>1, <3>2
  <2>3. CASE b + n < i
    <3>1. PICK k \in 1..f : i = b + n + k
      <4>1. i - b - n \in 1..f /\ i = b + n + (i - b - n)
        BY <1>9, <2>3
      <4> QED BY <4>1
    <3>2. w[b + n + k] = tf[k]
      BY <1>10
    <3> QED BY <1>5, <3>1, <3>2
  <2>4. i <= b \/ (b < i /\ i <= b + n) \/ b + n < i
    BY <1>9
  <2> QED BY <2>1, <2>2, <2>3, <2>4
<1>14. \A i \in 1..b : w[i].text = Before[i]
  BY <1>3, <1>11
<1>15. \A i \in 1..n : w[b + i].text = Marked(i)
  BY <1>4, <1>12
<1>16. \A i \in 1..f : w[b + n + i].text = follower[i]
  BY <1>5, <1>10
<1> QED BY <1>9, <1>10, <1>13, <1>14, <1>15, <1>16 DEF WrittenIs


-----------------------------------------------------------------------------
(* What every state keeps. *)

\* Nothing is read before the document is there.
Fresh ==
  /\ physical = <<>>
  /\ sIdx = 0 /\ sOut = <<>> /\ sSoftBreak = FALSE /\ sRepairs = <<>> /\ sOutcome = "reading"
  /\ lIdx = 0 /\ lOut = <<>> /\ lSoftBreak = FALSE /\ lRepairs = <<>> /\ lOutcome = "reading"

DocInv == FoldInv /\ Reading /\ follower \in Neighbours /\ sent \in BOOLEAN /\ (~sent => Fresh)

LEMMA FreshReads ==
  ASSUME NEW doc \in Seq(Physical), physical = doc,
         sIdx = 0, sOut = <<>>, sSoftBreak = FALSE, sOutcome = "reading",
         lIdx = 0, lOut = <<>>, lSoftBreak = FALSE, lRepairs = <<>>, lOutcome = "reading"
  PROVE  Reading
<1>1. Len(physical) \in Nat /\ 0 \in 0..Len(physical)
  OBVIOUS
<1>2. <<>> \in Seq(Logical) /\ <<>> \in Seq(Repair) /\ OnlyJoins(<<>>)
  BY DEF OnlyJoins
<1> QED BY <1>1, <1>2 DEF Reading, ReaderTypes, InStep

LEMMA DocInit == FRInit => DocInv
<1> SUFFICES ASSUME FRInit PROVE DocInv
  OBVIOUS
<1>1. /\ Init
      /\ sIdx = 0 /\ sOut = <<>> /\ sSoftBreak = FALSE /\ sRepairs = <<>> /\ sOutcome = "reading"
      /\ lIdx = 0 /\ lOut = <<>> /\ lSoftBreak = FALSE /\ lRepairs = <<>> /\ lOutcome = "reading"
  BY DEF FRInit, U!Init, U!S!Init, U!L!Init
<1>2. FoldInv
  BY <1>1, FoldInit
<1>3. /\ physical \in Inputs \cup {<<>>} /\ follower \in Neighbours
      /\ sent \in BOOLEAN /\ (~sent => physical = <<>>)
  BY DEF FRInit, U!Init, U!L!Init, Neighbours
<1>4. physical \in Seq(Physical)
  <2>1. <<>> \in Seq(Physical)
    OBVIOUS
  <2> QED BY <1>3, <2>1, OfLetters
<1>5. Reading
  BY <1>1, <1>4, FreshReads
<1> QED BY <1>1, <1>2, <1>3, <1>5 DEF DocInv, Fresh

\* A step that only moves the writer, or hands over the document.
LEMMA ReadersWait ==
  ASSUME Reading, UNCHANGED readerVars
  PROVE  Reading'
BY DEF Reading, ReaderTypes, InStep, OnlyJoins, readerVars

LEMMA DocKept == DocInv /\ [FRNext]_allVars => DocInv'
<1> SUFFICES ASSUME DocInv, [FRNext]_allVars PROVE DocInv'
  OBVIOUS
<1>1. [Next]_vars => FoldInv'
  BY FoldKept DEF DocInv
<1>2. CASE Fold
  <2>1. UNCHANGED readerVars /\ UNCHANGED <<sent, follower>> /\ Next /\ ~sent
    BY <1>2 DEF Fold
  <2>2. FoldInv' /\ Reading'
    BY <1>1, <2>1, ReadersWait DEF DocInv
  <2> QED BY <2>1, <2>2 DEF DocInv, Fresh, readerVars
<1>3. CASE Send
  <2>1. /\ UNCHANGED vars /\ follower' = follower /\ sent' = TRUE /\ Fresh
        /\ physical' = WrittenLines
        /\ UNCHANGED <<sIdx, sOut, sSoftBreak, sRepairs, sOutcome,
                       lIdx, lOut, lSoftBreak, lRepairs, lOutcome>>
    BY <1>3 DEF Send, DocInv
  <2>2. FoldInv'
    BY <1>1, <2>1
  <2>3. WrittenLines \in Seq(Physical)
    <3>1. FoldTypes /\ follower \in Neighbours
      BY DEF DocInv, FoldInv
    <3> QED BY <3>1, Written DEF WrittenIs
  <2>4. physical' \in Seq(Physical) /\ 0 \in 0..Len(physical')
    BY <2>1, <2>3
  <2>5. ReaderTypes'
    BY <2>1, <2>4 DEF Fresh, ReaderTypes, DocInv, Reading
  <2>6. InStep'
    BY <2>1 DEF Fresh, InStep, OnlyJoins, DocInv, Reading
  <2> QED BY <2>1, <2>2, <2>5, <2>6 DEF DocInv, Reading
<1>4. CASE Read
  <2>1. U!Next /\ UNCHANGED <<vars, sent, follower>> /\ sent
    BY <1>4 DEF Read
  <2>2. FoldInv' /\ Reading'
    BY <1>1, <2>1, ReadingKept DEF DocInv
  <2> QED BY <2>1, <2>2 DEF DocInv
<1>5. CASE UNCHANGED allVars
  <2>1. UNCHANGED readerVars /\ UNCHANGED <<sent, follower>> /\ UNCHANGED vars
    BY <1>5 DEF allVars
  <2>2. FoldInv' /\ Reading'
    BY <1>1, <2>1, ReadersWait DEF DocInv
  <2> QED BY <2>1, <2>2 DEF DocInv, Fresh, readerVars
<1> QED BY <1>2, <1>3, <1>4, <1>5 DEF FRNext

LEMMA DocInvariance == FRSpec => []DocInv
BY DocInit, DocKept, PTL DEF FRSpec

\* fold_into: whatever the readers do, each physical line written fits its
\* width, but for a single character wider than that.
THEOREM WrittenLinesFit == FRSpec => []WithinWidth
<1>1. DocInv => WithinWidth
  BY DEF DocInv, FoldInv
<1> QED BY <1>1, DocInvariance, PTL

\* unfold(): a document that lenient mode reads without a repair is read by
\* strict mode, into the same lines; and in one that strict mode reads, the
\* lenient mode repairs quoted-printable soft breaks at most.
THEOREM OnlySoftBreaksDiffer == FRSpec => []OnlySoftBreaksAmbiguous
<1>1. DocInv => OnlySoftBreaksAmbiguous
  BY DEF DocInv, Reading, InStep, OnlyJoins, OnlySoftBreaksAmbiguous, U!OnlySoftBreaksAmbiguous
<1> QED BY <1>1, DocInvariance, PTL


-----------------------------------------------------------------------------
(* What a reader makes of a line after others, as texts. *)

TakenText(texts, text) ==
  IF Continues(text)
    THEN LastReplaced(texts, texts[Len(texts)] \o Tail(text))
    ELSE Append(texts, text)

LEMMA TakenTextType ==
  ASSUME NEW texts \in Seq(Text), NEW text \in Text, text # <<>>,
         Continues(text) => texts # <<>>, NEW r, r = TakenText(texts, text)
  PROVE  /\ r \in Seq(Text) /\ r # <<>> /\ Tail(text) \in Text
         /\ Continues(text) => /\ texts[Len(texts)] \in Text
                               /\ texts[Len(texts)] \o Tail(text) \in Text
<1>1. Tail(text) \in Text
  BY Behead DEF Text
<1>2. CASE ~Continues(text)
  <2>1. r = Append(texts, text)
    BY <1>2 DEF TakenText
  <2> QED BY <1>1, <1>2, <2>1, Pushed
<1>3. CASE Continues(text)
  <2>1. PICK last : last = texts[Len(texts)]
    OBVIOUS
  <2>2. last \in Text
    BY <1>3, <2>1
  <2>3. last \o Tail(text) \in Text
    BY <1>1, <2>2, Joined DEF Text
  <2>4. r = LastReplaced(texts, last \o Tail(text))
    BY <1>3, <2>1 DEF TakenText
  <2>5. r \in Seq(Text) /\ r # <<>>
    BY <1>3, <2>3, <2>4, Replaced
  <2> QED BY <1>1, <2>1, <2>2, <2>3, <2>5
<1> QED BY <1>2, <1>3

\* A chunk behind its fold marker.
MarkedText(c) == <<" ">> \o c

LEMMA MarkedTextIs ==
  ASSUME NEW c \in Text, NEW m, m = MarkedText(c)
  PROVE  m \in Text /\ m # <<>> /\ Continues(m) /\ Tail(m) = c
<1>1. PICK mark : mark = " "
  OBVIOUS
<1>2. mark \in Letter /\ c \in Seq(Letter)
  BY <1>1 DEF Letter, Text
<1>3. m = <<mark>> \o c
  BY <1>1 DEF MarkedText
<1>4. m \in Seq(Letter) /\ m # <<>> /\ Head(m) = mark /\ Tail(m) = c
  BY <1>2, <1>3, Ahead
<1> QED BY <1>1, <1>4 DEF Continues, Text

\* A continuation is taken as if it had been part of the line.
TakenAsOne(texts, p, c) ==
  p \o c # <<>> /\ TakenText(TakenText(texts, p), MarkedText(c)) = TakenText(texts, p \o c)

LEMMA TakenOn ==
  ASSUME NEW texts \in Seq(Text), texts # <<>>, NEW p \in Text, p # <<>>, NEW c \in Text
  PROVE  TakenAsOne(texts, p, c)
<1> SUFFICES ASSUME NEW m, m = MarkedText(c), NEW q, q = p \o c
             PROVE  /\ q \in Text /\ q # <<>>
                    /\ TakenText(TakenText(texts, p), m) = TakenText(texts, q)
  BY DEF TakenAsOne
<1>1. m \in Text /\ m # <<>> /\ Continues(m) /\ Tail(m) = c
  BY MarkedTextIs
<1>2. q \in Text /\ q # <<>> /\ Head(q) = Head(p) /\ Tail(q) = Tail(p) \o c
  <2>1. p \in Seq(Letter) /\ c \in Seq(Letter)
    BY DEF Text
  <2>2. q \in Seq(Letter) /\ q # <<>> /\ Head(q) = Head(p) /\ Tail(q) = Tail(p) \o c
    BY <2>1, JoinedTail
  <2> QED BY <2>2 DEF Text
<1>3. Continues(q) <=> Continues(p)
  BY <1>2 DEF Continues
<1>4. PICK a : a = TakenText(texts, p)
  OBVIOUS
<1>5. TakenText(a, m) = LastReplaced(a, a[Len(a)] \o c)
  BY <1>1 DEF TakenText
<1>6. CASE Continues(p)
  <2>1. PICK last, rest : last = texts[Len(texts)] /\ rest = Tail(p)
    OBVIOUS
  <2>2. last \in Text /\ rest \in Text /\ last \o rest \in Text
    BY <1>6, <2>1, TakenTextType
  <2>3. PICK x, y : x = last \o rest /\ y = x \o c
    OBVIOUS
  <2>4. x \in Text /\ y \in Text /\ y = last \o (rest \o c)
    <3>1. last \in Seq(Letter) /\ rest \in Seq(Letter) /\ c \in Seq(Letter) /\ x \in Seq(Letter)
      BY <2>2, <2>3 DEF Text
    <3>2. (last \o rest) \o c = last \o (rest \o c)
      BY ONLY SMTT(30), <3>1
    <3>3. x \o c \in Seq(Letter)
      BY ONLY <3>1, Joined
    <3>4. y = last \o (rest \o c) /\ y \in Seq(Letter)
      BY <2>3, <3>2, <3>3
    <3> QED BY <3>1, <3>4 DEF Text
  <2>5. a = LastReplaced(texts, x)
    BY <1>4, <1>6, <2>1, <2>3 DEF TakenText
  <2>6. a[Len(a)] = x
    <3>1. Last(a) = x
      BY <2>4, <2>5, Replaced
    <3> QED BY <3>1 DEF Last
  <2>7. PICK u, v : u = TakenText(a, m) /\ v = TakenText(texts, q)
    OBVIOUS
  <2>8. u = LastReplaced(a, y)
    BY <1>5, <2>3, <2>6, <2>7
  <2>9. last \o Tail(q) = y
    BY <1>2, <2>1, <2>4
  <2>10. v = LastReplaced(texts, y)
    BY <1>3, <1>6, <2>1, <2>7, <2>9 DEF TakenText
  <2>11. u = v
    BY <1>6, <2>4, <2>5, <2>8, <2>10, ReplacedAgain
  <2> QED BY <1>2, <1>4, <2>7, <2>11
<1>7. CASE ~Continues(p)
  <2>1. a = Append(texts, p)
    BY <1>4, <1>7 DEF TakenText
  <2>2. a[Len(a)] = p
    BY <2>1
  <2>3. PICK u, v : u = TakenText(a, m) /\ v = TakenText(texts, q)
    OBVIOUS
  <2>4. u = LastReplaced(a, q)
    BY <1>5, <2>2, <2>3
  <2>5. v = Append(texts, q)
    BY <1>3, <1>7, <2>3 DEF TakenText
  <2>6. /\ a \in Seq(Text) /\ a # <<>> /\ Len(a) = Len(texts) + 1
        /\ \A i \in 1..Len(texts) : a[i] = texts[i]
    BY <2>1
  <2>7. u = v
    BY <1>2, <2>4, <2>5, <2>6, ReplacedPushed
  <2> QED BY <1>2, <1>4, <2>3, <2>7
<1> QED BY <1>6, <1>7


-----------------------------------------------------------------------------
(* A written line: its chunks put together again. *)

\* The line up to the end of its j-th chunk.
Prefix(cuts, j) == SubSeq(line, 1, cuts[j])

WrittenLine == FoldInv /\ done /\ line # <<>>

LEMMA CutTypes ==
  ASSUME WrittenLine, NEW cuts \in CutPlaces, CutAt(cuts), NEW n, n = Len(chunks)
  PROVE  /\ n \in Nat /\ n >= 1 /\ line \in Text /\ Len(line) \in Nat /\ Len(line) >= 1
         /\ cuts[0] = 0 /\ cuts[n] = Len(line)
         /\ \A j \in 0..n : cuts[j] \in 0..Len(line)
         /\ \A j \in 1..n : chunks[j] \in Text /\ Len(chunks[j]) = cuts[j] - cuts[j - 1]
<1>1. /\ line \in Seq(Chars) /\ chunks \in Seq(Seq(Chars)) /\ current = <<>> /\ next = <<>>
      /\ chunks # <<>> /\ line # <<>>
  BY DEF WrittenLine, FoldInv, FoldTypes, Filling
<1>2. n \in Nat /\ n >= 1 /\ DOMAIN chunks = 1..n /\ Len(line) \in Nat /\ Len(line) >= 1
  BY <1>1
<1>3. \A j \in 0..n : cuts[j] \in 0..Len(line)
  BY DEF CutPlaces
<1>4. /\ cuts[0] = 0 /\ Len(line) = cuts[n] + Len(current) + Len(next)
      /\ \A j \in 1..n : Len(chunks[j]) = cuts[j] - cuts[j - 1]
  BY <1>2 DEF CutAt
<1>5. cuts[n] = Len(line)
  <2>1. Len(current) = 0 /\ Len(next) = 0 /\ n \in 0..n
    BY <1>1, <1>2
  <2> QED BY <1>2, <1>3, <1>4, <2>1
<1>6. line \in Text /\ \A j \in 1..n : chunks[j] \in Text
  <2>1. \A j \in 1..n : chunks[j] \in Seq(Chars)
    BY <1>1, <1>2
  <2> QED BY <1>1, <2>1, OfLetters
<1> QED BY <1>2, <1>3, <1>4, <1>5, <1>6

\* Each chunk goes on where the last one ended.
ChunkAdded(cuts, j) ==
  /\ Prefix(cuts, j - 1) \in Text /\ Len(Prefix(cuts, j - 1)) = cuts[j - 1]
  /\ Prefix(cuts, j) \in Text /\ Len(Prefix(cuts, j)) = cuts[j]
  /\ Prefix(cuts, j) = Prefix(cuts, j - 1) \o chunks[j]

LEMMA PrefixGrows ==
  ASSUME WrittenLine, NEW cuts \in CutPlaces, CutAt(cuts), NEW j \in 1..Len(chunks)
  PROVE  ChunkAdded(cuts, j)
<1> SUFFICES ASSUME NEW p, p = Prefix(cuts, j - 1), NEW q, q = Prefix(cuts, j)
             PROVE  /\ p \in Text /\ Len(p) = cuts[j - 1] /\ q \in Text /\ Len(q) = cuts[j]
                    /\ q = p \o chunks[j]
  BY DEF ChunkAdded
<1>1. PICK n, c, from, to : n = Len(chunks) /\ c = chunks[j] /\ from = cuts[j - 1] /\ to = cuts[j]
  OBVIOUS
<1>2. /\ n \in Nat /\ line \in Text /\ Len(line) \in Nat /\ c \in Text /\ Len(c) = to - from
      /\ from \in 0..Len(line) /\ to \in 0..Len(line)
  <2>1. n \in Nat /\ line \in Text /\ Len(line) \in Nat
    BY <1>1, CutTypes
  <2>2. j \in 1..n /\ j - 1 \in 0..n /\ j \in 0..n
    BY <1>1, <2>1
  <2> QED BY <1>1, <2>1, <2>2, CutTypes
<1>3. \A i \in 1..Len(c) : c[i] = line[from + i]
  <2>1. c \in Seq(Letter) /\ j \in DOMAIN chunks
    BY <1>2 DEF Text, WrittenLine, FoldInv, FoldTypes
  <2>2. \A i \in DOMAIN c : c[i] = line[from + i]
    BY <1>1, <2>1 DEF CutAt
  <2> QED BY <2>1, <2>2
<1>4. line \in Seq(Letter) /\ c \in Seq(Letter)
  BY <1>2 DEF Text
<1>5. p \in Seq(Letter) /\ Len(p) = from /\ \A i \in 1..from : p[i] = line[i]
  <2>1. PICK first : first = SubSeq(line, 1, from)
    OBVIOUS
  <2>2. p = first
    BY <1>1, <2>1 DEF Prefix
  <2>3. line \in Seq(Letter) /\ from \in 0..Len(line)
    BY <1>2, <1>4
  <2>4. first \in Seq(Letter) /\ Len(first) = from /\ \A i \in 1..from : first[i] = line[i]
    BY <2>1, <2>3, Parts
  <2> QED BY <2>2, <2>4
<1>6. q \in Seq(Letter) /\ Len(q) = to /\ \A i \in 1..to : q[i] = line[i]
  <2>1. PICK first : first = SubSeq(line, 1, to)
    OBVIOUS
  <2>2. q = first
    BY <1>1, <2>1 DEF Prefix
  <2>3. line \in Seq(Letter) /\ to \in 0..Len(line)
    BY <1>2, <1>4
  <2>4. first \in Seq(Letter) /\ Len(first) = to /\ \A i \in 1..to : first[i] = line[i]
    BY <2>1, <2>3, Parts
  <2> QED BY <2>2, <2>4
<1>7. PICK r : r = p \o c
  OBVIOUS
<1>8. /\ r \in Seq(Letter) /\ Len(r) = Len(p) + Len(c) /\ (\A i \in 1..Len(p) : r[i] = p[i])
      /\ \A i \in 1..Len(c) : r[Len(p) + i] = c[i]
  BY <1>4, <1>5, <1>7, Joined
<1>9. Len(r) = Len(q)
  BY <1>2, <1>5, <1>6, <1>8
<1>10. ASSUME NEW i \in 1..Len(r) PROVE r[i] = q[i]
  <2>1. CASE i <= from
    <3>1. i \in 1..Len(p) /\ i \in 1..from /\ i \in 1..to
      BY <1>2, <1>5, <1>6, <1>9, <2>1
    <3> QED BY <1>5, <1>6, <1>8, <3>1
  <2>2. CASE from < i
    <3>1. PICK k \in 1..Len(c) : i = from + k
      <4>1. i - from \in 1..Len(c) /\ i = from + (i - from)
        BY <1>2, <1>6, <1>9, <2>2
      <4> QED BY <4>1
    <3>2. r[Len(p) + k] = c[k] /\ c[k] = line[from + k]
      BY <1>3, <1>8
    <3>3. q[i] = line[i]
      BY <1>6, <1>9
    <3> QED BY <1>5, <3>1, <3>2, <3>3
  <2> QED BY <1>2, <2>1, <2>2
<1>11. r = q
  BY <1>6, <1>8, <1>9, <1>10, SameSequence
<1> QED BY <1>1, <1>5, <1>6, <1>7, <1>11 DEF Text

LEMMA PrefixEnds ==
  ASSUME WrittenLine, NEW cuts \in CutPlaces, CutAt(cuts)
  PROVE  Prefix(cuts, 0) = <<>> /\ Prefix(cuts, Len(chunks)) = line
<1>1. cuts[0] = 0 /\ cuts[Len(chunks)] = Len(line) /\ line \in Text
  BY CutTypes
<1>2. SubSeq(line, 1, 0) = <<>> /\ SubSeq(line, 1, Len(line)) = line
  BY <1>1, FirstOnes DEF Text
<1> QED BY <1>1, <1>2 DEF Prefix

\* The first chunk starts the line, and does not end in a soft break when
\* another follows it.
LEMMA FirstChunk ==
  ASSUME WrittenLine, NEW cuts \in CutPlaces, CutAt(cuts)
  PROVE  /\ chunks[1] \in Text /\ chunks[1] # <<>> /\ cuts[1] >= 1
         /\ Prefix(cuts, 1) = chunks[1]
         /\ Len(chunks) = 1 => chunks[1] = line
         /\ Len(chunks) # 1 => ~SoftEnd(chunks[1])
<1>1. PICK n : n = Len(chunks)
  OBVIOUS
<1>2. /\ n \in Nat /\ n >= 1 /\ Len(line) >= 1 /\ cuts[0] = 0 /\ cuts[n] = Len(line)
      /\ (\A j \in 0..n : cuts[j] \in 0..Len(line)) /\ 1 \in 1..n /\ 1 \in 0..n
      /\ chunks[1] \in Text /\ Len(chunks[1]) = cuts[1] - cuts[1 - 1]
  BY <1>1, CutTypes
<1>3. chunks[1] # <<>> /\ (n # 1 => ~SoftEnd(chunks[1]))
  <2>1. CASE n = 1
    <3>1. Len(chunks[1]) # 0
      BY <1>2, <2>1
    <3> QED BY <2>1, <3>1
  <2>2. CASE n # 1
    <3>1. 1 \in DOMAIN chunks
      BY <1>1, <1>2 DEF WrittenLine, FoldInv, FoldTypes
    <3>2. chunks[1] # <<>> /\ (Last(chunks[1]) # "=" \/ AllEquals(chunks[1]))
      BY <1>1, <2>2, <3>1 DEF WrittenLine, FoldInv, FoldedSafely
    <3>3. CASE Last(chunks[1]) # "="
      BY <3>2, <3>3 DEF SoftEnd, U!L!EndsInSoftBreak, U!L!Last, Last
    <3>4. CASE AllEquals(chunks[1])
      BY <3>2, <3>4 DEF AllEquals, SoftEnd, U!L!EndsInSoftBreak, U!L!LooksQuotedPrintable
    <3> QED BY <3>2, <3>3, <3>4
  <2> QED BY <2>1, <2>2
<1>4. cuts[1] >= 1
  <2>1. Len(chunks[1]) \in Nat /\ Len(chunks[1]) # 0
    BY <1>2, <1>3 DEF Text
  <2>2. cuts[1] = Len(chunks[1])
    BY <1>2
  <2> QED BY <2>1, <2>2
<1>5. Prefix(cuts, 1) = chunks[1]
  <2>1. PICK p, q : p = Prefix(cuts, 1 - 1) /\ q = Prefix(cuts, 1)
    OBVIOUS
  <2>2. q = p \o chunks[1]
    <3>1. ChunkAdded(cuts, 1)
      BY <1>1, <1>2, PrefixGrows
    <3> QED BY <2>1, <3>1 DEF ChunkAdded
  <2>3. p = <<>>
    BY <2>1, PrefixEnds
  <2>4. <<>> \o chunks[1] = chunks[1]
    BY <1>2 DEF Text
  <2> QED BY <2>1, <2>2, <2>3, <2>4
<1>6. n = 1 => chunks[1] = line
  BY <1>1, <1>5, PrefixEnds
<1> QED BY <1>1, <1>2, <1>3, <1>4, <1>5, <1>6


-----------------------------------------------------------------------------
(* What a reader has made of a written document so far. *)

Handed == WrittenLine /\ follower \in Neighbours /\ physical = WrittenLines

Expected(cuts, i) ==
  IF i <= Len(Before) THEN SubSeq(Before, 1, i)
  ELSE IF i <= Len(Before) + Len(chunks) THEN TakenText(Before, Prefix(cuts, i - Len(Before)))
  ELSE TakenText(Before, line) \o SubSeq(follower, 1, i - Len(Before) - Len(chunks))

\* Within the written line, some of it has been read.
Begun(cuts, i) ==
  Len(Before) < i /\ i <= Len(Before) + Len(chunks) => cuts[i - Len(Before)] >= 1

\* A line of text that goes on as expected.
GoesOn(cuts, i, text) ==
  /\ text \in Text /\ text # <<>>
  /\ Expected(cuts, i) \in Seq(Text) /\ (Continues(text) => Expected(cuts, i) # <<>>)
  /\ TakenText(Expected(cuts, i), text) = Expected(cuts, i + 1)
  /\ Begun(cuts, i + 1)

LEMMA Surroundings ==
  ASSUME NEW lines, lines = Before \/ lines \in Neighbours, NEW i \in 1..Len(lines)
  PROVE  lines[i] \in Text /\ lines[i] # <<>> /\ ~Continues(lines[i]) /\ ~SoftEnd(lines[i])
<1>1. lines \in Seq(Text)
  BY OfLetters
<1>2. Whole(lines)
  <2>1. CASE lines = <<>>
    BY <2>1 DEF Whole
  <2>2. CASE lines # <<>>
    BY <2>2, DocumentsAssumption DEF Neighbours
  <2> QED BY <2>1, <2>2
<1>3. i \in DOMAIN lines /\ lines[i] \in Text
  BY <1>1
<1>4. lines[i] # <<>> /\ ~U!L!IsContinuation(lines[i]) /\ ~U!L!EndsInSoftBreak(lines[i])
  BY <1>2, <1>3 DEF Whole
<1> QED BY <1>3, <1>4 DEF Continues, SoftEnd, U!L!IsContinuation

\* A line before the written one.
LEMMA LineBefore ==
  ASSUME WrittenLine, NEW cuts \in CutPlaces, CutAt(cuts), NEW i \in 0..(Len(Before) - 1)
  PROVE  GoesOn(cuts, i, Before[i + 1])
<1>1. PICK b, text : b = Len(Before) /\ text = Before[i + 1]
  OBVIOUS
<1>2. Before \in Seq(Text) /\ b \in Nat /\ i \in Nat /\ i + 1 <= b /\ i <= b /\ i + 1 \in 1..b
  <2>1. Before \in Seq(Text)
    BY OfLetters
  <2>2. b \in Nat /\ i \in 0..(b - 1)
    BY <1>1, <2>1
  <2> QED BY <2>1, <2>2
<1>3. text \in Text /\ text # <<>> /\ ~Continues(text)
  BY <1>1, <1>2, Surroundings
<1>4. Expected(cuts, i) = SubSeq(Before, 1, i) /\ Expected(cuts, i + 1) = SubSeq(Before, 1, i + 1)
  BY <1>1, <1>2 DEF Expected
<1>5. SubSeq(Before, 1, i + 1) = Append(SubSeq(Before, 1, i), text)
  BY <1>1, <1>2, OneMore
<1>6. SubSeq(Before, 1, i) \in Seq(Text)
  BY <1>1, <1>2, FirstOnes
<1>7. TakenText(SubSeq(Before, 1, i), text) = Append(SubSeq(Before, 1, i), text)
  BY <1>3 DEF TakenText
<1>8. Begun(cuts, i + 1)
  BY <1>1, <1>2 DEF Begun
<1> QED BY <1>1, <1>3, <1>4, <1>5, <1>6, <1>7, <1>8 DEF GoesOn

\* A chunk of the written one.
LEMMA LineOfChunk ==
  ASSUME WrittenLine, NEW cuts \in CutPlaces, CutAt(cuts), NEW j \in 1..Len(chunks),
         NEW i, i = Len(Before) + j - 1, Begun(cuts, i)
  PROVE  GoesOn(cuts, i, Marked(j))
<1>1. PICK b, n : b = Len(Before) /\ n = Len(chunks)
  OBVIOUS
<1>2. /\ b \in Nat /\ b >= 1 /\ n \in Nat /\ j \in 1..n /\ j \in Nat /\ j >= 1 /\ j <= n
      /\ i = b + j - 1 /\ i + 1 = b + j
      /\ Before \in Seq(Text) /\ Before # <<>>
  <2>1. n \in Nat
    BY <1>1, CutTypes
  <2>2. Before \in Seq(Text) /\ Before # <<>>
    BY OfLetters
  <2>3. b \in Nat /\ b >= 1
    BY <1>1, <2>2
  <2> QED BY <1>1, <2>1, <2>2, <2>3
<1>3. PICK p, q, c : p = Prefix(cuts, j - 1) /\ q = Prefix(cuts, j) /\ c = chunks[j]
  OBVIOUS
<1>4. p \in Text /\ Len(p) = cuts[j - 1] /\ q \in Text /\ Len(q) = cuts[j] /\ q = p \o c /\ c \in Text
  <2>1. c \in Text
    BY <1>1, <1>2, <1>3, CutTypes
  <2>2. /\ p \in Text /\ Len(p) = cuts[j - 1] /\ q \in Text /\ Len(q) = cuts[j]
        /\ q = p \o chunks[j]
    <3>1. ChunkAdded(cuts, j)
      BY PrefixGrows
    <3> QED BY <1>3, <3>1 DEF ChunkAdded
  <2> QED BY <1>3, <2>1, <2>2
<1>5. Expected(cuts, i + 1) = TakenText(Before, q)
  <2>1. ~(i + 1 <= b) /\ i + 1 <= b + n /\ i + 1 - b = j
    BY <1>2
  <2> QED BY <1>1, <1>3, <2>1 DEF Expected
<1>6. Begun(cuts, i + 1) <=> cuts[j] >= 1
  <2>1. b < i + 1 /\ i + 1 <= b + n /\ i + 1 - b = j
    BY <1>2
  <2> QED BY <1>1, <2>1 DEF Begun
<1>7. CASE j = 1
  <2>1. c \in Text /\ c # <<>> /\ cuts[j] >= 1 /\ q = c
    BY <1>3, <1>7, FirstChunk
  <2>2. Marked(j) = c
    BY <1>3, <1>7 DEF Marked
  <2>3. i = b /\ Expected(cuts, i) = Before
    <3>1. i = b /\ i <= b
      BY <1>2, <1>7
    <3>2. SubSeq(Before, 1, b) = Before
      BY <1>1, <1>2, FirstOnes
    <3> QED BY <1>1, <3>1, <3>2 DEF Expected
  <2> QED BY <1>2, <1>5, <1>6, <2>1, <2>2, <2>3 DEF GoesOn
<1>8. CASE j # 1
  <2>1. ~(i <= b) /\ b < i /\ i <= b + n /\ i - b = j - 1
    BY <1>2, <1>8
  <2>2. Expected(cuts, i) = TakenText(Before, p)
    BY <1>1, <1>3, <2>1 DEF Expected
  <2>3. cuts[j - 1] >= 1
    BY <1>1, <2>1 DEF Begun
  <2>4. p # <<>>
    BY <1>4, <2>3
  <2>5. PICK m : m = MarkedText(c) /\ m = Marked(j)
    BY <1>3, <1>8 DEF Marked, MarkedText
  <2>6. m \in Text /\ m # <<>>
    BY <1>4, <2>5, MarkedTextIs
  <2>7. q # <<>> /\ TakenText(TakenText(Before, p), m) = TakenText(Before, q)
    <3>1. TakenAsOne(Before, p, c)
      BY <1>2, <1>4, <2>4, TakenOn
    <3> QED BY <1>4, <2>5, <3>1 DEF TakenAsOne
  <2>8. TakenText(Before, p) \in Seq(Text) /\ TakenText(Before, p) # <<>>
    BY <1>2, <1>4, <2>4, TakenTextType
  <2>9. cuts[j] >= 1
    <3>1. Len(q) \in Nat /\ Len(q) # 0
      BY <1>4, <2>7 DEF Text
    <3> QED BY <1>4, <3>1
  <2> QED BY <1>5, <1>6, <2>2, <2>5, <2>6, <2>7, <2>8, <2>9 DEF GoesOn
<1> QED BY <1>7, <1>8

\* A line after the written one.
LEMMA LineAfter ==
  ASSUME WrittenLine, NEW cuts \in CutPlaces, CutAt(cuts), follower \in Neighbours,
         NEW k \in 0..(Len(follower) - 1),
         NEW i, i = Len(Before) + Len(chunks) + k
  PROVE  GoesOn(cuts, i, follower[k + 1])
<1>1. PICK b, n, f, text : /\ b = Len(Before) /\ n = Len(chunks) /\ f = Len(follower)
                           /\ text = follower[k + 1]
  OBVIOUS
<1>2. /\ b \in Nat /\ n \in Nat /\ n >= 1 /\ f \in Nat /\ k \in Nat /\ k + 1 <= f /\ k + 1 \in 1..f
      /\ i = b + n + k /\ k \in 0..f /\ k \in 0..(f - 1)
      /\ Before \in Seq(Text) /\ Before # <<>> /\ follower \in Seq(Text)
      /\ line \in Text /\ line # <<>>
  <2>1. n \in Nat /\ n >= 1 /\ line \in Text
    BY <1>1, CutTypes
  <2>2. Before \in Seq(Text) /\ Before # <<>> /\ follower \in Seq(Text)
    BY OfLetters
  <2>3. b \in Nat /\ f \in Nat
    BY <1>1, <2>2
  <2>4. line # <<>>
    BY DEF WrittenLine
  <2> QED BY <1>1, <2>1, <2>2, <2>3, <2>4
<1>3. text \in Text /\ text # <<>> /\ ~Continues(text)
  BY <1>1, <1>2, Surroundings
<1>4. PICK x, s, t : /\ x = TakenText(Before, line) /\ s = SubSeq(follower, 1, k)
                     /\ t = SubSeq(follower, 1, k + 1)
  OBVIOUS
<1>5. x \in Seq(Text) /\ x # <<>>
  BY <1>2, <1>4, TakenTextType
<1>6. s \in Seq(Text) /\ t = Append(s, text) /\ (k = 0 => s = <<>>)
  <2>1. s \in Seq(Text) /\ (k = 0 => s = <<>>)
    BY <1>1, <1>2, <1>4, FirstOnes
  <2>2. t = Append(s, text)
    BY <1>1, <1>2, <1>4, OneMore
  <2> QED BY <2>1, <2>2
<1>7. Expected(cuts, i) = x \o s
  <2>1. CASE k = 0
    <3>1. ~(i <= b) /\ i <= b + n /\ i - b = n
      BY <1>2, <2>1
    <3>2. Expected(cuts, i) = x
      BY <1>1, <1>4, <3>1, PrefixEnds DEF Expected
    <3> QED BY <1>5, <1>6, <2>1, <3>2
  <2>2. CASE k # 0
    <3>1. ~(i <= b) /\ ~(i <= b + n) /\ i - b - n = k
      BY <1>2, <2>2
    <3>2. ~(i <= Len(Before)) /\ ~(i <= Len(Before) + Len(chunks)) /\ i - Len(Before) - Len(chunks) = k
      BY ONLY <1>1, <3>1
    <3>3. Expected(cuts, i) = TakenText(Before, line) \o SubSeq(follower, 1, k)
      BY ONLY <3>2 DEF Expected
    <3> QED BY <1>4, <3>3
  <2> QED BY <2>1, <2>2
<1>8. Expected(cuts, i + 1) = x \o t
  <2>1. PICK j : j = i + 1
    OBVIOUS
  <2>2. ~(j <= b) /\ ~(j <= b + n) /\ j - b - n = k + 1
    BY <1>2, <2>1
  <2>3. ~(j <= Len(Before)) /\ ~(j <= Len(Before) + Len(chunks)) /\ j - Len(Before) - Len(chunks) = k + 1
    BY ONLY <1>1, <2>2
  <2>4. Expected(cuts, j) = TakenText(Before, line) \o SubSeq(follower, 1, k + 1)
    BY ONLY <2>3 DEF Expected
  <2> QED BY <1>4, <2>1, <2>4
<1>9. x \o s \in Seq(Text) /\ x \o t = Append(x \o s, text)
  BY SMTT(30), <1>3, <1>5, <1>6
<1>10. TakenText(x \o s, text) = Append(x \o s, text)
  BY <1>3 DEF TakenText
<1>11. Begun(cuts, i + 1)
  BY <1>1, <1>2 DEF Begun
<1> QED BY <1>1, <1>3, <1>7, <1>8, <1>9, <1>10, <1>11 DEF GoesOn


\* The exception: a whole line that itself ends in a soft break, before another.
Exempt == SoftEnd(line) /\ Len(chunks) = 1 /\ follower # <<>>

Expects(cuts, i, phys) ==
  /\ phys \in Physical /\ phys.loose = FALSE /\ GoesOn(cuts, i, phys.text)
  /\ ~Exempt => Continues(phys.text) \/ ~SoftEnd(phys.text) \/ i + 1 = Len(physical)

LEMMA NextExpected ==
  ASSUME Handed, NEW cuts \in CutPlaces, CutAt(cuts), NEW i \in Nat, i < Len(physical),
         Begun(cuts, i)
  PROVE  Expects(cuts, i, physical[i + 1])
<1>1. PICK b, n, f, phys : /\ b = Len(Before) /\ n = Len(chunks) /\ f = Len(follower)
                           /\ phys = physical[i + 1]
  OBVIOUS
<1>2. WrittenLine /\ FoldTypes /\ follower \in Neighbours /\ physical = WrittenLines
  BY DEF Handed, WrittenLine, FoldInv
<1>3. /\ b \in Nat /\ n \in Nat /\ f \in Nat
      /\ physical \in Seq(Physical) /\ Len(physical) = b + n + f
      /\ \A k \in 1..(b + n + f) : physical[k].loose = FALSE
      /\ \A k \in 1..b : physical[k].text = Before[k]
      /\ \A k \in 1..n : physical[b + k].text = Marked(k)
      /\ \A k \in 1..f : physical[b + n + k].text = follower[k]
  <2>1. WrittenIs(physical, b, n, f)
    BY <1>1, <1>2, Written
  <2> QED BY <2>1 DEF WrittenIs
<1>4. phys \in Physical /\ phys.loose = FALSE
  <2>1. i + 1 \in 1..(b + n + f) /\ i + 1 \in DOMAIN physical
    BY <1>3
  <2> QED BY <1>1, <1>3, <2>1
<1>5. CASE i < b
  <2>1. i \in 0..(b - 1) /\ i + 1 \in 1..b
    BY <1>3, <1>5
  <2>2. phys.text = Before[i + 1]
    BY <1>1, <1>3, <2>1
  <2>3. GoesOn(cuts, i, Before[i + 1])
    BY <1>1, <1>2, <2>1, LineBefore
  <2>4. ~SoftEnd(Before[i + 1])
    BY <1>1, <2>1, Surroundings
  <2> QED BY <1>1, <1>4, <2>2, <2>3, <2>4 DEF Expects
<1>6. CASE b <= i /\ i < b + n
  <2>1. PICK j \in 1..n : i + 1 = b + j /\ i = b + j - 1
    <3>1. i + 1 - b \in 1..n /\ i + 1 = b + (i + 1 - b) /\ i = b + (i + 1 - b) - 1
      BY <1>3, <1>6
    <3> QED BY <3>1
  <2>2. phys.text = Marked(j)
    BY <1>1, <1>3, <2>1
  <2>3. GoesOn(cuts, i, Marked(j))
    BY <1>1, <1>2, <2>1, LineOfChunk
  <2>4. ASSUME ~Exempt PROVE Continues(Marked(j)) \/ ~SoftEnd(Marked(j)) \/ i + 1 = Len(physical)
    <3>1. CASE j # 1
      <4>1. chunks[j] \in Text
        BY <1>1, <1>2, CutTypes
      <4>2. Marked(j) = MarkedText(chunks[j])
        BY <3>1 DEF Marked, MarkedText
      <4> QED BY <4>1, <4>2, MarkedTextIs
    <3>2. CASE j = 1 /\ n # 1
      <4>1. Marked(j) = chunks[1]
        BY <3>2 DEF Marked
      <4> QED BY <1>1, <1>2, <3>2, <4>1, FirstChunk
    <3>3. CASE j = 1 /\ n = 1
      <4>1. Marked(j) = line
        BY <1>1, <1>2, <3>3, FirstChunk DEF Marked
      <4>2. CASE ~SoftEnd(line)
        BY <4>1, <4>2
      <4>3. CASE SoftEnd(line)
        <5>1. follower = <<>>
          BY <1>1, <2>4, <3>3, <4>3 DEF Exempt
        <5>2. f = 0
          BY <1>1, <5>1
        <5> QED BY <1>3, <2>1, <3>3, <5>2
      <4> QED BY <4>2, <4>3
    <3> QED BY <3>1, <3>2, <3>3
  <2> QED BY <1>1, <1>4, <2>2, <2>3, <2>4 DEF Expects
<1>7. CASE b + n <= i
  <2>1. PICK k \in 0..(f - 1) : i = b + n + k /\ i + 1 = b + n + (k + 1)
    <3>1. i - b - n \in 0..(f - 1) /\ i = b + n + (i - b - n) /\ i + 1 = b + n + ((i - b - n) + 1)
      BY <1>3, <1>7
    <3> QED BY <3>1
  <2>2. k + 1 \in 1..f
    BY <1>3, <2>1
  <2>3. phys.text = follower[k + 1]
    BY <1>1, <1>3, <2>1, <2>2
  <2>4. GoesOn(cuts, i, follower[k + 1])
    BY <1>1, <1>2, <2>1, LineAfter
  <2>5. ~SoftEnd(follower[k + 1])
    BY <1>1, <1>2, <2>2, Surroundings
  <2> QED BY <1>1, <1>4, <2>3, <2>4, <2>5 DEF Expects
<1> QED BY <1>3, <1>5, <1>6, <1>7

\* What is expected of the whole document.
LEMMA LastExpected ==
  ASSUME Handed, NEW cuts \in CutPlaces, CutAt(cuts)
  PROVE  Expected(cuts, Len(physical)) = ReadBack
<1>1. PICK b, n, f : b = Len(Before) /\ n = Len(chunks) /\ f = Len(follower)
  OBVIOUS
<1>2. WrittenLine /\ FoldTypes /\ follower \in Neighbours /\ physical = WrittenLines /\ line # <<>>
  BY DEF Handed, WrittenLine, FoldInv
<1>3. b \in Nat /\ n \in Nat /\ n >= 1 /\ f \in Nat /\ Len(physical) = b + n + f /\ line \in Text
  <2>1. WrittenIs(physical, b, n, f)
    BY <1>1, <1>2, Written
  <2>2. n >= 1 /\ line \in Text
    BY <1>1, <1>2, CutTypes
  <2> QED BY <2>1, <2>2 DEF WrittenIs
<1>4. Before \in Seq(Text) /\ Before # <<>> /\ follower \in Seq(Text) /\ b >= 1
  <2>1. Before \in Seq(Text) /\ Before # <<>> /\ follower \in Seq(Text)
    BY <1>2, OfLetters
  <2> QED BY <1>1, <2>1
<1>5. PICK x : x = TakenText(Before, line)
  OBVIOUS
<1>6. x \in Seq(Text)
  BY <1>2, <1>3, <1>4, <1>5, TakenTextType
<1>7. Expected(cuts, Len(physical)) = x \o follower
  <2>1. CASE f = 0
    <3>1. ~(b + n + f <= b) /\ b + n + f <= b + n /\ b + n + f - b = n
      BY <1>3, <2>1
    <3>2. Expected(cuts, Len(physical)) = x
      BY <1>1, <1>2, <1>3, <1>5, <3>1, PrefixEnds DEF Expected
    <3>3. follower = <<>>
      <4>1. follower \in Seq(Text) /\ Len(follower) = 0
        BY <1>1, <1>4, <2>1
      <4> QED BY <4>1, NoElements
    <3>4. x \o <<>> = x
      BY <1>6
    <3> QED BY <3>2, <3>3, <3>4
  <2>2. CASE f # 0
    <3>1. ~(b + n + f <= b) /\ ~(b + n + f <= b + n) /\ b + n + f - b - n = f
      BY <1>3, <2>2
    <3>2. SubSeq(follower, 1, f) = follower
      BY <1>1, <1>4, FirstOnes
    <3>3. PICK i \in Nat : i = b + n + f /\ ~(i <= b) /\ ~(i <= b + n) /\ i - b - n = f
      BY <1>3, <3>1
    <3>4. ~(i <= Len(Before)) /\ ~(i <= Len(Before) + Len(chunks)) /\ i - Len(Before) - Len(chunks) = f
      BY ONLY <1>1, <3>3
    <3>5. Expected(cuts, i) = TakenText(Before, line) \o SubSeq(follower, 1, f)
      BY ONLY <3>4 DEF Expected
    <3> QED BY <1>3, <1>5, <3>2, <3>3, <3>5
  <2> QED BY <2>1, <2>2
<1>8. CASE Head(line) # " "
  <2>1. x = Before \o <<line>>
    <3>1. x = Append(Before, line)
      BY <1>5, <1>8 DEF TakenText, Continues
    <3> QED BY <1>3, <1>4, <3>1
  <2> QED BY <1>7, <1>8, <2>1 DEF ReadBack
<1>9. CASE Head(line) = " "
  <2>1. Continues(line)
    BY <1>2, <1>9 DEF Continues
  <2>2. PICK y : y = Last(Before) \o Tail(line)
    OBVIOUS
  <2>3. y \in Text
    BY <1>2, <1>3, <1>4, <1>5, <2>1, <2>2, TakenTextType DEF Last
  <2>4. x = LastReplaced(Before, y)
    BY <1>5, <2>1, <2>2 DEF TakenText, Last
  <2>5. x = Front(Before) \o <<y>>
    BY <1>4, <2>3, <2>4, ReplacedIs
  <2> QED BY <1>7, <1>9, <2>2, <2>5 DEF ReadBack
<1> QED BY <1>8, <1>9


-----------------------------------------------------------------------------
(* Both readers, on a written document. *)

LEMMA TextsTaken ==
  ASSUME NEW out \in Seq(Logical), NEW i \in Nat, NEW phys \in Physical, Plain(out, phys)
  PROVE  U!S!Texts(Taken(out, i, phys.text)) = TakenText(U!S!Texts(out), phys.text)
<1>1. PICK n, text, r, a, b, c :
        /\ n = Len(out) /\ text = phys.text /\ r = Taken(out, i, text)
        /\ a = U!S!Texts(out) /\ b = U!S!Texts(r) /\ c = TakenText(a, text)
  OBVIOUS
<1>2. n \in Nat /\ DOMAIN out = 1..n /\ \A k \in 1..n : out[k] \in Logical /\ out[k].text \in Text
  <2>1. n \in Nat /\ DOMAIN out = 1..n /\ \A k \in 1..n : out[k] \in Logical
    BY <1>1
  <2>2. \A x \in Logical : x.text \in Text
    BY DEF Logical
  <2> QED BY <2>1, <2>2
<1>3. a \in Seq(Text) /\ Len(a) = n /\ \A k \in 1..n : a[k] = out[k].text
  <2>1. a = [k \in 1..n |-> out[k].text]
    BY <1>1, <1>2 DEF U!S!Texts
  <2> QED BY <1>2, <2>1
<1>4. text \in Text /\ text # <<>>
  BY <1>1 DEF Physical, Plain
<1>5. r \in Seq(Logical)
  BY <1>1, LineTaken
<1>6. b \in Seq(Text) /\ Len(b) = Len(r) /\ \A k \in 1..Len(r) : b[k] = r[k].text
  <2>1. DOMAIN r = 1..Len(r) /\ Len(r) \in Nat /\ \A k \in 1..Len(r) : r[k].text \in Text
    <3>1. DOMAIN r = 1..Len(r) /\ Len(r) \in Nat /\ \A k \in 1..Len(r) : r[k] \in Logical
      BY <1>5
    <3>2. \A x \in Logical : x.text \in Text
      BY DEF Logical
    <3> QED BY <3>1, <3>2
  <2>2. b = [k \in 1..Len(r) |-> r[k].text]
    BY <1>1, <2>1 DEF U!S!Texts
  <2> QED BY <2>1, <2>2
<1>7. CASE Continues(text)
  <2>1. n >= 1
    <3>1. out # <<>>
      BY <1>1, <1>7 DEF Plain
    <3> QED BY <1>1, <3>1
  <2>2. PICK x : x = out[n].text \o Tail(text)
    OBVIOUS
  <2>3. r = [out EXCEPT ![n].text = x]
    BY <1>1, <1>7, <2>2 DEF Taken
  <2>4. Len(r) = n /\ r[n].text = x /\ \A k \in 1..(n - 1) : r[k] = out[k]
    BY <1>1, <1>2, <2>1, <2>3 DEF Logical
  <2>5. a # <<>>
    BY <1>3, <2>1
  <2>6. x \in Text /\ c = LastReplaced(a, x)
    <3>1. a[n] = out[n].text /\ n = Len(a)
      BY <1>2, <1>3, <2>1
    <3>2. c = LastReplaced(a, a[Len(a)] \o Tail(text)) /\ a[Len(a)] \o Tail(text) = x
      BY <1>1, <1>7, <2>2, <3>1 DEF TakenText
    <3>3. a[Len(a)] \o Tail(text) \in Text
      BY <1>3, <1>4, <1>7, <2>5, TakenTextType
    <3> QED BY <3>2, <3>3
  <2>7. c \in Seq(Text) /\ Len(c) = n /\ c[n] = x /\ \A k \in 1..(n - 1) : c[k] = a[k]
    <3>1. PICK z : z = [a EXCEPT ![n] = x]
      OBVIOUS
    <3>2. z \in Seq(Text) /\ Len(z) = n /\ z[n] = x /\ \A k \in 1..(n - 1) : z[k] = a[k]
      BY <1>2, <1>3, <2>1, <2>6, <3>1
    <3>3. c = z
      BY <1>3, <2>6, <3>1 DEF LastReplaced
    <3> QED BY <3>2, <3>3
  <2>8. \A k \in 1..n : b[k] = c[k]
    <3> SUFFICES ASSUME NEW k \in 1..n PROVE b[k] = c[k]
      OBVIOUS
    <3>1. k = n \/ k \in 1..(n - 1)
      BY <1>2
    <3> QED BY <1>3, <1>6, <2>4, <2>7, <3>1
  <2>9. b = c
    BY <1>6, <2>4, <2>7, <2>8, SameSequence
  <2> QED BY <1>1, <2>9
<1>8. CASE ~Continues(text)
  <2>1. r = Append(out, [text |-> text, line |-> i + 1]) /\ c = Append(a, text)
    BY <1>1, <1>8 DEF Taken, TakenText
  <2>2. /\ Len(r) = n + 1 /\ r[n + 1] = [text |-> text, line |-> i + 1]
        /\ \A k \in 1..n : r[k] = out[k]
    BY <1>1, <1>2, <2>1
  <2>3. c \in Seq(Text) /\ Len(c) = n + 1 /\ c[n + 1] = text /\ \A k \in 1..n : c[k] = a[k]
    BY <1>3, <1>4, <2>1
  <2>4. \A k \in 1..(n + 1) : b[k] = c[k]
    <3> SUFFICES ASSUME NEW k \in 1..(n + 1) PROVE b[k] = c[k]
      OBVIOUS
    <3>1. k = n + 1 \/ k \in 1..n
      BY <1>2
    <3>2. k \in 1..Len(r) /\ b[k] = r[k].text
      BY <1>6, <2>2
    <3> QED BY <1>3, <2>2, <2>3, <3>1, <3>2
  <2>5. b = c
    BY <1>6, <2>2, <2>3, <2>4, SameSequence
  <2> QED BY <1>1, <2>5
<1> QED BY <1>7, <1>8

\* The strict reader has what is expected of it, however the line was cut.
Met(out, i) ==
  \A cuts \in CutPlaces : CutAt(cuts) => Begun(cuts, i) /\ U!S!Texts(out) = Expected(cuts, i)

LEMMA NextMet ==
  ASSUME Handed, NEW i \in Nat, i < Len(physical), NEW out \in Seq(Logical), Met(out, i),
         NEW phys, phys = physical[i + 1]
  PROVE  /\ Plain(out, phys) /\ Met(Taken(out, i, phys.text), i + 1)
         /\ ~Exempt => Continues(phys.text) \/ ~SoftEnd(phys.text) \/ i + 1 = Len(physical)
<1>1. ASSUME NEW cuts \in CutPlaces, CutAt(cuts)
      PROVE  /\ Plain(out, phys) /\ Begun(cuts, i + 1)
             /\ U!S!Texts(Taken(out, i, phys.text)) = Expected(cuts, i + 1)
             /\ ~Exempt => Continues(phys.text) \/ ~SoftEnd(phys.text) \/ i + 1 = Len(physical)
  <2>1. Begun(cuts, i) /\ U!S!Texts(out) = Expected(cuts, i)
    BY <1>1 DEF Met
  <2>2. Expects(cuts, i, phys)
    BY <1>1, <2>1, NextExpected
  <2>3. phys \in Physical /\ phys.loose = FALSE /\ GoesOn(cuts, i, phys.text)
    BY <2>2 DEF Expects
  <2>4. Continues(phys.text) => out # <<>>
    <3>1. out = <<>> => U!S!Texts(out) = <<>>
      BY DEF U!S!Texts
    <3> QED BY <2>1, <2>3, <3>1 DEF GoesOn
  <2>5. Plain(out, phys)
    BY <2>3, <2>4 DEF Plain, GoesOn
  <2>6. U!S!Texts(Taken(out, i, phys.text)) = TakenText(U!S!Texts(out), phys.text)
    BY <2>3, <2>5, TextsTaken
  <2>7. Begun(cuts, i + 1) /\ TakenText(Expected(cuts, i), phys.text) = Expected(cuts, i + 1)
    BY <2>3 DEF GoesOn
  <2>8. ~Exempt => Continues(phys.text) \/ ~SoftEnd(phys.text) \/ i + 1 = Len(physical)
    BY <2>2 DEF Expects
  <2> QED BY <2>1, <2>5, <2>6, <2>7, <2>8
<1>2. \E cuts \in CutPlaces : CutAt(cuts)
  BY DEF Handed, WrittenLine, FoldInv, InPieces
<1> QED BY <1>1, <1>2 DEF Met


ReadAlong ==
  sent /\ line # <<>> =>
    /\ Handed
    /\ sOutcome \in {"reading", "done"} /\ (sOutcome = "done" => sIdx = Len(physical))
    /\ Met(sOut, sIdx)
    /\ ~Exempt => lRepairs = <<>>

RoundInv == DocInv /\ ReadAlong

LEMMA StartsMet == ASSUME Fresh PROVE Met(sOut, sIdx)
<1>1. sOut = <<>> /\ sIdx = 0 /\ Before \in Seq(Text)
  BY OfLetters DEF Fresh
<1>2. Len(Before) \in Nat /\ ~(Len(Before) < 0) /\ 0 <= Len(Before)
  BY <1>1
<1>3. U!S!Texts(sOut) = <<>>
  BY <1>1 DEF U!S!Texts
<1>4. SubSeq(Before, 1, 0) = <<>>
  BY <1>1, FirstOnes
<1>5. ASSUME NEW cuts \in CutPlaces PROVE Begun(cuts, sIdx) /\ Expected(cuts, sIdx) = <<>>
  BY <1>1, <1>2, <1>4 DEF Begun, Expected
<1> QED BY <1>3, <1>5 DEF Met

\* What was expected of a reader does not change with the readers.
LEMMA MetStays ==
  ASSUME UNCHANGED vars, follower' = follower, Met(sOut', sIdx')
  PROVE  Met(sOut, sIdx)'
<1>1. UNCHANGED <<line, chunks, current, next>>
  BY DEF vars
<1>2. CutPlaces' = CutPlaces
  BY <1>1 DEF CutPlaces
<1>3. ASSUME NEW cuts
      PROVE  /\ CutAt(cuts)' <=> CutAt(cuts)
             /\ Begun(cuts, sIdx)' <=> Begun(cuts, sIdx')
             /\ Expected(cuts, sIdx)' = Expected(cuts, sIdx')
  <2>1. CutAt(cuts)' <=> CutAt(cuts)
    BY <1>1 DEF CutAt
  <2>2. Begun(cuts, sIdx)' <=> Begun(cuts, sIdx')
    BY <1>1 DEF Begun
  <2>3. Expected(cuts, sIdx)' = Expected(cuts, sIdx')
    BY <1>1 DEF Expected, Prefix, TakenText, Continues, LastReplaced
  <2> QED BY <2>1, <2>2, <2>3
<1>4. U!S!Texts(sOut)' = U!S!Texts(sOut')
  BY DEF U!S!Texts
<1> QED BY <1>2, <1>3, <1>4 DEF Met

LEMMA HandedStays ==
  ASSUME FoldInv', WrittenLine, UNCHANGED vars, follower' = follower, follower \in Neighbours,
         physical' = WrittenLines
  PROVE  Handed' /\ (Exempt' <=> Exempt)
<1>1. UNCHANGED <<line, chunks, done>>
  BY DEF vars
<1>2. WrittenLines' = WrittenLines
  BY <1>1 DEF WrittenLines, Terminated
<1>3. Exempt' <=> Exempt
  BY <1>1 DEF Exempt, SoftEnd, U!L!EndsInSoftBreak, U!L!LooksQuotedPrintable
<1> QED BY <1>1, <1>2, <1>3 DEF Handed, WrittenLine

LEMMA ReadAlongStep ==
  ASSUME RoundInv, Read, sent, line # <<>>
  PROVE  /\ sOutcome' \in {"reading", "done"} /\ (sOutcome' = "done" => sIdx' = Len(physical'))
         /\ physical' = physical /\ Met(sOut', sIdx')
         /\ ~Exempt => lRepairs' = <<>>
<1>1. /\ Handed /\ sOutcome \in {"reading", "done"} /\ Met(sOut, sIdx) /\ (~Exempt => lRepairs = <<>>)
      /\ Reading /\ ReaderTypes
  BY DEF RoundInv, ReadAlong, DocInv, Reading
<1>2. U!L!Next /\ U!S!Next
  <2>1. U!L!Next /\ (U!S!Next \/ sOutcome \in U!S!ErrorKinds)
    BY DEF Read, U!Next
  <2> QED BY <1>1, <2>1 DEF U!S!ErrorKinds
<1>3. sIdx = lIdx /\ physical' = physical /\ Len(physical) \in Nat
  <2>1. physical \in Seq(Physical)
    BY <1>1 DEF ReaderTypes
  <2> QED BY <1>1, <1>2, <2>1, StrictStep DEF Reading, InStep
<1>4. CASE sIdx = Len(physical)
  <2>1. sOutcome' = "done" /\ sIdx' = sIdx /\ sOut' = sOut
    BY <1>1, <1>2, <1>3, <1>4, StrictStep
  <2>2. lRepairs' = lRepairs
    BY <1>1, <1>2, <1>3, <1>4, LenientStep
  <2> QED BY <1>1, <1>3, <1>4, <2>1, <2>2
<1>5. CASE sIdx < Len(physical)
  <2>1. PICK phys, t : phys = physical[sIdx + 1] /\ t = Taken(sOut, sIdx, phys.text)
    OBVIOUS
  <2>2. phys = Line /\ sIdx \in Nat /\ sOut \in Seq(Logical)
    BY <1>1, <1>3, <2>1 DEF ReaderTypes, Line
  <2>3. /\ Plain(sOut, phys) /\ Met(t, sIdx + 1)
        /\ ~Exempt => Continues(phys.text) \/ ~SoftEnd(phys.text) \/ sIdx + 1 = Len(physical)
    BY <1>1, <1>5, <2>1, <2>2, NextMet
  <2>4. sIdx' = sIdx + 1 /\ sOutcome' = "reading" /\ sOut' = t
    BY <1>1, <1>2, <1>3, <1>5, <2>1, <2>3, StrictStep
  <2>5. ASSUME ~Exempt PROVE lRepairs' = <<>>
    <3>1. lRepairs = <<>> /\ lSoftBreak = FALSE /\ sOut = lOut
      BY <1>1, <2>5 DEF Reading, InStep
    <3>2. PICK new \in Seq(Repair) : Handles(new)
      BY <1>1, <1>2, <1>3, <1>5, LenientStep
    <3>3. new = <<>>
      BY <1>3, <2>2, <2>3, <2>5, <3>1, <3>2 DEF Handles
    <3> QED BY <3>1, <3>2, <3>3 DEF Handles
  <2> QED BY <1>3, <2>3, <2>4, <2>5
<1>6. sIdx \in 0..Len(physical)
  BY <1>1 DEF ReaderTypes
<1> QED BY <1>3, <1>4, <1>5, <1>6

LEMMA RoundInit == FRInit => RoundInv
<1>1. FRInit => line = <<>>
  BY DEF FRInit, Init
<1> QED BY <1>1, DocInit DEF RoundInv, ReadAlong

LEMMA RoundKept == RoundInv /\ [FRNext]_allVars => RoundInv'
<1> SUFFICES ASSUME RoundInv, [FRNext]_allVars PROVE RoundInv'
  OBVIOUS
<1>1. DocInv /\ DocInv' /\ FoldInv' /\ follower \in Neighbours
  <2>1. DocInv
    BY DEF RoundInv
  <2>2. DocInv'
    BY <2>1, DocKept
  <2> QED BY <2>1, <2>2 DEF DocInv
<1>2. CASE Fold
  BY <1>1, <1>2 DEF Fold, RoundInv, ReadAlong
<1>3. CASE Send
  <2>1. /\ UNCHANGED vars /\ follower' = follower /\ physical' = WrittenLines
        /\ WrittenLine /\ Fresh /\ UNCHANGED <<sIdx, sOut, sOutcome, lRepairs>>
    BY <1>1, <1>3 DEF Send, DocInv, WrittenLine
  <2>2. Handed'
    BY <1>1, <2>1, HandedStays
  <2>3. Met(sOut', sIdx')
    BY <2>1, StartsMet
  <2>4. Met(sOut, sIdx)'
    BY <2>1, <2>3, MetStays
  <2>5. sOutcome' = "reading" /\ lRepairs' = <<>>
    BY <2>1 DEF Fresh
  <2> QED BY <1>1, <2>2, <2>4, <2>5 DEF RoundInv, ReadAlong
<1>4. CASE Read
  <2>1. UNCHANGED vars /\ follower' = follower /\ sent /\ sent' = sent
    BY <1>4 DEF Read
  <2>2. line' = line
    BY <2>1 DEF vars
  <2>3. CASE line # <<>>
    <3>1. /\ sOutcome' \in {"reading", "done"} /\ (sOutcome' = "done" => sIdx' = Len(physical'))
          /\ physical' = physical /\ Met(sOut', sIdx')
          /\ ~Exempt => lRepairs' = <<>>
      BY <1>4, <2>1, <2>3, ReadAlongStep
    <3>2. WrittenLine /\ physical' = WrittenLines
      BY <2>1, <2>3, <3>1 DEF RoundInv, ReadAlong, Handed
    <3>3. Handed' /\ (Exempt' <=> Exempt)
      BY <1>1, <2>1, <3>2, HandedStays
    <3>4. Met(sOut, sIdx)'
      BY <2>1, <3>1, MetStays
    <3> QED BY <1>1, <3>1, <3>3, <3>4 DEF RoundInv, ReadAlong
  <2>4. CASE line = <<>>
    BY <1>1, <2>2, <2>4 DEF RoundInv, ReadAlong
  <2> QED BY <2>3, <2>4
<1>5. CASE UNCHANGED allVars
  <2>1. /\ UNCHANGED vars /\ follower' = follower /\ sent' = sent /\ physical' = physical
        /\ UNCHANGED <<sIdx, sOut, sOutcome, lRepairs>>
    BY <1>5 DEF allVars, readerVars
  <2>2. line' = line
    BY <2>1 DEF vars
  <2>3. CASE sent /\ line # <<>>
    <3>1. /\ Handed /\ Met(sOut', sIdx') /\ sOutcome' \in {"reading", "done"}
          /\ (sOutcome' = "done" => sIdx' = Len(physical')) /\ (~Exempt => lRepairs' = <<>>)
      BY <2>1, <2>3 DEF RoundInv, ReadAlong
    <3>2. WrittenLine /\ physical' = WrittenLines
      BY <2>1, <3>1 DEF Handed
    <3>3. Handed' /\ (Exempt' <=> Exempt)
      BY <1>1, <2>1, <3>2, HandedStays
    <3>4. Met(sOut, sIdx)'
      BY <2>1, <3>1, MetStays
    <3> QED BY <1>1, <3>1, <3>3, <3>4 DEF RoundInv, ReadAlong
  <2>4. CASE ~(sent /\ line # <<>>)
    BY <1>1, <2>1, <2>2, <2>4 DEF RoundInv, ReadAlong
  <2> QED BY <2>3, <2>4
<1> QED BY <1>2, <1>3, <1>4, <1>5 DEF FRNext

LEMMA RoundIdentity == RoundInv => FoldUnfoldIdentity
<1> SUFFICES ASSUME RoundInv, sent, line # <<>>
             PROVE  /\ sOutcome # "reading" => sOutcome = "done" /\ U!S!Texts(sOut) = ReadBack
                    /\ (lOutcome # "reading" /\ ~Exempt)
                         => /\ lOutcome = "done" /\ lRepairs = <<>> /\ U!L!Texts(lOut) = ReadBack
  BY DEF FoldUnfoldIdentity, Exempt, SoftEnd
<1>1. /\ Handed /\ sOutcome \in {"reading", "done"} /\ (sOutcome = "done" => sIdx = Len(physical))
      /\ Met(sOut, sIdx) /\ (~Exempt => lRepairs = <<>>) /\ Reading
  BY DEF RoundInv, ReadAlong, DocInv
<1>2. PICK cuts \in CutPlaces : CutAt(cuts)
  BY <1>1 DEF Handed, WrittenLine, FoldInv, InPieces
<1>3. ASSUME sOutcome = "done" PROVE U!S!Texts(sOut) = ReadBack
  <2>1. U!S!Texts(sOut) = Expected(cuts, Len(physical))
    BY <1>1, <1>2, <1>3 DEF Met
  <2> QED BY <1>1, <1>2, <2>1, LastExpected
<1>4. ~Exempt => lRepairs = <<>> /\ sOutcome = lOutcome /\ sOut = lOut
  BY <1>1 DEF Reading, InStep
<1>5. U!L!Texts(lOut) = U!S!Texts(lOut)
  BY DEF U!L!Texts, U!S!Texts
<1> QED BY <1>1, <1>3, <1>4, <1>5

\* fold_into and unfold: what is written as physical lines of any width is read
\* back in either mode, whole and without a repair; the only exception is the
\* one FoldUnfoldIdentity names.
THEOREM FoldedLinesReadBack == FRSpec => []FoldUnfoldIdentity
<1>1. FRSpec => []RoundInv
  BY RoundInit, RoundKept, PTL DEF FRSpec
<1> QED BY <1>1, RoundIdentity, PTL

-----------------------------------------------------------------------------
(* Counting and joining, under the names the readers know them by. *)

LEMMA SameCardinality ==
  ASSUME NEW S
  PROVE  U!L!Cardinality(S) = Cardinality(S) /\ U!Cardinality(S) = Cardinality(S)
BY DEF U!L!Cardinality, Cardinality, U!Cardinality

LEMMA SameFlat ==
  ASSUME NEW ss
  PROVE  U!L!FlattenSeq(ss) = FlattenSeq(ss) /\ U!FlattenSeq(ss) = FlattenSeq(ss)
BY DEF U!L!FlattenSeq, FlattenSeq, U!FlattenSeq

-----------------------------------------------------------------------------
(* What the lenient reader keeps of what it has read. *)

\* The characters that may not go, and the one that may if a join is reported.
Solid == Letter \ {" ", "="}
Equals(s) == Cardinality(PlacesIn(s, {"="}))

\* A text holds what was read, but for spaces and some number of '='.
Holds(text, read, missing) ==
  /\ text \in Text /\ read \in Text /\ missing \in Int
  /\ Alike(text, read, Solid) /\ Equals(text) + missing = Equals(read)

Like(text, read) ==
  text \in Text /\ read \in Text /\ Alike(text, read, Solid) /\ Equals(text) = Equals(read)

LEMMA EqualsType == ASSUME NEW s \in Text PROVE Equals(s) \in Nat
BY PlacesType DEF Equals, Text

LEMMA EqualsJoined ==
  ASSUME NEW s \in Text, NEW t \in Text
  PROVE  s \o t \in Text /\ Equals(s \o t) = Equals(s) + Equals(t)
<1>1. s \in Seq(Letter) /\ t \in Seq(Letter)
  BY DEF Text
<1>2. s \o t \in Text
  BY <1>1, Joined DEF Text
<1>3. /\ PlacesIn(s \o t, {"="}) = PlacesIn(s, {"="}) \cup Moved(Len(s), PlacesIn(t, {"="}))
      /\ Cardinality(PlacesIn(s \o t, {"="})) = Cardinality(PlacesIn(s, {"="})) + Cardinality(PlacesIn(t, {"="}))
  BY <1>1, PlacesJoined
<1> QED BY <1>2, <1>3 DEF Equals

\* A sequence is its first element and the others.
LEMMA HeadAndTail ==
  ASSUME NEW T, NEW s \in Seq(T), s # <<>>, NEW x, x = Head(s), NEW t, t = Tail(s)
  PROVE  x \in T /\ t \in Seq(T) /\ <<x>> \o t = s
<1>1. PICK n, u, w : n = Len(s) /\ u = <<x>> /\ w = u \o t
  OBVIOUS
<1>2. /\ x = s[1] /\ x \in T /\ n \in Nat /\ n >= 1
      /\ t \in Seq(T) /\ Len(t) = n - 1 /\ \A i \in 1..(n - 1) : t[i] = s[i + 1]
  BY <1>1, Behead
<1>3. u \in Seq(T) /\ Len(u) = 1 /\ u[1] = x
  BY <1>1, <1>2
<1>4. /\ w \in Seq(T) /\ Len(w) = Len(u) + Len(t) /\ (\A i \in 1..Len(u) : w[i] = u[i])
      /\ \A i \in 1..Len(t) : w[Len(u) + i] = t[i]
  BY <1>1, <1>2, <1>3, Joined
<1>5. Len(w) = n
  BY <1>2, <1>3, <1>4
<1>6. ASSUME NEW i \in 1..n PROVE w[i] = s[i]
  <2>1. CASE i = 1
    BY <1>2, <1>3, <1>4, <2>1
  <2>2. CASE i # 1
    <3>1. PICK k : k = i - 1
      OBVIOUS
    <3>2. k \in 1..(n - 1) /\ i = k + 1 /\ i = 1 + k
      BY <1>2, <2>2, <3>1
    <3>3. w[1 + k] = t[k] /\ t[k] = s[k + 1]
      BY <1>2, <1>3, <1>4, <3>2
    <3> QED BY <3>2, <3>3
  <2> QED BY <2>1, <2>2
<1>7. w = s
  BY <1>1, <1>4, <1>5, <1>6, SameSequence
<1> QED BY <1>1, <1>2, <1>7

LEMMA LikeItself == ASSUME NEW s \in Text PROVE Like(s, s)
BY DEF Like, Alike

LEMMA MarkerDropped ==
  ASSUME NEW s \in Text, Continues(s)
  PROVE  Like(Tail(s), s)
<1>1. PICK t : t = Tail(s)
  OBVIOUS
<1>0. PICK c : c = " "
  OBVIOUS
<1>2. PICK m : m = <<c>>
  OBVIOUS
<1>3. t \in Text /\ m \in Text /\ m \o t = s
  <2>1. s \in Seq(Letter) /\ s # <<>> /\ Head(s) = c
    BY <1>0 DEF Text, Continues
  <2>2. c \in Letter /\ t \in Seq(Letter) /\ <<c>> \o t = s
    BY <1>1, <2>1, HeadAndTail
  <2>3. m \in Seq(Letter)
    BY <1>2, <2>2
  <2> QED BY <1>2, <2>2, <2>3 DEF Text
<1>4. m \in Seq(Letter) /\ t \in Seq(Letter) /\ <<>> \in Seq(Letter)
  BY <1>3 DEF Text
<1>5. Alike(m, <<>>, Solid) /\ Equals(m) = 0
  <2>1. Len(m) = 1 /\ \A i \in 1..Len(m) : m[i] = c
    BY <1>2
  <2>2. \A i \in 1..Len(m) : m[i] \notin Solid /\ m[i] \notin {"="}
    BY <1>0, <2>1 DEF Solid
  <2>3. PlacesIn(m, Solid) = {} /\ Cardinality(PlacesIn(m, Solid)) = 0 /\ Alike(m, <<>>, Solid)
    BY <1>4, <2>2, NonePlaced
  <2>4. PlacesIn(m, {"="}) = {} /\ Cardinality(PlacesIn(m, {"="})) = 0 /\ Alike(m, <<>>, {"="})
    BY <1>4, <2>2, NonePlaced
  <2> QED BY <2>3, <2>4 DEF Equals
<1>6. Alike(<<>>, m, Solid) /\ Alike(t, t, Solid)
  BY <1>5 DEF Alike
<1>7. Alike(<<>> \o t, m \o t, Solid)
  BY <1>4, <1>6, AlikeJoined
<1>8. <<>> \o t = t
  BY <1>4
<1>9. Equals(s) = Equals(t)
  <2>1. Equals(m \o t) = Equals(m) + Equals(t) /\ Equals(t) \in Nat
    BY <1>3, EqualsJoined, EqualsType
  <2> QED BY <1>3, <1>5, <2>1
<1> QED BY <1>1, <1>3, <1>7, <1>8, <1>9 DEF Like

LEMMA HoldsMore ==
  ASSUME NEW text, NEW read, NEW missing, Holds(text, read, missing),
         NEW s, NEW t, Like(s, t)
  PROVE  Holds(text \o s, read \o t, missing)
<1>1. text \in Text /\ read \in Text /\ s \in Text /\ t \in Text /\ missing \in Int
  BY DEF Holds, Like
<1>2. Alike(text \o s, read \o t, Solid)
  <2>1. /\ text \in Seq(Letter) /\ read \in Seq(Letter) /\ s \in Seq(Letter) /\ t \in Seq(Letter)
        /\ Alike(text, read, Solid) /\ Alike(s, t, Solid)
    BY <1>1 DEF Holds, Like, Text
  <2> QED BY <2>1, AlikeJoined
<1>3. /\ text \o s \in Text /\ Equals(text \o s) = Equals(text) + Equals(s)
      /\ read \o t \in Text /\ Equals(read \o t) = Equals(read) + Equals(t)
  BY <1>1, EqualsJoined
<1>4. Equals(text) + missing = Equals(read) /\ Equals(s) = Equals(t)
  BY DEF Holds, Like
<1>5. Equals(text) \in Nat /\ Equals(read) \in Nat /\ Equals(s) \in Nat
  BY <1>1, EqualsType
<1> QED BY <1>1, <1>2, <1>3, <1>4, <1>5 DEF Holds

LEMMA HoldsWithout ==
  ASSUME NEW text \in Text, NEW read, NEW missing, NEW full, full = text \o <<"=">>,
         Holds(full, read, missing)
  PROVE  Holds(text, read, missing + 1)
<1>1. PICK e : e = <<"=">>
  OBVIOUS
<1>2. e \in Text /\ Equals(e) = 1
  <2>1. "=" \in Letter
    <3>1. full \in Seq(Letter) /\ text \in Seq(Letter) /\ full = text \o <<"=">>
      BY DEF Holds, Text
    <3>2. PICK n \in Nat : n = Len(text)
      BY <3>1
    <3>3. n + 1 \in 1..Len(full) /\ full[n + 1] = "="
      <4>1. PICK c : c = "="
        OBVIOUS
      <4>2. full = Append(text, c)
        BY <3>1, <4>1
      <4> QED BY <3>1, <3>2, <4>1, <4>2
    <3> QED BY <3>1, <3>3
  <2>2. Cardinality(PlacesIn(<<"=">>, {"="})) = IF "=" \in {"="} THEN 1 ELSE 0
    BY OnePlaced
  <2> QED BY <1>1, <2>1, <2>2 DEF Equals, Text
<1>3. text \in Seq(Letter) /\ e \in Seq(Letter) /\ <<>> \in Seq(Letter)
  BY <1>2 DEF Text
<1>4. Alike(<<>>, e, Solid) /\ Alike(text, text, Solid)
  <2>1. Len(e) = 1 /\ \A i \in 1..Len(e) : e[i] = "="
    BY <1>1
  <2>2. \A i \in 1..Len(e) : e[i] \notin Solid
    BY <2>1 DEF Solid
  <2>3. PlacesIn(e, Solid) = {} /\ Cardinality(PlacesIn(e, Solid)) = 0 /\ Alike(e, <<>>, Solid)
    BY <1>3, <2>2, NonePlaced
  <2> QED BY <2>3 DEF Alike
<1>5. Alike(text \o <<>>, text \o e, Solid)
  BY <1>3, <1>4, AlikeJoined
<1>6. text \o <<>> = text
  BY <1>3
<1>7. Alike(text, full, Solid)
  BY <1>1, <1>5, <1>6
<1>8. Equals(full) = Equals(text) + 1
  <2>1. Equals(text \o e) = Equals(text) + Equals(e)
    BY <1>2, EqualsJoined
  <2> QED BY <1>1, <1>2, <2>1
<1>9. /\ read \in Text /\ missing \in Int /\ Alike(full, read, Solid)
      /\ Equals(full) + missing = Equals(read)
  BY DEF Holds
<1>10. Equals(text) \in Nat /\ Alike(text, read, Solid)
  BY <1>7, <1>9, EqualsType DEF Alike
<1>11. Equals(text) + (missing + 1) = Equals(read) /\ missing + 1 \in Int
  BY <1>8, <1>9, <1>10
<1> QED BY <1>9, <1>10, <1>11 DEF Holds

-----------------------------------------------------------------------------
(* What a line does to the texts read so far. *)

EndsInEquals(text) == text # <<>> /\ Last(text) = "="
Open(texts) == texts # <<>> /\ EndsInEquals(Last(texts))

\* From texts to more with a line p; a soft break is pending if owed is 1, and
\* after it if owing is; the joins reported go from j to k.
Starts(texts, p, owed, j, more, owing, k) ==
  owed = 0 /\ more = Append(texts, p) /\ k = j + owing /\ (owing = 1 => EndsInEquals(p))
Appends(texts, p, owed, j, more, owing, k) ==
  /\ owed = 0 /\ owing = 0 /\ k = j /\ Continues(p) /\ texts # <<>>
  /\ more = LastReplaced(texts, Last(texts) \o Tail(p))
Joins(texts, p, owed, j, more, owing, k) ==
  /\ owed = 1 /\ texts # <<>> /\ more = LastReplaced(texts, Front(Last(texts)) \o p)
  /\ k = j + owing /\ (owing = 1 => EndsInEquals(Front(Last(texts)) \o p))
Skips(texts, p, owed, j, more, owing, k) ==
  owed = 0 /\ owing = 0 /\ k = j /\ p = <<>> /\ more = texts
Leads(texts, p, owed, j, more, owing, k) ==
  owed = 0 /\ owing = 0 /\ k = j /\ Continues(p) /\ more = Append(texts, Tail(p))

Effect(texts, p, owed, j, more, owing, k) ==
  \/ Starts(texts, p, owed, j, more, owing, k) \/ Appends(texts, p, owed, j, more, owing, k)
  \/ Joins(texts, p, owed, j, more, owing, k) \/ Skips(texts, p, owed, j, more, owing, k)
  \/ Leads(texts, p, owed, j, more, owing, k)

\* Texts, all but the last, and the last.
LEMMA FlatLast ==
  ASSUME NEW ss \in Seq(Text), ss # <<>>, NEW x \in Text
  PROVE  /\ FlattenSeq(Front(ss)) \in Text /\ Last(ss) \in Text
         /\ FlattenSeq(ss) = FlattenSeq(Front(ss)) \o Last(ss)
         /\ FlattenSeq(LastReplaced(ss, x)) = FlattenSeq(Front(ss)) \o x
<1>1. PICK h, y : h = Front(ss) /\ y = Last(ss)
  OBVIOUS
<1>2. Last(ss) \in Text /\ h \in Seq(Text)
  <2>1. PICK n \in Nat : n = Len(ss) /\ n >= 1
    OBVIOUS
  <2>2. ss[n] \in Text
    BY <2>1
  <2>3. PICK g : g = SubSeq(ss, 1, n - 1)
    OBVIOUS
  <2>4. g \in Seq(Text)
    BY <2>1, <2>3
  <2> QED BY <1>1, <2>1, <2>2, <2>3, <2>4 DEF Last, Front
<1>3. ASSUME NEW z \in Text
      PROVE  /\ LastReplaced(ss, z) = Append(h, z)
             /\ FlattenSeq(Append(h, z)) = FlattenSeq(h) \o z
  <2>1. LastReplaced(ss, z) = h \o <<z>>
    BY <1>1, ReplacedIs
  <2>2. h \o <<z>> = Append(h, z)
    BY <1>2
  <2>3. h \in Seq(Seq(Letter)) /\ z \in Seq(Letter)
    BY <1>2 DEF Text
  <2> QED BY <2>1, <2>2, <2>3, FlatMore
<1>4. LastReplaced(ss, y) = ss
  <2>1. PICK n \in Nat : n = Len(ss) /\ DOMAIN ss = 1..n /\ n >= 1
    OBVIOUS
  <2>2. y = ss[n]
    BY <1>1, <2>1 DEF Last
  <2> QED BY <2>1, <2>2 DEF LastReplaced
<1>5. FlattenSeq(h) \in Text
  <2>1. h \in Seq(Seq(Letter))
    BY <1>2 DEF Text
  <2> QED BY <2>1, FlatType DEF Text
<1>6. FlattenSeq(ss) = FlattenSeq(h) \o y
  <2>1. y \in Text
    BY <1>1, <1>2
  <2> QED BY <1>3, <1>4, <2>1
<1> QED BY <1>1, <1>2, <1>3, <1>5, <1>6

LEMMA LastPushed ==
  ASSUME NEW ss \in Seq(Text), NEW x \in Text
  PROVE  Append(ss, x) \in Seq(Text) /\ Append(ss, x) # <<>> /\ Last(Append(ss, x)) = x
BY DEF Last

LEMMA FlatText ==
  ASSUME NEW ss \in Seq(Text)
  PROVE  /\ FlattenSeq(ss) \in Text
         /\ \A x \in Text : FlattenSeq(Append(ss, x)) = FlattenSeq(ss) \o x
<1>1. ss \in Seq(Seq(Letter))
  BY DEF Text
<1> QED BY <1>1, FlatType, FlatMore DEF Text

\* A text that ends in '=' is another one and this '='.
LEMMA BeforeEquals ==
  ASSUME NEW s \in Text, EndsInEquals(s)
  PROVE  Front(s) \in Text /\ s = Front(s) \o <<"=">>
<1>1. PICK n, e, h : n = Len(s) /\ e = "=" /\ h = Front(s)
  OBVIOUS
<1>2. s \in Seq(Letter) /\ n \in Nat /\ n >= 1 /\ s[n] = e /\ DOMAIN s = 1..n
  BY <1>1 DEF EndsInEquals, Last, Text
<1>3. h \in Seq(Letter) /\ Len(h) = n - 1 /\ \A i \in 1..(n - 1) : h[i] = s[i]
  <2>1. PICK g : g = SubSeq(s, 1, n - 1)
    OBVIOUS
  <2>2. g \in Seq(Letter) /\ Len(g) = n - 1 /\ \A i \in 1..(n - 1) : g[i] = s[i]
    BY <1>1, <1>2, <2>1
  <2> QED BY <1>1, <2>1, <2>2 DEF Front
<1>4. PICK w : w = h \o <<e>>
  OBVIOUS
<1>5. e \in Letter
  BY <1>2
<1>6. w \in Seq(Letter) /\ Len(w) = n /\ w[n] = e /\ \A i \in 1..(n - 1) : w[i] = h[i]
  <2>1. w = Append(h, e)
    BY <1>3, <1>4
  <2> QED BY <1>2, <1>3, <1>5, <2>1
<1>7. \A i \in 1..n : w[i] = s[i]
  <2> SUFFICES ASSUME NEW i \in 1..n PROVE w[i] = s[i]
    OBVIOUS
  <2>1. i = n \/ i \in 1..(n - 1)
    BY <1>2
  <2> QED BY <1>2, <1>3, <1>6, <2>1
<1>8. w = s
  BY <1>1, <1>2, <1>6, <1>7, SameSequence
<1> QED BY <1>1, <1>3, <1>4, <1>8 DEF Text

Flags == {0, 1}

LEMMA EffectKeeps ==
  ASSUME NEW ts \in Seq(Text), NEW p \in Text, NEW owed \in Flags, NEW j \in Nat,
         NEW more, NEW owing \in Flags, NEW k, NEW read,
         Effect(ts, p, owed, j, more, owing, k),
         Holds(FlattenSeq(ts), read, j - owed), owed = 1 => Open(ts)
  PROVE  /\ Holds(FlattenSeq(more), read \o p, k - owing)
         /\ owing = 1 => Open(more)
         /\ more \in Seq(Text) /\ k \in Nat
<1>1. PICK flat : flat = FlattenSeq(ts)
  OBVIOUS
<1>2. flat \in Text /\ Like(p, p) /\ Holds(flat, read, j - owed)
  BY <1>1, FlatText, LikeItself
<1>3. Continues(p) => Like(Tail(p), p) /\ Tail(p) \in Text
  BY MarkerDropped DEF Like
<1>4. CASE Starts(ts, p, owed, j, more, owing, k)
  <2> USE <1>4 DEF Starts
  <2>1. FlattenSeq(more) = flat \o p /\ more \in Seq(Text) /\ more # <<>> /\ Last(more) = p
    BY <1>1, <1>4, FlatText, LastPushed
  <2>2. Holds(flat \o p, read \o p, j - owed)
    BY <1>2, HoldsMore
  <2>3. j - owed = k - owing /\ k \in Nat
    BY <1>4 DEF Flags
  <2> QED BY <1>4, <2>1, <2>2, <2>3 DEF Open
<1>5. CASE Appends(ts, p, owed, j, more, owing, k)
  <2> USE <1>5 DEF Appends
  <2>1. PICK h, y, q, x : h = FlattenSeq(Front(ts)) /\ y = Last(ts) /\ q = Tail(p) /\ x = y \o q
    OBVIOUS
  <2>2. h \in Text /\ y \in Text /\ q \in Text /\ x \in Text /\ flat = h \o y
    <3>1. h \in Text /\ y \in Text /\ flat = h \o y
      BY <1>1, <1>2, <1>5, <2>1, FlatLast
    <3>2. q \in Text
      BY <1>3, <1>5, <2>1
    <3> QED BY <2>1, <3>1, <3>2, EqualsJoined
  <2>3. FlattenSeq(more) = h \o x /\ more \in Seq(Text)
    <3>1. more = LastReplaced(ts, x)
      BY <1>5, <2>1
    <3>2. more \in Seq(Text)
      BY <1>5, <2>2, <3>1, Replaced
    <3> QED BY <1>5, <2>1, <2>2, <3>1, <3>2, FlatLast
  <2>4. h \o x = flat \o q
    <3>1. h \in Seq(Letter) /\ y \in Seq(Letter) /\ q \in Seq(Letter)
      BY <2>2 DEF Text
    <3>2. h \o (y \o q) = (h \o y) \o q
      BY ONLY SMTT(30), <3>1
    <3> QED BY <2>1, <2>2, <3>2
  <2>5. Holds(flat \o q, read \o p, j - owed)
    BY <1>2, <1>3, <1>5, <2>1, HoldsMore
  <2>6. j - owed = k - owing
    OBVIOUS
  <2>7. PICK m, d, u, v : m = FlattenSeq(more) /\ d = k - owing /\ u = flat \o q /\ v = read \o p
    OBVIOUS
  <2>8. Holds(u, v, d) /\ m = u
    BY <2>3, <2>4, <2>5, <2>6, <2>7
  <2>9. owing # 1 /\ k \in Nat /\ more \in Seq(Text)
    BY <2>3
  <2> QED BY ONLY <2>7, <2>8, <2>9
<1>6. CASE Joins(ts, p, owed, j, more, owing, k)
  <2> USE <1>6 DEF Joins
  <2>1. PICK h, y, g, x : h = FlattenSeq(Front(ts)) /\ y = Last(ts) /\ g = Front(y) /\ x = g \o p
    OBVIOUS
  <2>2. h \in Text /\ y \in Text /\ flat = h \o y
    BY <1>1, <1>2, <1>6, <2>1, FlatLast
  <2>3. g \in Text /\ y = g \o <<"=">>
    BY <1>6, <2>1, <2>2, BeforeEquals DEF Open
  <2>4. x \in Text /\ h \o g \in Text
    BY <2>1, <2>2, <2>3, EqualsJoined
  <2>5. FlattenSeq(more) = h \o x /\ more \in Seq(Text) /\ more # <<>> /\ Last(more) = x
    <3>1. more = LastReplaced(ts, x)
      BY <1>6, <2>1
    <3>2. more \in Seq(Text) /\ more # <<>> /\ Last(more) = x
      BY <1>6, <2>4, <3>1, Replaced
    <3> QED BY <1>6, <2>1, <2>4, <3>1, <3>2, FlatLast
  <2>6. h \o x = (h \o g) \o p /\ flat = (h \o g) \o <<"=">>
    <3>1. PICK e : e = <<"=">>
      OBVIOUS
    <3>2. h \in Seq(Letter) /\ g \in Seq(Letter) /\ p \in Seq(Letter) /\ y \in Seq(Letter)
      BY <2>2, <2>3 DEF Text
    <3>3. e \in Seq({"="} \cup Letter) /\ h \in Seq({"="} \cup Letter) /\ g \in Seq({"="} \cup Letter)
      <4>1. Seq(Letter) \subseteq Seq({"="} \cup Letter)
        BY Wider
      <4>2. e \in Seq({"="} \cup Letter)
        BY <3>1
      <4> QED BY <3>2, <4>1, <4>2
    <3>4. h \o (g \o e) = (h \o g) \o e
      BY ONLY SMTT(30), <3>3
    <3>5. h \o (g \o p) = (h \o g) \o p
      BY ONLY SMTT(30), <3>2
    <3> QED BY <2>1, <2>2, <2>3, <3>1, <3>4, <3>5
  <2>7. Holds(h \o g, read, (j - owed) + 1)
    BY <1>2, <2>4, <2>6, HoldsWithout
  <2>8. Holds((h \o g) \o p, read \o p, (j - owed) + 1)
    BY <1>2, <2>7, HoldsMore
  <2>9. (j - owed) + 1 = k - owing /\ k \in Nat
    BY <1>6 DEF Flags
  <2>10. owing = 1 => EndsInEquals(x)
    BY <1>6, <2>1
  <2> QED BY <2>5, <2>6, <2>8, <2>9, <2>10 DEF Open
<1>7. CASE Skips(ts, p, owed, j, more, owing, k)
  <2> USE <1>7 DEF Skips
  <2>1. FlattenSeq(more) = flat \o p
    BY <1>1, <1>2, <1>7 DEF Text
  <2>2. Holds(flat \o p, read \o p, j - owed)
    BY <1>2, HoldsMore
  <2>3. j - owed = k - owing
    OBVIOUS
  <2> QED BY <2>1, <2>2, <2>3
<1>8. CASE Leads(ts, p, owed, j, more, owing, k)
  <2> USE <1>8 DEF Leads
  <2>1. FlattenSeq(more) = flat \o Tail(p) /\ more \in Seq(Text)
    BY <1>1, <1>3, <1>8, FlatText, LastPushed
  <2>2. Holds(flat \o Tail(p), read \o p, j - owed)
    BY <1>2, <1>3, <1>8, HoldsMore
  <2>3. j - owed = k - owing
    OBVIOUS
  <2>7. PICK m, d, u, v : /\ m = FlattenSeq(more) /\ d = k - owing
                          /\ u = flat \o Tail(p) /\ v = read \o p
    OBVIOUS
  <2>8. Holds(u, v, d) /\ m = u
    BY <2>1, <2>2, <2>3, <2>7
  <2>9. owing # 1 /\ k \in Nat /\ more \in Seq(Text)
    BY <2>1
  <2> QED BY ONLY <2>7, <2>8, <2>9
<1> QED BY <1>4, <1>5, <1>6, <1>7, <1>8, Zenon DEF Effect

-----------------------------------------------------------------------------
(* The logical lines as texts, and the joins reported. *)

LTexts(out) == U!L!Texts(out)

LEMMA TextsOf ==
  ASSUME NEW out \in Seq(Logical), NEW ts, ts = LTexts(out)
  PROVE  /\ ts \in Seq(Text) /\ Len(ts) = Len(out) /\ \A i \in 1..Len(out) : ts[i] = out[i].text
         /\ (out = <<>> <=> ts = <<>>)
         /\ out # <<>> => Last(out) \in Logical /\ Last(ts) = Last(out).text
<1>1. PICK n \in Nat : n = Len(out)
  OBVIOUS
<1>2. DOMAIN out = 1..n /\ \A i \in 1..n : out[i] \in Logical /\ out[i].text \in Text
  <2>1. DOMAIN out = 1..n /\ \A i \in 1..n : out[i] \in Logical
    BY <1>1
  <2> QED BY <2>1 DEF Logical
<1>3. ts = [i \in 1..n |-> out[i].text]
  BY <1>2 DEF LTexts, U!L!Texts
<1>4. ts \in Seq(Text) /\ Len(ts) = n /\ \A i \in 1..n : ts[i] = out[i].text
  BY <1>1, <1>2, <1>3
<1>5. out # <<>> => n \in 1..n
  BY <1>1
<1>6. (out = <<>> <=> n = 0) /\ (ts = <<>> <=> n = 0)
  BY <1>1, <1>4
<1> QED BY <1>1, <1>2, <1>4, <1>5, <1>6 DEF Last

LEMMA TextsPushed ==
  ASSUME NEW out \in Seq(Logical), NEW x \in Text, NEW n \in Nat,
         NEW more, more = Append(out, [text |-> x, line |-> n])
  PROVE  more \in Seq(Logical) /\ LTexts(more) = Append(LTexts(out), x)
<1>1. PICK ts, us, vs : ts = LTexts(out) /\ us = LTexts(more) /\ vs = Append(ts, x)
  OBVIOUS
<1>2. PICK one \in Logical : one = [text |-> x, line |-> n] /\ one.text = x
  BY DEF Logical
<1>3. PICK m \in Nat : m = Len(out)
  OBVIOUS
<1>4. /\ more \in Seq(Logical) /\ Len(more) = m + 1 /\ more[m + 1] = one
      /\ \A i \in 1..m : more[i] = out[i]
  <2>1. more = Append(out, one)
    BY <1>2
  <2> QED BY <1>3, <2>1
<1>5. ts \in Seq(Text) /\ Len(ts) = m /\ \A i \in 1..m : ts[i] = out[i].text
  BY <1>1, <1>3, TextsOf
<1>6. us \in Seq(Text) /\ Len(us) = m + 1 /\ \A i \in 1..(m + 1) : us[i] = more[i].text
  <2>1. us \in Seq(Text) /\ Len(us) = Len(more) /\ \A i \in 1..Len(more) : us[i] = more[i].text
    BY ZenonT(40), <1>1, <1>4, TextsOf
  <2> QED BY <1>4, <2>1
<1>7. vs \in Seq(Text) /\ Len(vs) = m + 1 /\ vs[m + 1] = x /\ \A i \in 1..m : vs[i] = ts[i]
  BY <1>1, <1>5
<1>8. ASSUME NEW i \in 1..(m + 1) PROVE us[i] = vs[i]
  <2>1. i = m + 1 \/ i \in 1..m
    BY <1>3
  <2>2. us[i] = more[i].text
    BY <1>6
  <2>3. CASE i = m + 1
    BY <1>2, <1>4, <1>7, <2>2, <2>3
  <2>4. CASE i \in 1..m
    <3>1. more[i] = out[i] /\ vs[i] = ts[i] /\ ts[i] = out[i].text
      BY <1>4, <1>5, <1>7, <2>4
    <3> QED BY <2>2, <3>1
  <2> QED BY <2>1, <2>3, <2>4
<1>9. us = vs
  BY <1>6, <1>7, <1>8, SameSequence
<1> QED BY <1>1, <1>4, <1>9

LEMMA TextsChanged ==
  ASSUME NEW out \in Seq(Logical), out # <<>>, NEW x \in Text,
         NEW more, more = [out EXCEPT ![Len(out)].text = x]
  PROVE  more \in Seq(Logical) /\ LTexts(more) = LastReplaced(LTexts(out), x)
<1>1. PICK ts, us, vs : ts = LTexts(out) /\ us = LTexts(more) /\ vs = LastReplaced(ts, x)
  OBVIOUS
<1>2. PICK m \in Nat : m = Len(out) /\ m >= 1 /\ DOMAIN out = 1..m
  OBVIOUS
<1>3. ts \in Seq(Text) /\ Len(ts) = m /\ ts # <<>> /\ \A i \in 1..m : ts[i] = out[i].text
  BY <1>1, <1>2, TextsOf
<1>4. PICK one \in Logical : one = [out[m] EXCEPT !.text = x] /\ one.text = x
  <2>1. out[m] \in Logical
    BY <1>2
  <2>2. [out[m] EXCEPT !.text = x] \in Logical
    BY <2>1 DEF Logical
  <2>3. [out[m] EXCEPT !.text = x].text = x
    BY <2>1 DEF Logical
  <2> QED BY <2>2, <2>3
<1>5. more = [out EXCEPT ![m] = one]
  BY <1>2, <1>4
<1>6. /\ more \in Seq(Logical) /\ Len(more) = m /\ more[m] = one
      /\ \A i \in 1..m : i # m => more[i] = out[i]
  BY <1>2, <1>5
<1>7. us \in Seq(Text) /\ Len(us) = m /\ \A i \in 1..m : us[i] = more[i].text
  <2>1. us \in Seq(Text) /\ Len(us) = Len(more) /\ \A i \in 1..Len(more) : us[i] = more[i].text
    <3>1. us = LTexts(more) /\ more \in Seq(Logical)
      BY <1>1, <1>6
    <3> QED BY ONLY <3>1, TextsOf
  <2> QED BY <1>6, <2>1
<1>8. vs \in Seq(Text) /\ Len(vs) = m /\ Last(vs) = x
  BY <1>1, <1>3, Replaced
<1>9. vs[m] = x /\ \A i \in 1..m : i # m => vs[i] = ts[i]
  <2>1. vs = [ts EXCEPT ![m] = x] /\ DOMAIN ts = 1..m
    BY <1>1, <1>3 DEF LastReplaced
  <2> QED BY <1>2, <2>1
<1>10. \A i \in 1..m : us[i] = vs[i]
  BY <1>3, <1>4, <1>6, <1>7, <1>9
<1>11. us = vs
  BY <1>7, <1>8, <1>10, SameSequence
<1> QED BY <1>1, <1>6, <1>11

Joined1 == "JoinedQuotedPrintable"
JoinRepairs == {r \in Repair : r.kind = Joined1}
JoinCount(r) == Cardinality(PlacesIn(r, JoinRepairs))
JoinKinds(kinds) == Cardinality(PlacesIn(kinds, {Joined1}))

LEMMA RepairsCounted ==
  ASSUME NEW r \in Seq(Repair), NEW kinds \in Seq(Kind), NEW n \in Nat,
         NEW new, new = [i \in DOMAIN kinds |-> [line |-> n, kind |-> kinds[i]]]
  PROVE  /\ r \o new \in Seq(Repair) /\ JoinCount(r) \in Nat
         /\ JoinCount(r \o new) = JoinCount(r) + JoinKinds(kinds)
<1>1. PICK m \in Nat : m = Len(kinds) /\ DOMAIN kinds = 1..m /\ \A i \in 1..m : kinds[i] \in Kind
  OBVIOUS
<1>2. \A i \in 1..m : new[i] \in Repair /\ new[i].kind = kinds[i]
  BY <1>1 DEF Repair
<1>3. new \in Seq(Repair) /\ DOMAIN new = 1..m
  BY <1>1, <1>2
<1>4. PlacesIn(new, JoinRepairs) = PlacesIn(kinds, {Joined1})
  BY <1>1, <1>2, <1>3 DEF PlacesIn, JoinRepairs
<1>5. r \o new \in Seq(Repair)
  BY <1>3, Joined
<1>6. /\ PlacesIn(r \o new, JoinRepairs) = PlacesIn(r, JoinRepairs) \cup Moved(Len(r), PlacesIn(new, JoinRepairs))
      /\ Cardinality(PlacesIn(r \o new, JoinRepairs))
           = Cardinality(PlacesIn(r, JoinRepairs)) + Cardinality(PlacesIn(new, JoinRepairs))
  <2>1. r \in Seq(Repair) /\ new \in Seq(Repair)
    BY <1>3
  <2> QED BY ONLY <2>1, PlacesJoined
<1>7. Cardinality(PlacesIn(r, JoinRepairs)) \in Nat
  BY PlacesType
<1> QED BY <1>4, <1>5, <1>6, <1>7 DEF JoinCount, JoinKinds

LEMMA KindsCounted ==
  ASSUME NEW loose \in Seq(Kind), loose = <<>> \/ loose = <<"LooseLineEnding">>, NEW kind \in Kind
  PROVE  /\ JoinKinds(loose) = 0
         /\ JoinKinds(loose \o <<kind>>) = IF kind = Joined1 THEN 1 ELSE 0
<1>1. \A i \in 1..Len(loose) : loose[i] \notin {Joined1}
  <2>1. PICK x : x = "LooseLineEnding"
    OBVIOUS
  <2>2. loose = <<>> \/ (loose = <<x>> /\ x # Joined1)
    BY <2>1 DEF Joined1
  <2> QED BY <2>2
<1>2. JoinKinds(loose) = 0
  BY <1>1, NonePlaced DEF JoinKinds
<1>3. <<kind>> \in Seq(Kind)
  OBVIOUS
<1>4. /\ PlacesIn(loose \o <<kind>>, {Joined1})
           = PlacesIn(loose, {Joined1}) \cup Moved(Len(loose), PlacesIn(<<kind>>, {Joined1}))
      /\ Cardinality(PlacesIn(loose \o <<kind>>, {Joined1}))
           = Cardinality(PlacesIn(loose, {Joined1})) + Cardinality(PlacesIn(<<kind>>, {Joined1}))
  <2>1. PICK t, C : t = <<kind>> /\ C = {Joined1}
    OBVIOUS
  <2>2. t \in Seq(Kind) /\ loose \in Seq(Kind)
    BY <1>3, <2>1
  <2>3. /\ PlacesIn(loose \o t, C) = PlacesIn(loose, C) \cup Moved(Len(loose), PlacesIn(t, C))
        /\ Cardinality(PlacesIn(loose \o t, C)) = Cardinality(PlacesIn(loose, C)) + Cardinality(PlacesIn(t, C))
    BY ONLY <2>2, PlacesJoined
  <2> QED BY ONLY <2>1, <2>3
<1>5. Cardinality(PlacesIn(<<kind>>, {Joined1})) = IF kind \in {Joined1} THEN 1 ELSE 0
  BY OnePlaced
<1> QED BY <1>2, <1>4, <1>5 DEF JoinKinds

-----------------------------------------------------------------------------
(* The lenient reader's steps, as effects on its texts. *)

Owed == IF lSoftBreak THEN 1 ELSE 0
LineEffect ==
  Effect(LTexts(lOut), Line.text, Owed, JoinCount(lRepairs),
         LTexts(lOut'), Owed', JoinCount(lRepairs'))

AtLine ==
  /\ ReaderTypes /\ lIdx \in Nat /\ lIdx < Len(physical) /\ Line \in Physical /\ Line.text \in Text

\* The repairs of a line: its ending, and what else is reported with it.
LEMMA EndingCounted ==
  ASSUME AtLine, lIdx' \in Nat, NEW loose, loose = U!L!LooseEnding
  PROVE  /\ U!L!Repaired(loose) => JoinCount(lRepairs') = JoinCount(lRepairs)
         /\ \A kind \in Kind : U!L!Repaired(loose \o <<kind>>) =>
              JoinCount(lRepairs') = JoinCount(lRepairs) + (IF kind = Joined1 THEN 1 ELSE 0)
         /\ JoinCount(lRepairs) \in Nat
<1>1. loose \in Seq(Kind) /\ (loose = <<>> \/ loose = <<"LooseLineEnding">>)
  <2>1. loose \in Seq(Kind)
    BY EndingKinds, KindsAre DEF AtLine
  <2> QED BY <2>1 DEF U!L!LooseEnding
<1>2. lRepairs \in Seq(Repair)
  BY DEF AtLine, ReaderTypes
<1>3. ASSUME NEW kinds \in Seq(Kind), U!L!Repaired(kinds)
      PROVE  JoinCount(lRepairs') = JoinCount(lRepairs) + JoinKinds(kinds)
  <2>1. PICK new : new = [i \in DOMAIN kinds |-> [line |-> lIdx', kind |-> kinds[i]]]
    OBVIOUS
  <2>2. lRepairs' = lRepairs \o new
    BY <1>3, <2>1 DEF U!L!Repaired
  <2>3. JoinCount(lRepairs \o new) = JoinCount(lRepairs) + JoinKinds(kinds)
    BY <1>2, <2>1, RepairsCounted
  <2> QED BY <2>2, <2>3
<1>4. JoinCount(lRepairs) \in Nat
  BY <1>2, PlacesType DEF JoinCount
<1>5. JoinKinds(loose) = 0
  <2>1. "LooseLineEnding" \in Kind
    BY KindsAre
  <2> QED BY <1>1, <2>1, KindsCounted
<1>6. ASSUME U!L!Repaired(loose) PROVE JoinCount(lRepairs') = JoinCount(lRepairs)
  BY <1>1, <1>3, <1>4, <1>5, <1>6
<1>7. ASSUME NEW kind \in Kind, U!L!Repaired(loose \o <<kind>>)
      PROVE  JoinCount(lRepairs') = JoinCount(lRepairs) + (IF kind = Joined1 THEN 1 ELSE 0)
  <2>1. loose \o <<kind>> \in Seq(Kind)
    <3>1. <<kind>> \in Seq(Kind)
      OBVIOUS
    <3> QED BY <1>1, <3>1, Joined
  <2>2. JoinKinds(loose \o <<kind>>) = IF kind = Joined1 THEN 1 ELSE 0
    BY <1>1, KindsCounted
  <2> QED BY <1>3, <1>7, <2>1, <2>2
<1> QED BY <1>4, <1>6, <1>7

LEMMA BreaksCounted ==
  ASSUME AtLine, lIdx' \in Nat, NEW text, lSoftBreak' = U!L!Breaks(text),
         U!L!Repaired(U!L!LooseEnding \o U!L!JoinedQuotedPrintable(text))
  PROVE  /\ JoinCount(lRepairs') = JoinCount(lRepairs) + Owed'
         /\ Owed' = 1 => EndsInEquals(text)
<1>1. PICK loose : loose = U!L!LooseEnding
  OBVIOUS
<1>2. JoinCount(lRepairs) \in Nat
  BY <1>1, EndingCounted
<1>3. CASE U!L!Breaks(text)
  <2>1. U!L!JoinedQuotedPrintable(text) = <<Joined1>>
    BY <1>3 DEF U!L!JoinedQuotedPrintable, Joined1
  <2>2. U!L!Repaired(loose \o <<Joined1>>) /\ Joined1 \in Kind
    BY <1>1, <2>1, KindsAre DEF Joined1
  <2>3. JoinCount(lRepairs') = JoinCount(lRepairs) + (IF Joined1 = Joined1 THEN 1 ELSE 0)
    BY <1>1, <2>2, EndingCounted
  <2>4. Owed' = 1
    BY <1>3 DEF Owed
  <2>5. EndsInEquals(text)
    BY <1>3 DEF U!L!Breaks, U!L!EndsInSoftBreak, EndsInEquals, U!L!Last, Last
  <2> QED BY <2>3, <2>4, <2>5
<1>4. CASE ~U!L!Breaks(text)
  <2>1. U!L!JoinedQuotedPrintable(text) = <<>>
    BY <1>4 DEF U!L!JoinedQuotedPrintable
  <2>2. loose \in Seq(Kind)
    BY <1>1, EndingKinds, KindsAre DEF AtLine
  <2>3. loose \o <<>> = loose
    BY <2>2
  <2>4. U!L!Repaired(loose)
    BY <1>1, <2>1, <2>3
  <2>5. JoinCount(lRepairs') = JoinCount(lRepairs)
    BY <1>1, <2>4, EndingCounted
  <2>6. Owed' = 0
    BY <1>4 DEF Owed
  <2> QED BY <1>2, <2>5, <2>6
<1> QED BY <1>3, <1>4

LEMMA StartLineEffect ==
  ASSUME AtLine, U!L!StartLine PROVE LineEffect
<1>1. /\ lSoftBreak = FALSE /\ lIdx' = lIdx + 1
      /\ lOut' = Append(lOut, [text |-> Line.text, line |-> lIdx + 1])
      /\ lSoftBreak' = U!L!Breaks(Line.text)
      /\ U!L!Repaired(U!L!LooseEnding \o U!L!JoinedQuotedPrintable(Line.text))
  BY DEF U!L!StartLine, U!L!TakeUsable, U!L!Take, U!L!Phys, Line, AtLine, ReaderTypes
<1>2. lIdx' \in Nat /\ lIdx + 1 \in Nat /\ lOut \in Seq(Logical) /\ Line.text \in Text
  BY <1>1 DEF AtLine, ReaderTypes
<1>3. LTexts(lOut') = Append(LTexts(lOut), Line.text)
  <2>1. PICK more, x, k : more = lOut' /\ x = Line.text /\ k = lIdx + 1
    OBVIOUS
  <2>2. /\ lOut \in Seq(Logical) /\ x \in Text /\ k \in Nat
        /\ more = Append(lOut, [text |-> x, line |-> k])
    BY ONLY <1>1, <1>2, <2>1
  <2>3. LTexts(more) = Append(LTexts(lOut), x)
    BY ONLY <2>2, TextsPushed
  <2> QED BY <2>1, <2>3
<1>4. /\ JoinCount(lRepairs') = JoinCount(lRepairs) + Owed'
      /\ Owed' = 1 => EndsInEquals(Line.text)
  BY <1>1, <1>2, BreaksCounted
<1>5. Owed = 0
  BY <1>1 DEF Owed
<1> QED BY <1>3, <1>4, <1>5 DEF LineEffect, Effect, Starts

LEMMA AppendContinuationEffect ==
  ASSUME AtLine, U!L!AppendContinuation PROVE LineEffect
<1>1. /\ lSoftBreak = FALSE /\ lSoftBreak' = FALSE /\ Continues(Line.text) /\ lOut # <<>>
      /\ lOut' = [lOut EXCEPT ![Len(lOut)].text = @ \o Tail(Line.text)]
      /\ U!L!Repaired(U!L!LooseEnding) /\ lIdx' = lIdx + 1
  BY DEF U!L!AppendContinuation, U!L!TakeUsable, U!L!Take, U!L!Phys, Line, U!L!IsContinuation,
     Continues, AtLine, ReaderTypes
<1>2. lIdx' \in Nat /\ lOut \in Seq(Logical) /\ Line.text \in Text
  BY <1>1 DEF AtLine, ReaderTypes
<1>3. PICK ts : ts = LTexts(lOut)
  OBVIOUS
<1>4. ts # <<>> /\ Last(lOut) \in Logical /\ Last(ts) = Last(lOut).text
  BY <1>1, <1>2, <1>3, TextsOf
<1>5. PICK x : x = Last(ts) \o Tail(Line.text)
  OBVIOUS
<1>6. x \in Text
  <2>1. Last(ts) \in Text
    BY <1>4 DEF Logical
  <2>2. Tail(Line.text) \in Text
    BY <1>1, <1>2, MarkerDropped DEF Like
  <2> QED BY <1>5, <2>1, <2>2, EqualsJoined
<1>7. lOut' = [lOut EXCEPT ![Len(lOut)].text = x]
  <2>1. x = lOut[Len(lOut)].text \o Tail(Line.text)
    BY <1>4, <1>5 DEF Last
  <2> QED BY <1>1, <2>1
<1>8. LTexts(lOut') = LastReplaced(ts, x)
  BY <1>1, <1>2, <1>3, <1>6, <1>7, TextsChanged
<1>9. JoinCount(lRepairs') = JoinCount(lRepairs)
  BY <1>1, <1>2, EndingCounted
<1>10. Owed = 0 /\ Owed' = 0
  BY <1>1 DEF Owed
<1> QED BY <1>1, <1>3, <1>4, <1>5, <1>8, <1>9, <1>10 DEF LineEffect, Effect, Appends

LEMMA JoinSoftBreakEffect ==
  ASSUME AtLine, U!L!JoinSoftBreak, Open(LTexts(lOut)) PROVE LineEffect
<1>1. PICK ts, x : ts = LTexts(lOut) /\ x = Front(Last(ts)) \o Line.text
  OBVIOUS
<1>2. lSoftBreak = TRUE /\ lOut # <<>> /\ lOut \in Seq(Logical) /\ Line.text \in Text
  BY DEF U!L!JoinSoftBreak, AtLine, ReaderTypes
<1>3. ts # <<>> /\ Last(lOut) \in Logical /\ Last(ts) = Last(lOut).text /\ Last(ts) \in Text
  <2>1. ts # <<>> /\ Last(lOut) \in Logical /\ Last(ts) = Last(lOut).text
    BY <1>1, <1>2, TextsOf
  <2> QED BY <2>1 DEF Logical
<1>4. /\ lOut' = [lOut EXCEPT ![Len(lOut)].text = x]
      /\ lSoftBreak' = U!L!Breaks(x) /\ lIdx' = lIdx + 1
      /\ U!L!Repaired(U!L!LooseEnding \o U!L!JoinedQuotedPrintable(x))
  <2>1. x = Front(Last(lOut).text) \o Line.text
    BY <1>1, <1>3
  <2> QED BY <2>1 DEF U!L!JoinSoftBreak, U!L!TakeUsable, U!L!Take, U!L!Phys, Line,
       U!L!Front, U!L!Last, Front, Last
<1>5. x \in Text
  <2>1. Front(Last(ts)) \in Text
    BY <1>1, <1>3, BeforeEquals DEF Open
  <2> QED BY <1>1, <1>2, <2>1, EqualsJoined
<1>6. LTexts(lOut') = LastReplaced(ts, x)
  BY <1>1, <1>2, <1>4, <1>5, TextsChanged
<1>7. lIdx' \in Nat
  BY <1>4 DEF AtLine
<1>8. /\ JoinCount(lRepairs') = JoinCount(lRepairs) + Owed'
      /\ Owed' = 1 => EndsInEquals(x)
  BY <1>4, <1>7, BreaksCounted
<1>9. Owed = 1
  BY <1>2 DEF Owed
<1> QED BY <1>1, <1>3, <1>6, <1>8, <1>9 DEF LineEffect, Effect, Joins

LEMMA SkipBlankLineEffect ==
  ASSUME AtLine, U!L!SkipBlankLine PROVE LineEffect
<1>1. PICK kind : kind = "SkippedBlankLine"
  OBVIOUS
<1>2. /\ lSoftBreak = FALSE /\ lSoftBreak' = FALSE /\ Line.text = <<>> /\ lOut' = lOut
      /\ U!L!Repaired(U!L!LooseEnding \o <<kind>>) /\ lIdx' = lIdx + 1
  BY <1>1 DEF U!L!SkipBlankLine, U!L!TakeUsable, U!L!Take, U!L!Phys, U!L!Fail, Line, AtLine, ReaderTypes
<1>3. kind \in Kind /\ kind # Joined1 /\ lIdx' \in Nat
  BY <1>1, <1>2, KindsAre DEF AtLine, Joined1
<1>4. JoinCount(lRepairs') = JoinCount(lRepairs)
  BY <1>2, <1>3, EndingCounted
<1>5. Owed = 0 /\ Owed' = 0
  BY <1>2 DEF Owed
<1> QED BY <1>2, <1>4, <1>5 DEF LineEffect, Effect, Skips

LEMMA LeadingContinuationEffect ==
  ASSUME AtLine, U!L!LeadingContinuation PROVE LineEffect
<1>1. PICK kind : kind = "LeadingContinuationTreatedAsLine"
  OBVIOUS
<1>2. /\ lSoftBreak = FALSE /\ lSoftBreak' = FALSE /\ Continues(Line.text) /\ lOut = <<>>
      /\ lOut' = <<[text |-> Tail(Line.text), line |-> lIdx + 1]>>
      /\ U!L!Repaired(U!L!LooseEnding \o <<kind>>) /\ lIdx' = lIdx + 1
  BY <1>1 DEF U!L!LeadingContinuation, U!L!TakeUsable, U!L!Take, U!L!Phys, U!L!Fail, Line,
     U!L!IsContinuation, Continues, AtLine, ReaderTypes
<1>3. kind \in Kind /\ kind # Joined1 /\ lIdx' \in Nat /\ lIdx + 1 \in Nat /\ lOut \in Seq(Logical)
  BY <1>1, <1>2, KindsAre DEF AtLine, Joined1, ReaderTypes
<1>4. JoinCount(lRepairs') = JoinCount(lRepairs)
  BY <1>2, <1>3, EndingCounted
<1>5. Owed = 0 /\ Owed' = 0
  BY <1>2 DEF Owed
<1>6. LTexts(lOut') = Append(LTexts(lOut), Tail(Line.text))
  <2>1. PICK x, one : x = Tail(Line.text) /\ one = [text |-> x, line |-> lIdx + 1]
    OBVIOUS
  <2>2. x \in Text
    BY <1>2, <2>1, MarkerDropped DEF AtLine, Like
  <2>3. lOut' = Append(lOut, one)
    BY <1>2, <2>1
  <2>4. LTexts(lOut') = Append(LTexts(lOut), x)
    BY ZenonT(40), <1>3, <2>1, <2>2, <2>3, TextsPushed
  <2> QED BY <2>1, <2>4
<1> QED BY <1>2, <1>4, <1>5, <1>6 DEF LineEffect, Effect, Leads

-----------------------------------------------------------------------------
(* Nothing else is lost. *)

\* A pending soft break leaves its '=' at the end of the last line.
LossInv ==
  /\ Holds(FlattenSeq(LTexts(lOut)), U!L!Consumed, JoinCount(lRepairs) - Owed)
  /\ Owed = 1 => Open(LTexts(lOut))

LEMMA ConsumedMore ==
  ASSUME ReaderTypes, lIdx < Len(physical), lIdx' = lIdx + 1, physical' = physical
  PROVE  U!L!Consumed' = U!L!Consumed \o Line.text
<1>1. PICK n, i, ps, ts : n = Len(physical) /\ i = lIdx /\ ps = physical /\ ts = U!L!Texts(ps)
  OBVIOUS
<1>2. n \in Nat /\ i \in 0..(n - 1) /\ ps \in Seq(Physical) /\ DOMAIN ps = 1..n /\ Len(ps) = n
  BY <1>1 DEF ReaderTypes
<1>3. \A k \in 1..n : ps[k] \in Physical /\ ps[k].text \in Text
  <2>1. \A k \in 1..n : ps[k] \in Physical
    BY <1>2
  <2> QED BY <2>1 DEF Physical
<1>4. ts \in Seq(Text) /\ Len(ts) = n /\ \A k \in 1..n : ts[k] = ps[k].text
  <2>1. ts = [k \in 1..n |-> ps[k].text]
    BY <1>1, <1>2 DEF U!L!Texts
  <2> QED BY <1>2, <1>3, <2>1
<1>5. PICK a, b : a = SubSeq(ts, 1, i) /\ b = SubSeq(ts, 1, i + 1)
  OBVIOUS
<1>6. b = Append(a, ts[i + 1]) /\ a \in Seq(Text)
  <2>1. i \in 0..(Len(ts) - 1) /\ i \in 0..Len(ts)
    BY <1>2, <1>4
  <2>2. b = Append(a, ts[i + 1])
    BY <1>4, <1>5, <2>1, OneMore
  <2>3. a \in Seq(Text)
    BY <1>4, <1>5, <2>1, FirstOnes
  <2> QED BY <2>2, <2>3
<1>7. ts[i + 1] = Line.text /\ Line.text \in Text
  <2>1. i + 1 \in 1..n
    BY <1>2
  <2> QED BY <1>1, <1>3, <1>4, <2>1 DEF Line
<1>8. FlattenSeq(b) = FlattenSeq(a) \o Line.text
  BY <1>6, <1>7, FlatText
<1>9. U!L!Consumed = FlattenSeq(a) /\ U!L!Consumed' = FlattenSeq(b)
  BY <1>1, <1>5, SameFlat DEF U!L!Consumed
<1> QED BY <1>8, <1>9

LEMMA NothingLostYet ==
  ASSUME physical \in Seq(Physical), lIdx = 0, lOut = <<>>, lSoftBreak = FALSE, lRepairs = <<>>
  PROVE  LossInv
<1>1. LTexts(lOut) = <<>>
  <2>1. lOut \in Seq(Logical)
    OBVIOUS
  <2> QED BY <2>1, TextsOf
<1>2. U!L!Consumed = <<>>
  <2>1. PICK ts : ts = U!L!Texts(physical)
    OBVIOUS
  <2>2. SubSeq(ts, 1, 0) = <<>>
    OBVIOUS
  <2> QED BY <2>1, <2>2, SameFlat, FlatNothing DEF U!L!Consumed
<1>3. JoinCount(lRepairs) = 0
  <2>1. PlacesIn(<<>>, JoinRepairs) = {}
    BY DEF PlacesIn
  <2> QED BY <2>1, FS_EmptySet DEF JoinCount
<1>4. Owed = 0
  BY DEF Owed
<1>5. <<>> \in Text
  BY DEF Text
<1>6. Holds(<<>>, <<>>, 0)
  <2>1. Equals(<<>>) \in Nat /\ Alike(<<>>, <<>>, Solid)
    BY <1>5, EqualsType DEF Alike
  <2> QED BY <1>5, <2>1 DEF Holds
<1> QED BY <1>1, <1>2, <1>3, <1>4, <1>6, FlatNothing DEF LossInv

LEMMA LossStep ==
  ASSUME ReaderTypes, LossInv, U!L!Next
  PROVE  LossInv'
<1>1. CASE lIdx < Len(physical) /\ lIdx' = lIdx + 1 /\ physical' = physical /\ LineEffect
  <2>1. PICK ts, p, o, j, us, v, k, r :
          /\ ts = LTexts(lOut) /\ p = Line.text /\ o = Owed /\ j = JoinCount(lRepairs)
          /\ us = LTexts(lOut') /\ v = Owed' /\ k = JoinCount(lRepairs') /\ r = U!L!Consumed
    OBVIOUS
  <2>2. ts \in Seq(Text) /\ p \in Text /\ j \in Nat
    <3>1. ts \in Seq(Text)
      BY <2>1, TextsOf DEF ReaderTypes
    <3>2. j \in Nat
      BY <2>1, PlacesType DEF JoinCount, ReaderTypes
    <3>3. p \in Text
      <4>1. lIdx + 1 \in 1..Len(physical) /\ physical \in Seq(Physical)
        BY <1>1 DEF ReaderTypes
      <4>2. Line \in Physical
        BY <4>1 DEF Line
      <4> QED BY <2>1, <4>2 DEF Physical
    <3> QED BY <3>1, <3>2, <3>3
  <2>3. o \in Flags /\ v \in Flags
    BY <2>1 DEF Owed, Flags
  <2>4. Effect(ts, p, o, j, us, v, k) /\ Holds(FlattenSeq(ts), r, j - o) /\ (o = 1 => Open(ts))
    BY <1>1, <2>1 DEF LineEffect, LossInv
  <2>5. Holds(FlattenSeq(us), r \o p, k - v) /\ (v = 1 => Open(us))
    <3>1. /\ Holds(FlattenSeq(us), r \o p, k - v)
          /\ v = 1 => Open(us)
          /\ us \in Seq(Text) /\ k \in Nat
      BY <2>2, <2>3, <2>4, EffectKeeps
    <3> QED BY <3>1
  <2>6. U!L!Consumed' = r \o p
    BY <1>1, <2>1, ConsumedMore
  <2>7. LTexts(lOut)' = us
    BY <2>1 DEF LTexts, U!L!Texts
  <2>8. (JoinCount(lRepairs))' = k
    BY <2>1 DEF JoinCount, PlacesIn
  <2> QED BY <2>1, <2>5, <2>6, <2>7, <2>8 DEF LossInv
<1>2. CASE U!L!Finish
  <2>1. UNCHANGED <<physical, lIdx, lOut, lSoftBreak, lRepairs>>
    BY <1>2 DEF U!L!Finish
  <2> QED BY <2>1 DEF LossInv, Owed, U!L!Consumed, U!L!Texts, LTexts, JoinCount, PlacesIn
<1>3. ASSUME U!L!Take, AtLine => LineEffect PROVE LossInv'
  <2>1. lIdx \in Nat /\ lIdx < Len(physical) /\ lIdx' = lIdx + 1 /\ physical' = physical
    BY <1>3 DEF U!L!Take, ReaderTypes
  <2>2. AtLine
    <3>1. lIdx + 1 \in 1..Len(physical) /\ physical \in Seq(Physical)
      BY <2>1 DEF ReaderTypes
    <3>2. Line \in Physical
      BY <3>1 DEF Line
    <3> QED BY <2>1, <3>2 DEF AtLine, Physical
  <2> QED BY <1>1, <1>3, <2>1, <2>2
<1>4. CASE U!L!RejectLooseEnding
  BY <1>4 DEF U!L!RejectLooseEnding, U!L!Fail
<1>5. CASE U!L!JoinSoftBreak
  <2>1. U!L!Take /\ lSoftBreak
    BY <1>5 DEF U!L!JoinSoftBreak, U!L!TakeUsable
  <2>2. Open(LTexts(lOut))
    BY <2>1 DEF LossInv, Owed
  <2> QED BY <1>3, <1>5, <2>1, <2>2, JoinSoftBreakEffect
<1>6. CASE U!L!SkipBlankLine
  <2>1. U!L!Take
    BY <1>6 DEF U!L!SkipBlankLine, U!L!TakeUsable
  <2> QED BY <1>3, <1>6, <2>1, SkipBlankLineEffect
<1>7. CASE U!L!AppendContinuation
  <2>1. U!L!Take
    BY <1>7 DEF U!L!AppendContinuation, U!L!TakeUsable
  <2> QED BY <1>3, <1>7, <2>1, AppendContinuationEffect
<1>8. CASE U!L!LeadingContinuation
  <2>1. U!L!Take
    BY <1>8 DEF U!L!LeadingContinuation, U!L!TakeUsable
  <2> QED BY <1>3, <1>8, <2>1, LeadingContinuationEffect
<1>9. CASE U!L!StartLine
  <2>1. U!L!Take
    BY <1>9 DEF U!L!StartLine, U!L!TakeUsable
  <2> QED BY <1>3, <1>9, <2>1, StartLineEffect
<1> QED BY <1>2, <1>4, <1>5, <1>6, <1>7, <1>8, <1>9 DEF U!L!Next

JoinsInv == DocInv /\ LossInv

LEMMA JoinsInit == FRInit => JoinsInv
<1> SUFFICES ASSUME FRInit PROVE JoinsInv
  OBVIOUS
<1>1. DocInv
  BY DocInit
<1>2. lIdx = 0 /\ lOut = <<>> /\ lSoftBreak = FALSE /\ lRepairs = <<>>
  BY DEF FRInit, U!Init, U!L!Init
<1>3. physical \in Seq(Physical)
  BY <1>1 DEF DocInv, Reading, ReaderTypes
<1> QED BY <1>1, <1>2, <1>3, NothingLostYet DEF JoinsInv

LEMMA LossWaits ==
  ASSUME LossInv, UNCHANGED readerVars PROVE LossInv'
BY DEF LossInv, Owed, U!L!Consumed, U!L!Texts, LTexts, JoinCount, PlacesIn, readerVars

LEMMA JoinsKept == JoinsInv /\ [FRNext]_allVars => JoinsInv'
<1> SUFFICES ASSUME JoinsInv, [FRNext]_allVars PROVE JoinsInv'
  OBVIOUS
<1>1. DocInv /\ LossInv /\ DocInv' /\ ReaderTypes
  <2>1. DocInv /\ LossInv
    BY DEF JoinsInv
  <2> QED BY <2>1, DocKept DEF DocInv, Reading
<1>2. CASE Fold \/ UNCHANGED allVars
  <2>1. UNCHANGED readerVars
    BY <1>2 DEF Fold, allVars
  <2> QED BY <1>1, <2>1, LossWaits DEF JoinsInv
<1>3. CASE Send
  <2>3. LossInv'
    <3>1. /\ lIdx = 0 /\ lIdx' = 0 /\ lOut' = lOut /\ lSoftBreak' = lSoftBreak
          /\ lRepairs' = lRepairs
      BY <1>1, <1>3 DEF Send, DocInv, Fresh
    <3>2. U!L!Consumed = <<>> /\ U!L!Consumed' = <<>>
      <4>1. PICK ts, us : ts = U!L!Texts(physical) /\ us = U!L!Texts(physical')
        OBVIOUS
      <4>2. SubSeq(ts, 1, 0) = <<>> /\ SubSeq(us, 1, 0) = <<>>
        OBVIOUS
      <4>3. U!L!Consumed = FlattenSeq(SubSeq(ts, 1, 0)) /\ U!L!Consumed' = FlattenSeq(SubSeq(us, 1, 0))
        BY <3>1, <4>1, SameFlat DEF U!L!Consumed, U!L!Texts
      <4> QED BY <4>2, <4>3, FlatNothing
    <3>3. /\ LTexts(lOut)' = LTexts(lOut) /\ Owed' = Owed
          /\ (JoinCount(lRepairs))' = JoinCount(lRepairs)
      BY <3>1 DEF LTexts, U!L!Texts, Owed, JoinCount, PlacesIn
    <3> QED BY <1>1, <3>2, <3>3 DEF LossInv
  <2> QED BY <1>1, <2>3 DEF JoinsInv
<1>4. CASE Read
  <2>1. U!L!Next
    BY <1>4 DEF Read, U!Next
  <2> QED BY <1>1, <2>1, LossStep DEF JoinsInv
<1> QED BY <1>2, <1>3, <1>4 DEF FRNext

LEMMA AllThatIsLost == ASSUME JoinsInv PROVE OnlyReportedJoinsLost
<1>1. PICK f, c : f = FlattenSeq(LTexts(lOut)) /\ c = U!L!Consumed
  OBVIOUS
<1>2. Holds(f, c, JoinCount(lRepairs) - Owed)
  BY <1>1 DEF JoinsInv, LossInv
<1>3. f \in Text /\ c \in Text
  BY <1>2 DEF Holds
<1>4. ASSUME NEW s \in Text
      PROVE  U!L!Solids(s) = Numbered(s, Solid) /\ U!L!Count("=", s) = Equals(s)
  <2>1. {i \in DOMAIN s : s[i] \notin {" ", "="}} = PlacesIn(s, Solid)
    <3>1. \A i \in DOMAIN s : s[i] \in Letter
      BY DEF Text
    <3>2. \A i \in DOMAIN s : s[i] \in Solid <=> s[i] \notin {" ", "="}
      BY <3>1 DEF Solid
    <3> QED BY <3>2 DEF PlacesIn
  <2>2. U!L!Solids(s) = Numbered(s, Solid)
    <3>1. PICK P : P = PlacesIn(s, Solid)
      OBVIOUS
    <3> DEFINE By(Q) == {<<U!L!Cardinality({j \in Q : j <= i}), s[i]>> : i \in Q}
    <3>2. U!L!Solids(s) = By({i \in DOMAIN s : s[i] \notin {" ", "="}})
      BY DEF U!L!Solids
    <3>3. U!L!Solids(s) = By(P)
      <4> HIDE DEF By
      <4> QED BY <2>1, <3>1, <3>2
    <3>4. \A i \in P : U!L!Cardinality({j \in P : j <= i}) = Rank(P, i)
      BY SameCardinality DEF Rank
    <3>5. By(P) = {<<Rank(P, i), s[i]>> : i \in P}
      BY <3>4
    <3>6. Numbered(s, Solid) = {<<Rank(P, i), s[i]>> : i \in P}
      BY <3>1 DEF Numbered
    <3> QED BY <3>3, <3>5, <3>6
  <2>3. {i \in DOMAIN s : s[i] = "="} = PlacesIn(s, {"="})
    BY DEF PlacesIn
  <2> QED BY <2>2, <2>3, SameCardinality DEF U!L!Count, Equals
<1>5. U!L!Reported("JoinedQuotedPrintable") = JoinCount(lRepairs)
  <2>1. lRepairs \in Seq(Repair)
    BY DEF JoinsInv, DocInv, Reading, ReaderTypes
  <2>2. {i \in DOMAIN lRepairs : lRepairs[i].kind = "JoinedQuotedPrintable"} = PlacesIn(lRepairs, JoinRepairs)
    <3>1. \A i \in DOMAIN lRepairs : lRepairs[i] \in Repair
      BY <2>1
    <3> QED BY <3>1 DEF PlacesIn, JoinRepairs, Joined1
  <2> QED BY <2>2, SameCardinality DEF U!L!Reported, JoinCount
<1>6. U!L!Solids(f) = U!L!Solids(c)
  BY <1>2, <1>3, <1>4 DEF Holds, Alike
<1>7. U!L!Count("=", f) + U!L!Reported("JoinedQuotedPrintable") - Owed = U!L!Count("=", c)
  <2>1. Equals(f) \in Nat /\ Equals(c) \in Nat /\ Equals(f) + (JoinCount(lRepairs) - Owed) = Equals(c)
    BY <1>2, <1>3, EqualsType DEF Holds
  <2>2. JoinCount(lRepairs) \in Nat /\ Owed \in {0, 1}
    BY PlacesType DEF JoinsInv, DocInv, Reading, ReaderTypes, JoinCount, Owed
  <2> QED BY <1>3, <1>4, <1>5, <2>1, <2>2
<1>8. f = U!L!FlattenSeq(U!L!Texts(lOut))
  BY <1>1, SameFlat DEF LTexts
<1> QED BY <1>1, <1>6, <1>7, <1>8 DEF OnlyReportedJoinsLost, U!OnlyReportedJoinsLost,
     U!L!OnlyReportedJoinsLost, Owed

\* unfold() in lenient mode, on any document: what it makes of the lines read so
\* far holds all their characters but spaces, in order, and lacks one '=' for
\* each soft break that it reported to have joined.
THEOREM OnlyJoinsLost == FRSpec => []OnlyReportedJoinsLost
<1>1. JoinsInv => OnlyReportedJoinsLost
  BY AllThatIsLost
<1>2. FRSpec => []JoinsInv
  BY JoinsInit, JoinsKept, PTL DEF FRSpec
<1> QED BY <1>1, <1>2, PTL

-----------------------------------------------------------------------------
(* Rows and columns, from the places kept and the ends among them. *)

RowIn(E, i) == 1 + Cardinality({e \in E : e < i})
ColumnIn(K, E, i) == Cardinality({j \in K : j <= i /\ RowIn(E, j) = RowIn(E, i)})

\* The same places up to n: the same rows and columns.
AsFarAs(n, K, E, L, F) ==
  /\ n \in Nat /\ K \in SUBSET Nat /\ E \in SUBSET Nat /\ L \in SUBSET Nat /\ F \in SUBSET Nat
  /\ \A i \in Nat : i <= n => (i \in K <=> i \in L) /\ (i \in E <=> i \in F)

LEMMA Earlier ==
  ASSUME NEW n, NEW K, NEW E, NEW L, NEW F, AsFarAs(n, K, E, L, F),
         NEW i \in Nat, i <= n
  PROVE  RowIn(E, i) = RowIn(F, i) /\ ColumnIn(K, E, i) = ColumnIn(L, F, i)
<1>1. /\ n \in Nat /\ K \in SUBSET Nat /\ E \in SUBSET Nat /\ L \in SUBSET Nat /\ F \in SUBSET Nat
      /\ \A k \in Nat : k <= n => (k \in K <=> k \in L) /\ (k \in E <=> k \in F)
  BY DEF AsFarAs
<1>2. ASSUME NEW k \in Nat, k <= n PROVE RowIn(E, k) = RowIn(F, k)
  <2>1. ASSUME NEW e \in Nat, e < k PROVE e \in E <=> e \in F
    <3>1. e <= n
      BY <1>1, <1>2, <2>1
    <3> QED BY <1>1, <3>1
  <2>2. {e \in E : e < k} = {e \in F : e < k}
    BY <1>1, <2>1
  <2> QED BY <2>2 DEF RowIn
<1>3. RowIn(E, i) = RowIn(F, i)
  BY <1>2
<1>4. ASSUME NEW j \in Nat, j <= i
      PROVE  (j \in K <=> j \in L) /\ RowIn(E, j) = RowIn(F, j)
  <2>1. j <= n
    BY <1>1, <1>4
  <2> QED BY <1>1, <1>2, <2>1
<1>5. {j \in K : j <= i /\ RowIn(E, j) = RowIn(E, i)} = {j \in L : j <= i /\ RowIn(F, j) = RowIn(F, i)}
  BY <1>1, <1>3, <1>4
<1> QED BY <1>3, <1>5 DEF ColumnIn

\* PlacesIn up to n, of which those in the row that follows all the ends.
InLastRow(K, E) == {j \in K : RowIn(E, j) = 1 + Cardinality(E)}

\* With a run of m places behind s, the last of them an end.
Longer(n, K, E, s, m, L, F) ==
  /\ n \in Nat /\ K \in SUBSET (1..n) /\ E \in SUBSET (1..n)
  /\ s \in Nat /\ n <= s /\ m \in Nat /\ m >= 1
  /\ L = K \cup (s + 1)..(s + m) /\ F = E \cup {s + m}

LEMMA LaterPlaces ==
  ASSUME NEW n, NEW K, NEW E, NEW s, NEW m, NEW L, NEW F, Longer(n, K, E, s, m, L, F)
  PROVE  /\ AsFarAs(n, K, E, L, F)
         /\ Cardinality(F) = Cardinality(E) + 1 /\ Cardinality(E) \in Nat
         /\ \A k \in 1..m : /\ RowIn(F, s + k) = 1 + Cardinality(E)
                            /\ ColumnIn(L, F, s + k) = Cardinality(InLastRow(K, E)) + k
<1>1. /\ n \in Nat /\ K \in SUBSET (1..n) /\ E \in SUBSET (1..n)
      /\ s \in Nat /\ n <= s /\ m \in Nat /\ m >= 1
      /\ L = K \cup (s + 1)..(s + m) /\ F = E \cup {s + m}
  BY DEF Longer
<1>2. AsFarAs(n, K, E, L, F)
  BY <1>1 DEF AsFarAs
<1>3. IsFiniteSet(E) /\ Cardinality(E) \in Nat
  <2>1. IsFiniteSet(1..n)
    BY <1>1, FS_Interval
  <2> QED BY <1>1, <2>1, FS_Subset, FS_CardinalityType
<1>4. Cardinality(F) = Cardinality(E) + 1
  <2>1. s + m \notin E
    BY <1>1
  <2> QED BY <1>1, <1>3, <2>1, FS_AddElement
<1>5. ASSUME NEW k \in 1..m PROVE RowIn(F, s + k) = 1 + Cardinality(E)
  <2>1. {e \in F : e < s + k} = E
    <3>1. ~(s + m < s + k)
      BY <1>1
    <3>2. \A e \in E : e < s + k
      BY <1>1
    <3> QED BY <1>1, <3>1, <3>2
  <2> QED BY <2>1 DEF RowIn
<1>6. \A j \in K : RowIn(F, j) = RowIn(E, j)
  <2> SUFFICES ASSUME NEW j \in K PROVE RowIn(F, j) = RowIn(E, j)
    OBVIOUS
  <2>1. j \in Nat /\ j <= n
    BY <1>1
  <2> QED BY <1>2, <2>1, Earlier
<1>7. ASSUME NEW k \in 1..m PROVE ColumnIn(L, F, s + k) = Cardinality(InLastRow(K, E)) + k
  <2>1. PICK C, D, W : /\ C = InLastRow(K, E) /\ D = 1..k
                       /\ W = {j \in L : j <= s + k /\ RowIn(F, j) = RowIn(F, s + k)}
    OBVIOUS
  <2>2. AllUpTo(s, C) /\ AllUpTo(k, D)
    <3>1. C \subseteq K /\ K \subseteq 1..s
      BY <1>1, <2>1 DEF InLastRow
    <3>2. k \in Nat /\ D = 1..k
      BY <2>1
    <3> QED BY <1>1, <3>1, <3>2 DEF AllUpTo
  <2>3. W = C \cup Moved(s, D)
    <3>1. ASSUME NEW j \in K PROVE j \in W <=> j \in C
      <4>1. j <= s + k /\ j \in L
        BY <1>1
      <4> QED BY <1>5, <1>6, <2>1, <4>1 DEF InLastRow
    <3>2. ASSUME NEW j \in 1..m PROVE s + j \in W <=> j \in D
      <4>1. s + j \in L
        BY <1>1
      <4>2. s + j <= s + k <=> j \in D
        BY <1>1, <2>1
      <4> QED BY <1>5, <2>1, <4>1, <4>2
    <3>3. ASSUME NEW j \in (s + 1)..(s + m) PROVE \E i \in 1..m : j = s + i
      <4>1. j - s \in 1..m /\ j = s + (j - s)
        BY <1>1
      <4> QED BY <4>1
    <3>4. C \subseteq K /\ D \subseteq 1..m /\ W \subseteq L
      BY <1>1, <2>1 DEF InLastRow
    <3>5. ASSUME NEW j \in W PROVE j \in C \cup Moved(s, D)
      <4>1. CASE j \in K
        BY <3>1, <4>1
      <4>2. CASE j \in (s + 1)..(s + m)
        <5>1. PICK i \in 1..m : j = s + i
          BY <3>3, <4>2
        <5> QED BY <3>2, <5>1 DEF Moved
      <4> QED BY <1>1, <3>4, <4>1, <4>2
    <3>6. ASSUME NEW j \in D PROVE s + j \in W
      BY <3>2, <3>4
    <3>7. C \subseteq W
      BY <3>1, <3>4
    <3> QED BY <3>5, <3>6, <3>7 DEF Moved
  <2>4. AddUp(C, D, C \cup Moved(s, D))
    BY <2>2, ShiftedUnion
  <2>5. Cardinality(D) = k
    <3>1. k \in Nat /\ 1 <= k
      OBVIOUS
    <3>2. Cardinality(1..k) = k - 1 + 1
      BY <3>1, FS_Interval
    <3> QED BY <2>1, <3>1, <3>2
  <2> QED BY <2>1, <2>3, <2>4, <2>5 DEF AddUp, ColumnIn
<1> QED BY <1>2, <1>3, <1>4, <1>5, <1>7

\* The places of whole rows: the last one, n, is an end.
Rows(n, K, E) == n \in Nat /\ K \in SUBSET (1..n) /\ E \in SUBSET K /\ (n > 0 => n \in E)

LEMMA NewRow ==
  ASSUME NEW n, NEW K, NEW E, Rows(n, K, E)
  PROVE  InLastRow(K, E) = {}
<1>1. /\ n \in Nat /\ K \in SUBSET (1..n) /\ E \in SUBSET (1..n) /\ (n > 0 => n \in E)
  BY DEF Rows
<1>2. SUFFICES ASSUME NEW j \in K, RowIn(E, j) = 1 + Cardinality(E) PROVE FALSE
  BY DEF InLastRow
<1>3. PICK B : B = {e \in E : e < j}
  OBVIOUS
<1>4. IsFiniteSet(E) /\ Cardinality(E) \in Nat
  <2>1. IsFiniteSet(1..n)
    BY <1>1, FS_Interval
  <2> QED BY <1>1, <2>1, FS_Subset, FS_CardinalityType
<1>5. n \in E /\ n \notin B /\ B \subseteq E
  BY <1>1, <1>3
<1>6. IsFiniteSet(B) /\ Cardinality(B) \in Nat /\ Cardinality(B) = Cardinality(E)
  <2>1. IsFiniteSet(B) /\ Cardinality(B) \in Nat
    BY <1>4, <1>5, FS_Subset, FS_CardinalityType
  <2> QED BY <1>2, <1>3, <1>4, <2>1 DEF RowIn
<1>7. B = E
  BY <1>4, <1>5, <1>6, FS_Subset
<1> QED BY <1>5, <1>7

LEMMA LastRow ==
  ASSUME NEW n, NEW K, NEW E, Rows(n, K, E), n > 0
  PROVE  /\ Cardinality(E) \in Nat /\ Cardinality(E \ {n}) = Cardinality(E) - 1
         /\ RowIn(E, n) = Cardinality(E)
         /\ Cardinality(InLastRow(K \ {n}, E \ {n})) = ColumnIn(K, E, n) - 1
<1>1. /\ n \in Nat /\ K \in SUBSET (1..n) /\ E \in SUBSET (1..n) /\ n \in E /\ n \in K
  BY DEF Rows
<1>2. IsFiniteSet(E) /\ Cardinality(E) \in Nat /\ IsFiniteSet(K)
  <2>1. IsFiniteSet(1..n)
    BY <1>1, FS_Interval
  <2> QED BY <1>1, <2>1, FS_Subset, FS_CardinalityType
<1>3. Cardinality(E \ {n}) = Cardinality(E) - 1
  BY <1>1, <1>2, FS_RemoveElement
<1>4. RowIn(E, n) = Cardinality(E)
  <2>1. \A e \in E : e < n <=> e # n
    BY <1>1
  <2>2. {e \in E : e < n} = E \ {n}
    BY <2>1
  <2>3. PICK m : m = Cardinality(E)
    OBVIOUS
  <2>4. Cardinality({e \in E : e < n}) = m - 1 /\ m \in Nat
    BY <1>2, <1>3, <2>2, <2>3
  <2> QED BY <2>3, <2>4 DEF RowIn
<1>5. PICK C, W : /\ C = InLastRow(K \ {n}, E \ {n})
                  /\ W = {j \in K : j <= n /\ RowIn(E, j) = RowIn(E, n)}
  OBVIOUS
<1>6. ASSUME NEW j \in K, j # n PROVE RowIn(E, j) = RowIn(E \ {n}, j)
  <2>1. {e \in E : e < j} = {e \in E \ {n} : e < j}
    BY <1>1
  <2> QED BY <2>1 DEF RowIn
<1>7. 1 + Cardinality(E \ {n}) = Cardinality(E)
  BY <1>2, <1>3
<1>8. C = W \ {n} /\ n \in W /\ W \subseteq K
  <2>1. \A j \in K : j <= n /\ n <= n
    BY <1>1
  <2>2. W = {j \in K : RowIn(E, j) = Cardinality(E)}
    BY <1>4, <1>5, <2>1
  <2>3. C = {j \in K \ {n} : RowIn(E \ {n}, j) = Cardinality(E)}
    BY <1>5, <1>7 DEF InLastRow
  <2> QED BY <1>1, <1>4, <1>6, <2>2, <2>3
<1>9. IsFiniteSet(W) /\ Cardinality(W \ {n}) = Cardinality(W) - 1
  <2>1. IsFiniteSet(W)
    BY <1>2, <1>8, FS_Subset
  <2> QED BY <1>8, <2>1, FS_RemoveElement
<1> QED BY <1>2, <1>3, <1>4, <1>5, <1>8, <1>9 DEF ColumnIn

\* What stands at the places kept, ends aside: its row, its column and itself.
ReadOut(K, E, r) == {<<RowIn(E, i), ColumnIn(K, E, i), r[i]>> : i \in K \ E}
\* A text in a row, behind c characters.
Cells(row, c, q) == {<<row, c + k, q[k]>> : k \in 1..Len(q)}

\* What r holds in K, and then q behind s.
Holding(K, r, s, m, q, w) ==
  /\ Len(q) = m - 1
  /\ (\A i \in K : w[i] = r[i]) /\ \A k \in 1..(m - 1) : w[s + k] = q[k]

LEMMA ReadOutMore ==
  ASSUME NEW n, NEW K, NEW E, NEW s, NEW m, NEW L, NEW F, Longer(n, K, E, s, m, L, F),
         NEW r, NEW w, NEW q, Holding(K, r, s, m, q, w)
  PROVE  ReadOut(L, F, w) = ReadOut(K, E, r) \cup Cells(1 + Cardinality(E), Cardinality(InLastRow(K, E)), q)
<1>a. /\ Len(q) = m - 1
      /\ (\A i \in K : w[i] = r[i]) /\ \A k \in 1..(m - 1) : w[s + k] = q[k]
  BY DEF Holding
<1>1. /\ n \in Nat /\ K \in SUBSET (1..n) /\ E \in SUBSET (1..n)
      /\ s \in Nat /\ n <= s /\ m \in Nat /\ m >= 1
      /\ L = K \cup (s + 1)..(s + m) /\ F = E \cup {s + m}
  BY DEF Longer
<1>2. /\ AsFarAs(n, K, E, L, F)
      /\ Cardinality(F) = Cardinality(E) + 1 /\ Cardinality(E) \in Nat
      /\ \A k \in 1..m : /\ RowIn(F, s + k) = 1 + Cardinality(E)
                         /\ ColumnIn(L, F, s + k) = Cardinality(InLastRow(K, E)) + k
  BY LaterPlaces
<1>3. PICK a, c : a = 1 + Cardinality(E) /\ c = Cardinality(InLastRow(K, E))
  OBVIOUS
<1>4. ASSUME NEW i \in K
      PROVE  <<RowIn(F, i), ColumnIn(L, F, i), w[i]>> = <<RowIn(E, i), ColumnIn(K, E, i), r[i]>>
  <2>1. i \in Nat /\ i <= n
    BY <1>1
  <2>2. RowIn(E, i) = RowIn(F, i) /\ ColumnIn(K, E, i) = ColumnIn(L, F, i)
    BY <1>2, <2>1, Earlier
  <2> QED BY <1>a, <2>2
<1>5. ASSUME NEW k \in 1..(m - 1)
      PROVE  <<RowIn(F, s + k), ColumnIn(L, F, s + k), w[s + k]>> = <<a, c + k, q[k]>>
  <2>1. k \in 1..m
    BY <1>1
  <2> QED BY <1>a, <1>2, <1>3, <2>1
<1>6. \A i \in L \ F : i \in K \ E \/ \E k \in 1..(m - 1) : i = s + k
  <2> SUFFICES ASSUME NEW i \in L \ F PROVE i \in K \ E \/ \E k \in 1..(m - 1) : i = s + k
    OBVIOUS
  <2>1. CASE i \in K
    BY <1>1, <2>1
  <2>2. CASE i \in (s + 1)..(s + m)
    <3>1. i # s + m
      BY <1>1
    <3>2. i - s \in 1..(m - 1) /\ i = s + (i - s)
      BY <1>1, <2>2, <3>1
    <3> QED BY <3>2
  <2> QED BY <1>1, <2>1, <2>2
<1>7. \A i \in K \ E : i \in L \ F
  BY <1>1
<1>8. \A k \in 1..(m - 1) : s + k \in L \ F
  BY <1>1
<1>9. ASSUME NEW x \in ReadOut(L, F, w) PROVE x \in ReadOut(K, E, r) \cup Cells(a, c, q)
  <2>1. PICK i \in L \ F : x = <<RowIn(F, i), ColumnIn(L, F, i), w[i]>>
    BY <1>9 DEF ReadOut
  <2>2. CASE i \in K \ E
    <3>1. x = <<RowIn(E, i), ColumnIn(K, E, i), r[i]>>
      BY <1>4, <2>1, <2>2
    <3> QED BY <2>2, <3>1 DEF ReadOut
  <2>3. ASSUME NEW k \in 1..(m - 1), i = s + k PROVE x \in Cells(a, c, q)
    <3>1. x = <<a, c + k, q[k]>>
      BY <1>5, <2>1, <2>3
    <3> QED BY <1>a, <3>1 DEF Cells
  <2> QED BY <1>6, <2>2, <2>3
<1>10. ASSUME NEW x \in ReadOut(K, E, r) PROVE x \in ReadOut(L, F, w)
  <2>1. PICK i \in K \ E : x = <<RowIn(E, i), ColumnIn(K, E, i), r[i]>>
    BY <1>10 DEF ReadOut
  <2>2. x = <<RowIn(F, i), ColumnIn(L, F, i), w[i]>>
    BY <1>4, <2>1
  <2> QED BY <1>7, <2>2 DEF ReadOut
<1>11. ASSUME NEW x \in Cells(a, c, q) PROVE x \in ReadOut(L, F, w)
  <2>1. PICK k \in 1..(m - 1) : x = <<a, c + k, q[k]>>
    BY <1>a, <1>11 DEF Cells
  <2>2. x = <<RowIn(F, s + k), ColumnIn(L, F, s + k), w[s + k]>>
    BY <1>5, <2>1
  <2> QED BY <1>8, <2>2 DEF ReadOut
<1> QED BY <1>3, <1>9, <1>10, <1>11

LEMMA CharactersPushed ==
  ASSUME NEW ts \in Seq(Text), NEW p \in Text
  PROVE  U!Characters(Append(ts, p)) = U!Characters(ts) \cup Cells(Len(ts) + 1, 0, p)
<1>1. PICK n, us : n = Len(ts) /\ us = Append(ts, p)
  OBVIOUS
<1>2. /\ n \in Nat /\ DOMAIN ts = 1..n /\ DOMAIN us = 1..(n + 1) /\ us[n + 1] = p
      /\ \A i \in 1..n : us[i] = ts[i]
  BY <1>1
<1>3. DOMAIN p = 1..Len(p) /\ \A k \in 1..Len(p) : 0 + k = k
  BY DEF Text
<1>4. ASSUME NEW x
      PROVE  x \in U!Characters(us)
               <=> \E i \in 1..(n + 1) : \E k \in DOMAIN us[i] : x = <<i, k, us[i][k]>>
  BY <1>2 DEF U!Characters
<1>5. ASSUME NEW x
      PROVE  x \in U!Characters(ts) <=> \E i \in 1..n : \E k \in DOMAIN ts[i] : x = <<i, k, ts[i][k]>>
  BY <1>2 DEF U!Characters
<1>6. ASSUME NEW x
      PROVE  x \in Cells(n + 1, 0, p) <=> \E k \in DOMAIN p : x = <<n + 1, k, p[k]>>
  BY <1>3 DEF Cells
<1>7. ASSUME NEW x
      PROVE  x \in U!Characters(us) <=> x \in U!Characters(ts) \cup Cells(n + 1, 0, p)
  <2>1. ASSUME NEW i \in 1..(n + 1), NEW k \in DOMAIN us[i], x = <<i, k, us[i][k]>>
        PROVE  x \in U!Characters(ts) \cup Cells(n + 1, 0, p)
    <3>1. CASE i = n + 1
      BY <1>2, <1>6, <2>1, <3>1
    <3>2. CASE i \in 1..n
      BY <1>2, <1>5, <2>1, <3>2
    <3> QED BY <1>2, <3>1, <3>2
  <2>2. ASSUME NEW i \in 1..n, NEW k \in DOMAIN ts[i], x = <<i, k, ts[i][k]>>
        PROVE  x \in U!Characters(us)
    <3>1. i \in 1..(n + 1) /\ us[i] = ts[i]
      BY <1>2
    <3> QED BY <1>4, <2>2, <3>1
  <2>3. ASSUME NEW k \in DOMAIN p, x = <<n + 1, k, p[k]>>
        PROVE  x \in U!Characters(us)
    <3>1. n + 1 \in 1..(n + 1) /\ us[n + 1] = p
      BY <1>2
    <3> QED BY <1>4, <2>3, <3>1
  <2> QED BY <1>4, <1>5, <1>6, <2>1, <2>2, <2>3
<1> QED BY <1>1, <1>7

LEMMA CharactersContinued ==
  ASSUME NEW ts \in Seq(Text), ts # <<>>, NEW q \in Text
  PROVE  U!Characters(LastReplaced(ts, Last(ts) \o q))
           = U!Characters(ts) \cup Cells(Len(ts), Len(Last(ts)), q)
<1>1. PICK n, us, y, z, c, m : /\ n = Len(ts) /\ y = Last(ts) /\ z = y \o q
                               /\ us = LastReplaced(ts, z) /\ c = Len(y) /\ m = Len(q)
  OBVIOUS
<1>2. n \in Nat /\ n >= 1 /\ DOMAIN ts = 1..n /\ ts[n] = y /\ y \in Text
  <2>1. n \in Nat /\ n >= 1 /\ DOMAIN ts = 1..n
    BY <1>1
  <2> QED BY <1>1, <2>1 DEF Last
<1>3. /\ z \in Seq(Letter) /\ c \in Nat /\ m \in Nat /\ DOMAIN z = 1..(c + m) /\ DOMAIN y = 1..c
      /\ (\A i \in 1..c : z[i] = y[i]) /\ \A i \in 1..m : z[c + i] = q[i]
  <2>1. y \in Seq(Letter) /\ q \in Seq(Letter)
    BY <1>2 DEF Text
  <2>2. /\ z \in Seq(Letter) /\ Len(z) = Len(y) + Len(q)
        /\ (\A i \in 1..Len(y) : z[i] = y[i])
        /\ \A i \in 1..Len(q) : z[Len(y) + i] = q[i]
    BY <1>1, <2>1, Joined
  <2> QED BY <1>1, <2>1, <2>2
<1>4. DOMAIN us = 1..n /\ us[n] = z /\ \A i \in 1..n : i # n => us[i] = ts[i]
  <2>1. us = [ts EXCEPT ![n] = z]
    BY <1>1 DEF LastReplaced
  <2> QED BY <1>2, <2>1
<1>5. ASSUME NEW x
      PROVE  x \in U!Characters(us) <=> \E i \in 1..n : \E k \in DOMAIN us[i] : x = <<i, k, us[i][k]>>
  BY <1>4 DEF U!Characters
<1>6. ASSUME NEW x
      PROVE  x \in U!Characters(ts) <=> \E i \in 1..n : \E k \in DOMAIN ts[i] : x = <<i, k, ts[i][k]>>
  BY <1>2 DEF U!Characters
<1>7. ASSUME NEW x
      PROVE  x \in Cells(n, c, q) <=> \E k \in 1..m : x = <<n, c + k, q[k]>>
  BY <1>1 DEF Cells
<1>8. ASSUME NEW x
      PROVE  x \in U!Characters(us) <=> x \in U!Characters(ts) \cup Cells(n, c, q)
  <2>1. ASSUME NEW i \in 1..n, NEW k \in DOMAIN us[i], x = <<i, k, us[i][k]>>
        PROVE  x \in U!Characters(ts) \cup Cells(n, c, q)
    <3>1. CASE i # n
      BY <1>4, <1>6, <2>1, <3>1
    <3>2. CASE i = n /\ k \in 1..c
      <4>1. k \in DOMAIN ts[n] /\ x = <<n, k, ts[n][k]>>
        BY <1>2, <1>3, <1>4, <2>1, <3>2
      <4>2. n \in 1..n
        BY <1>2
      <4> QED BY <1>6, <4>1, <4>2
    <3>3. CASE i = n /\ k \notin 1..c
      <4>1. k \in 1..(c + m)
        BY <1>3, <1>4, <3>3
      <4>2. k - c \in 1..m /\ k = c + (k - c)
        BY <1>3, <3>3, <4>1
      <4>3. PICK j \in 1..m : k = c + j
        BY <4>2
      <4>4. x = <<n, c + j, q[j]>>
        BY <1>3, <1>4, <2>1, <3>3, <4>3
      <4> QED BY <1>7, <4>4
    <3> QED BY <3>1, <3>2, <3>3
  <2>2. ASSUME NEW i \in 1..n, NEW k \in DOMAIN ts[i], x = <<i, k, ts[i][k]>>
        PROVE  x \in U!Characters(us)
    <3>1. CASE i # n
      BY <1>4, <1>5, <2>2, <3>1
    <3>2. CASE i = n
      <4>1. k \in 1..c /\ k \in DOMAIN us[n] /\ us[n][k] = ts[n][k]
        BY <1>2, <1>3, <1>4, <2>2, <3>2
      <4> QED BY <1>5, <2>2, <3>2, <4>1
    <3> QED BY <3>1, <3>2
  <2>3. ASSUME NEW k \in 1..m, x = <<n, c + k, q[k]>>
        PROVE  x \in U!Characters(us)
    <3>1. c + k \in DOMAIN us[n] /\ us[n][c + k] = q[k] /\ n \in 1..n
      BY <1>2, <1>3, <1>4
    <3> QED BY <1>5, <2>3, <3>1
  <2> QED BY <1>5, <1>6, <1>7, <2>1, <2>2, <2>3
<1> QED BY <1>1, <1>8

-----------------------------------------------------------------------------
(* The octets of the lines read: folds, and the places the RFC keeps. *)

Break == "CRLF"
Mark == Letter \cup {Break}

FoldsOf(r) == {i \in DOMAIN r : r[i] = Break /\ i < Len(r) /\ r[i + 1] = " "}
KeptOf(r) == DOMAIN r \ (FoldsOf(r) \cup {i + 1 : i \in FoldsOf(r)})
EndsOf(r) == {i \in KeptOf(r) : r[i] = Break}

\* r and then the line p, broken off: of length n, m and n + m + 1.
LineAdded(r, p, n, m, w) ==
  /\ n \in Nat /\ m \in Nat /\ m >= 1 /\ DOMAIN r = 1..n /\ Len(r) = n
  /\ DOMAIN w = 1..(n + m + 1) /\ Len(w) = n + m + 1
  /\ (\A i \in 1..n : w[i] = r[i])
  /\ (\A i \in 1..m : w[n + i] = p[i] /\ p[i] # Break) /\ w[n + m + 1] = Break

LEMMA LineIsAdded ==
  ASSUME NEW r \in Seq(Mark), NEW p \in Text, p # <<>>, Unbroken(p),
         NEW w, w = r \o (p \o <<Break>>)
  PROVE  w \in Seq(Mark) /\ LineAdded(r, p, Len(r), Len(p), w)
<1>1. PICK n \in Nat, m \in Nat : n = Len(r) /\ m = Len(p)
  BY DEF Text
<1>2. PICK u : u = p \o <<Break>>
  OBVIOUS
<1>3. p \in Seq(Mark) /\ Break \in Mark /\ m >= 1 /\ \A i \in 1..m : p[i] # Break
  <2>1. Letter \subseteq Mark /\ Break \in Mark
    BY DEF Mark
  <2>2. p \in Seq(Mark)
    BY <2>1, Wider DEF Text
  <2>3. DOMAIN p = 1..m /\ m # 0
    BY <1>1, <2>2
  <2> QED BY <1>1, <2>1, <2>2, <2>3 DEF Unbroken, Break
<1>4. u \in Seq(Mark) /\ Len(u) = m + 1 /\ u[m + 1] = Break /\ \A i \in 1..m : u[i] = p[i]
  <2>1. u = Append(p, Break)
    BY <1>2, <1>3
  <2> QED BY <1>1, <1>3, <2>1
<1>5. /\ w \in Seq(Mark) /\ Len(w) = Len(r) + Len(u)
      /\ (\A i \in 1..Len(r) : w[i] = r[i])
      /\ \A i \in 1..Len(u) : w[Len(r) + i] = u[i]
  BY <1>2, <1>4, Joined
<1>6. Len(w) = n + m + 1 /\ DOMAIN w = 1..(n + m + 1) /\ DOMAIN r = 1..n
  BY <1>1, <1>4, <1>5
<1>7. \A i \in 1..m : w[n + i] = p[i]
  BY <1>1, <1>4, <1>5
<1>8. w[n + m + 1] = Break
  <2>1. m + 1 \in 1..Len(u) /\ n + (m + 1) = n + m + 1
    BY <1>1, <1>4
  <2> QED BY <1>1, <1>4, <1>5, <2>1
<1> QED BY <1>1, <1>3, <1>5, <1>6, <1>7, <1>8 DEF LineAdded

\* The last place holds a break, and no fold can be told yet.
WholeRows(r, n) == n > 0 => r[n] = Break

LEMMA FoldsAfter ==
  ASSUME NEW r, NEW p, NEW n, NEW m, NEW w, LineAdded(r, p, n, m, w), WholeRows(r, n)
  PROVE  /\ FoldsOf(r) \in SUBSET (1..n) /\ n \notin FoldsOf(r)
         /\ FoldsOf(w) = FoldsOf(r) \cup (IF n > 0 /\ p[1] = " " THEN {n} ELSE {})
<1> USE DEF LineAdded
<1>1. FoldsOf(r) \in SUBSET (1..n) /\ n \notin FoldsOf(r)
  <2>1. DOMAIN r = 1..n /\ Len(r) = n /\ n \in Nat
    OBVIOUS
  <2>2. \A i \in FoldsOf(r) : i \in 1..n /\ i < n
    BY ONLY <2>1 DEF FoldsOf
  <2> QED BY ONLY <2>1, <2>2
<1>2. ASSUME NEW i \in 1..n, i < n PROVE i \in FoldsOf(w) <=> i \in FoldsOf(r)
  <2>1. i + 1 \in 1..n /\ i < n + m + 1 /\ i \in 1..(n + m + 1)
    BY <1>2
  <2>2. w[i] = r[i] /\ w[i + 1] = r[i + 1]
    BY <2>1
  <2> QED BY <1>2, <2>1, <2>2 DEF FoldsOf
<1>3. ASSUME n > 0 PROVE n \in FoldsOf(w) <=> p[1] = " "
  <2>1. n \in 1..n /\ 1 \in 1..m /\ n < n + m + 1 /\ n \in 1..(n + m + 1)
    BY <1>3
  <2>2. w[n] = Break /\ w[n + 1] = p[1]
    BY <1>3, <2>1 DEF WholeRows
  <2> QED BY <2>1, <2>2 DEF FoldsOf
<1>4. ASSUME NEW i \in 1..(n + m + 1), i > n PROVE i \notin FoldsOf(w)
  <2>1. CASE i = n + m + 1
    <3>1. ~(i < n + m + 1)
      BY <2>1
    <3> QED BY <3>1 DEF FoldsOf
  <2>2. CASE i # n + m + 1
    <3>1. PICK k : k = i - n
      OBVIOUS
    <3>2. k \in 1..m /\ i = n + k
      BY <1>4, <2>2, <3>1
    <3>3. w[i] # Break
      BY <3>2
    <3> QED BY <3>3 DEF FoldsOf
  <2> QED BY <2>1, <2>2
<1>5. FoldsOf(w) \in SUBSET (1..(n + m + 1))
  BY DEF FoldsOf
<1>6. PICK X, f, g, e : /\ X = (IF n > 0 /\ p[1] = " " THEN {n} ELSE {})
                        /\ f = FoldsOf(r) /\ g = FoldsOf(w) /\ e = n + m + 1
  OBVIOUS
<1>7. n \in Nat /\ e \in Nat /\ n < e /\ f \in SUBSET (1..n) /\ n \notin f /\ g \in SUBSET (1..e)
  <2>1. n \in Nat /\ m \in Nat
    OBVIOUS
  <2>2. e \in Nat /\ n < e
    <3>1. e = n + m + 1
      BY <1>6
    <3> QED BY ONLY <2>1, <3>1
  <2> QED BY ONLY <1>1, <1>5, <1>6, <2>1, <2>2
<1>8. /\ \A i \in 1..n : i < n => (i \in g <=> i \in f)
      /\ \A i \in 1..e : i > n => i \notin g
  BY <1>2, <1>4, <1>6
<1>9. (X = {n} /\ n > 0 /\ n \in g) \/ (X = {} /\ (n > 0 => n \notin g))
  BY <1>3, <1>6
<1>10. \A i \in 1..e : (i \in 1..n /\ (i < n \/ i = n)) \/ i > n
  BY ONLY <1>7
<1>11. g = f \cup X
  <2>1. ASSUME NEW i \in g PROVE i \in f \cup X
    <3>1. i \in 1..n /\ (i < n \/ i = n)
      BY ONLY <1>7, <1>8, <1>10, <2>1
    <3> QED BY ONLY <1>7, <1>8, <1>9, <2>1, <3>1
  <2>2. ASSUME NEW i \in f PROVE i \in g
    <3>1. i \in 1..n /\ i < n
      BY ONLY <1>7, <2>2
    <3> QED BY ONLY <1>8, <2>2, <3>1
  <2> QED BY ONLY <1>9, <2>1, <2>2
<1> QED BY <1>1, <1>6, <1>11

NewLineParts(r, n, m, w) ==
  /\ KeptOf(r) \in SUBSET (1..n)
  /\ KeptOf(w) = KeptOf(r) \cup (n + 1)..(n + (m + 1))
  /\ EndsOf(w) = EndsOf(r) \cup {n + (m + 1)}

LEMMA NewLineKept ==
  ASSUME NEW r, NEW p, NEW n, NEW m, NEW w, LineAdded(r, p, n, m, w), WholeRows(r, n),
         ~(n > 0 /\ p[1] = " ")
  PROVE  NewLineParts(r, n, m, w)
<1>1. /\ n \in Nat /\ m \in Nat /\ m >= 1 /\ DOMAIN r = 1..n /\ DOMAIN w = 1..(n + m + 1)
      /\ (\A i \in 1..n : w[i] = r[i])
      /\ (\A i \in 1..m : w[n + i] = p[i] /\ p[i] # Break) /\ w[n + m + 1] = Break
  BY DEF LineAdded
<1>2. PICK f, e, K, L : /\ f = FoldsOf(r) /\ e = n + (m + 1)
                        /\ K = KeptOf(r) /\ L = KeptOf(w)
  OBVIOUS
<1>3. f \in SUBSET (1..n) /\ n \notin f /\ FoldsOf(w) = f
  <2>1. /\ FoldsOf(r) \in SUBSET (1..n) /\ n \notin FoldsOf(r)
        /\ FoldsOf(w) = FoldsOf(r) \cup (IF n > 0 /\ p[1] = " " THEN {n} ELSE {})
    BY FoldsAfter
  <2>2. FoldsOf(w) = FoldsOf(r)
    BY <2>1
  <2> QED BY <1>2, <2>1, <2>2
<1>4. n \in Nat /\ m \in Nat /\ e \in Nat /\ n < e /\ n + m + 1 = e
  <2>1. n \in Nat /\ m \in Nat
    BY <1>1
  <2> QED BY ONLY <1>2, <2>1
<1>5. DOMAIN r = 1..n /\ DOMAIN w = 1..e /\ w[e] = Break
  BY <1>1, <1>4
<1>6. K = {i \in 1..n : i \notin f /\ \A j \in f : i # j + 1}
  BY <1>2, <1>5 DEF KeptOf
<1>7. L = {i \in 1..e : i \notin f /\ \A j \in f : i # j + 1}
  BY <1>2, <1>3, <1>5 DEF KeptOf
<1>8. \A i \in (n + 1)..e : i \in 1..e /\ i \notin f /\ i \notin 1..n /\ \A j \in f : i # j + 1
  <2>1. \A j \in f : j \in 1..n /\ j < n
    BY ONLY <1>3, <1>4
  <2> QED BY ONLY <1>3, <1>4, <2>1
<1>9. \A i : i \in 1..e <=> i \in 1..n \/ i \in (n + 1)..e
  BY ONLY <1>4
<1>10. L = K \cup (n + 1)..e /\ K \in SUBSET (1..n)
  BY ONLY <1>6, <1>7, <1>8, <1>9
<1>11. \A i \in K : i \in EndsOf(w) <=> i \in EndsOf(r)
  <2>1. \A i \in K : i \in 1..n /\ w[i] = r[i]
    BY <1>1, <1>10
  <2> QED BY ONLY <1>2, <1>10, <2>1 DEF EndsOf
<1>12. \A i \in (n + 1)..e : i \in EndsOf(w) <=> i = e
  <2> SUFFICES ASSUME NEW i \in (n + 1)..e PROVE i \in EndsOf(w) <=> i = e
    OBVIOUS
  <2>1. ASSUME i # e PROVE w[i] # Break
    <3>1. PICK k : k = i - n
      OBVIOUS
    <3>2. k \in 1..m /\ i = n + k
      BY ONLY <1>4, <2>1, <3>1, i \in (n + 1)..e
    <3> QED BY <1>1, <3>2
  <2>2. i \in L
    BY <1>10
  <2> QED BY ONLY <1>2, <1>5, <2>1, <2>2 DEF EndsOf
<1>13. EndsOf(w) = EndsOf(r) \cup {e}
  <2>1. EndsOf(w) \subseteq L /\ EndsOf(r) \subseteq K /\ e \in (n + 1)..e
    <3>1. e \in (n + 1)..e
      BY ONLY <1>4
    <3> QED BY ONLY <1>2, <3>1 DEF EndsOf
  <2> QED BY ONLY <1>10, <1>11, <1>12, <2>1
<1> QED BY <1>2, <1>10, <1>13 DEF NewLineParts

ContinuationParts(r, n, m, w) ==
  /\ KeptOf(r) \in SUBSET (1..n) /\ n \in KeptOf(r) /\ n \in EndsOf(r)
  /\ KeptOf(w) = (KeptOf(r) \ {n}) \cup ((n + 1) + 1)..((n + 1) + m)
  /\ EndsOf(w) = (EndsOf(r) \ {n}) \cup {(n + 1) + m}

LEMMA ContinuationKept ==
  ASSUME NEW r, NEW p, NEW n, NEW m, NEW w, LineAdded(r, p, n, m, w), WholeRows(r, n),
         n > 0, p[1] = " "
  PROVE  ContinuationParts(r, n, m, w)
<1>1. /\ n \in Nat /\ m \in Nat /\ m >= 1 /\ DOMAIN r = 1..n /\ DOMAIN w = 1..(n + m + 1)
      /\ (\A i \in 1..n : w[i] = r[i])
      /\ (\A i \in 1..m : w[n + i] = p[i] /\ p[i] # Break) /\ w[n + m + 1] = Break
  BY DEF LineAdded
<1>2. PICK f, e, s, K, L : /\ f = FoldsOf(r) /\ s = n + 1 /\ e = s + m
                           /\ K = KeptOf(r) /\ L = KeptOf(w)
  OBVIOUS
<1>3. f \in SUBSET (1..n) /\ n \notin f /\ FoldsOf(w) = f \cup {n}
  BY <1>2, FoldsAfter
<1>4. /\ n \in Nat /\ m \in Nat /\ e \in Nat /\ s \in Nat /\ n < s /\ s < e /\ n + m + 1 = e
      /\ n \in 1..n /\ s = n + 1 /\ e = s + m
  <2>1. n \in Nat /\ m \in Nat /\ m >= 1 /\ n > 0
    BY <1>1
  <2> QED BY ONLY <1>2, <2>1
<1>5. DOMAIN r = 1..n /\ DOMAIN w = 1..e /\ w[e] = Break
  BY <1>1, <1>4
<1>6. K = {i \in 1..n : i \notin f /\ \A j \in f : i # j + 1}
  BY <1>2, <1>5 DEF KeptOf
<1>7. L = {i \in 1..e : i \notin f /\ i # n /\ i # s /\ \A j \in f : i # j + 1}
  <2>1. L = {i \in 1..e : i \notin f \cup {n} /\ \A j \in f \cup {n} : i # j + 1}
    BY <1>2, <1>3, <1>5 DEF KeptOf
  <2> QED BY ONLY <1>4, <2>1
<1>8. /\ \A i \in (s + 1)..e : i \in 1..e /\ i \notin f /\ i # n /\ i # s /\ i \notin 1..n
                              /\ \A j \in f : i # j + 1
      /\ \A i \in 1..n : i # s
      /\ \A j \in f : n # j + 1 \/ j = n - 1
  <2>1. \A j \in f : j \in 1..n /\ j < n
    BY ONLY <1>3, <1>4
  <2> QED BY ONLY <1>3, <1>4, <2>1
<1>9. \A i : i \in 1..e <=> i \in 1..n \/ i = s \/ i \in (s + 1)..e
  BY ONLY <1>4
<1>10. L = (K \ {n}) \cup (s + 1)..e /\ K \in SUBSET (1..n)
  BY ONLY <1>6, <1>7, <1>8, <1>9
<1>11. n \in K /\ n \in EndsOf(r)
  <2>1. r[n] = Break
    BY DEF WholeRows
  <2>2. \A j \in f : n # j + 1
    <3> SUFFICES ASSUME NEW j \in f, n = j + 1 PROVE FALSE
      OBVIOUS
    <3>1. r[j + 1] = " "
      BY <1>2 DEF FoldsOf
    <3> QED BY <2>1, <3>1 DEF Break
  <2>3. n \in K
    BY ONLY <1>3, <1>4, <1>6, <2>2
  <2> QED BY ONLY <1>2, <2>1, <2>3 DEF EndsOf
<1>12. \A i \in K \ {n} : i \in EndsOf(w) <=> i \in EndsOf(r)
  <2>1. \A i \in K \ {n} : i \in 1..n /\ w[i] = r[i]
    BY <1>1, <1>10
  <2> QED BY ONLY <1>2, <1>10, <2>1 DEF EndsOf
<1>13. \A i \in (s + 1)..e : i \in EndsOf(w) <=> i = e
  <2> SUFFICES ASSUME NEW i \in (s + 1)..e PROVE i \in EndsOf(w) <=> i = e
    OBVIOUS
  <2>1. ASSUME i # e PROVE w[i] # Break
    <3>1. PICK k : k = i - n
      OBVIOUS
    <3>2. k \in 1..m /\ i = n + k
      BY ONLY <1>4, <2>1, <3>1, i \in (s + 1)..e
    <3> QED BY <1>1, <3>2
  <2>2. i \in L
    BY <1>10
  <2> QED BY ONLY <1>2, <1>5, <2>1, <2>2 DEF EndsOf
<1>14. EndsOf(w) = (EndsOf(r) \ {n}) \cup {e}
  <2>1. EndsOf(w) \subseteq L /\ EndsOf(r) \subseteq K /\ e \in (s + 1)..e
    <3>1. e \in (s + 1)..e
      BY ONLY <1>4
    <3> QED BY ONLY <1>2, <3>1 DEF EndsOf
  <2>2. (s + 1)..e \cap K = {}
    BY ONLY <1>8, <1>10
  <2> QED BY ONLY <1>10, <1>12, <1>13, <2>1, <2>2
<1> QED BY <1>2, <1>10, <1>11, <1>14 DEF ContinuationParts

-----------------------------------------------------------------------------
(* What the strict reader has, and what the RFC reads. *)

Unfolded(r, ts) ==
  /\ r \in Seq(Mark) /\ ts \in Seq(Text)
  /\ Rows(Len(r), KeptOf(r), EndsOf(r)) /\ WholeRows(r, Len(r))
  /\ Len(ts) = Cardinality(EndsOf(r))
  /\ U!Characters(ts) = ReadOut(KeptOf(r), EndsOf(r), r)
  /\ Len(r) > 0 => ts # <<>> /\ ColumnIn(KeptOf(r), EndsOf(r), Len(r)) = Len(Last(ts)) + 1

\* The same, with names for the parts.
UnfoldedAs(r, ts, n, K, E) ==
  /\ r \in Seq(Mark) /\ ts \in Seq(Text)
  /\ n = Len(r) /\ n \in Nat /\ K = KeptOf(r) /\ E = EndsOf(r)
  /\ Rows(n, K, E) /\ WholeRows(r, n)
  /\ Len(ts) = Cardinality(E) /\ Len(ts) \in Nat
  /\ U!Characters(ts) = ReadOut(K, E, r)
  /\ n > 0 => ts # <<>> /\ ColumnIn(K, E, n) = Len(Last(ts)) + 1

LEMMA NewLineUnfolded ==
  ASSUME NEW r, NEW ts, NEW n, NEW K, NEW E, UnfoldedAs(r, ts, n, K, E),
         NEW p \in Text, NEW m \in Nat, m = Len(p), m >= 1, ~(n > 0 /\ p[1] = " "),
         NEW w \in Seq(Mark), LineAdded(r, p, n, m, w)
  PROVE  Unfolded(w, Append(ts, p))
<1>1. /\ n \in Nat /\ K = KeptOf(r) /\ E = EndsOf(r) /\ Rows(n, K, E) /\ WholeRows(r, n)
      /\ ts \in Seq(Text) /\ Len(ts) = Cardinality(E) /\ Len(ts) \in Nat
      /\ U!Characters(ts) = ReadOut(K, E, r)
  BY DEF UnfoldedAs
<1>2. PICK L, F, h, us : L = KeptOf(w) /\ F = EndsOf(w) /\ h = m + 1 /\ us = Append(ts, p)
  OBVIOUS
<1>3. K \in SUBSET (1..n) /\ L = K \cup (n + 1)..(n + h) /\ F = E \cup {n + h}
  <2>1. WholeRows(r, n)
    BY <1>1
  <2>2. NewLineParts(r, n, m, w)
    BY ONLY <2>1, LineAdded(r, p, n, m, w), ~(n > 0 /\ p[1] = " "), NewLineKept
  <2> QED BY ONLY <1>1, <1>2, <2>2 DEF NewLineParts
<1>4. E \in SUBSET K
  BY <1>1 DEF Rows
<1>5. h \in Nat /\ h >= 1 /\ h - 1 = m /\ n + h \in Nat /\ n + h > 0 /\ n <= n
  BY ONLY <1>1, <1>2, m \in Nat
<1>6. Longer(n, K, E, n, h, L, F)
  <2>1. E \in SUBSET (1..n)
    BY ONLY <1>3, <1>4
  <2> QED BY <1>1, <1>3, <1>5, <2>1 DEF Longer
<1>7. InLastRow(K, E) = {} /\ Cardinality(InLastRow(K, E)) = 0
  <2>1. InLastRow(K, E) = {}
    BY <1>1, NewRow
  <2> QED BY <2>1, FS_EmptySet
<1>8. /\ Cardinality(F) = Cardinality(E) + 1
      /\ ColumnIn(L, F, n + h) = h
  <2>1. /\ AsFarAs(n, K, E, L, F)
        /\ Cardinality(F) = Cardinality(E) + 1 /\ Cardinality(E) \in Nat
        /\ \A k \in 1..h : /\ RowIn(F, n + k) = 1 + Cardinality(E)
                           /\ ColumnIn(L, F, n + k) = Cardinality(InLastRow(K, E)) + k
    BY ONLY <1>6, LaterPlaces
  <2>2. h \in 1..h /\ 0 + h = h
    BY ONLY <1>5
  <2> QED BY <1>7, <2>1, <2>2
<1>9. Len(w) = n + h /\ w[n + h] = Break
  <2>1. Len(w) = n + m + 1 /\ w[n + m + 1] = Break
    BY DEF LineAdded
  <2>2. n + m + 1 = n + h
    BY ONLY <1>1, <1>2, m \in Nat
  <2> QED BY <2>1, <2>2
<1>10. ReadOut(L, F, w) = ReadOut(K, E, r) \cup Cells(1 + Cardinality(E), 0, p)
  <2>1. \A i \in K : w[i] = r[i]
    BY <1>3 DEF LineAdded
  <2>2. \A k \in 1..(h - 1) : w[n + k] = p[k]
    BY <1>5 DEF LineAdded
  <2>3. Len(p) = h - 1
    BY <1>5
  <2>4. ReadOut(L, F, w) = ReadOut(K, E, r) \cup Cells(1 + Cardinality(E), Cardinality(InLastRow(K, E)), p)
    <3>1. Holding(K, r, n, h, p, w)
      BY ONLY <2>1, <2>2, <2>3 DEF Holding
    <3> QED BY ONLY <1>6, <3>1, ReadOutMore
  <2> QED BY <1>7, <2>4
<1>11. U!Characters(us) = ReadOut(L, F, w)
  <2>1. U!Characters(us) = U!Characters(ts) \cup Cells(Len(ts) + 1, 0, p)
    BY <1>1, <1>2, CharactersPushed
  <2>2. Len(ts) + 1 = 1 + Cardinality(E)
    BY ONLY <1>1
  <2> QED BY <1>1, <1>10, <2>1, <2>2
<1>12. us \in Seq(Text) /\ us # <<>> /\ Last(us) = p /\ Len(us) = Len(ts) + 1
  <2>1. ts \in Seq(Text) /\ p \in Text
    BY <1>1
  <2>2. us \in Seq(Text) /\ us # <<>> /\ Last(us) = p
    BY ONLY <1>2, <2>1, LastPushed
  <2>3. Len(us) = Len(ts) + 1
    BY ONLY <1>2, <2>1
  <2> QED BY <2>2, <2>3
<1>13. Rows(n + h, L, F)
  <2>1. n + h \in (n + 1)..(n + h) /\ (n + 1)..(n + h) \subseteq 1..(n + h) /\ 1..n \subseteq 1..(n + h)
    BY ONLY <1>1, <1>5
  <2>2. F \in SUBSET L /\ L \in SUBSET (1..(n + h)) /\ n + h \in F
    BY ONLY <1>3, <1>4, <2>1
  <2> QED BY <1>5, <2>2 DEF Rows
<1>14. WholeRows(w, n + h)
  BY <1>9 DEF WholeRows
<1>15. ColumnIn(L, F, n + h) = Len(Last(us)) + 1
  BY <1>2, <1>8, <1>12
<1>16. Len(us) = Cardinality(F)
  BY ONLY <1>1, <1>8, <1>12
<1> QED BY <1>2, <1>9, <1>11, <1>12, <1>13, <1>14, <1>15, <1>16 DEF Unfolded

LEMMA ContinuationUnfolded ==
  ASSUME NEW r, NEW ts, NEW n, NEW K, NEW E, UnfoldedAs(r, ts, n, K, E),
         NEW p \in Text, NEW m \in Nat, m = Len(p), m >= 1, n > 0, p[1] = " ",
         NEW w \in Seq(Mark), LineAdded(r, p, n, m, w)
  PROVE  Unfolded(w, LastReplaced(ts, Last(ts) \o Tail(p)))
<1>1. /\ n \in Nat /\ K = KeptOf(r) /\ E = EndsOf(r) /\ Rows(n, K, E) /\ WholeRows(r, n)
      /\ ts \in Seq(Text) /\ Len(ts) = Cardinality(E) /\ Len(ts) \in Nat
      /\ U!Characters(ts) = ReadOut(K, E, r)
      /\ ts # <<>> /\ ColumnIn(K, E, n) = Len(Last(ts)) + 1
  BY DEF UnfoldedAs
<1>2. PICK L, F, s, q, y, us, A, B : /\ L = KeptOf(w) /\ F = EndsOf(w) /\ s = n + 1 /\ q = Tail(p)
                                     /\ y = Last(ts) /\ us = LastReplaced(ts, y \o q)
                                     /\ A = K \ {n} /\ B = E \ {n}
  OBVIOUS
<1>3. /\ K \in SUBSET (1..n) /\ n \in K /\ n \in E
      /\ L = A \cup (s + 1)..(s + m) /\ F = B \cup {s + m}
  <2>1. WholeRows(r, n)
    BY <1>1
  <2>2. ContinuationParts(r, n, m, w)
    BY ONLY <2>1, LineAdded(r, p, n, m, w), n > 0, p[1] = " ", ContinuationKept
  <2> QED BY ONLY <1>1, <1>2, <2>2 DEF ContinuationParts
<1>4. E \in SUBSET K
  BY <1>1 DEF Rows
<1>5. s \in Nat /\ n <= s /\ s + m \in Nat /\ s + m > 0 /\ n < s + m
  BY ONLY <1>1, <1>2, m \in Nat
<1>6. Longer(n, A, B, s, m, L, F)
  <2>1. A \in SUBSET (1..n) /\ B \in SUBSET (1..n)
    BY ONLY <1>2, <1>3, <1>4
  <2> QED BY <1>1, <1>3, <1>5, <2>1 DEF Longer
<1>7. y \in Text /\ Len(y) \in Nat
  <2>1. ts \in Seq(Text) /\ ts # <<>>
    BY <1>1
  <2>2. Last(ts) \in Text
    BY ONLY <2>1 DEF Last
  <2>3. y \in Text
    BY ONLY <1>2, <2>2
  <2> QED BY ONLY <2>3 DEF Text
<1>8. /\ Cardinality(E) \in Nat /\ Cardinality(B) = Cardinality(E) - 1
      /\ Cardinality(InLastRow(A, B)) = Len(y)
  <2>1. /\ Cardinality(E) \in Nat /\ Cardinality(E \ {n}) = Cardinality(E) - 1
        /\ RowIn(E, n) = Cardinality(E)
        /\ Cardinality(InLastRow(K \ {n}, E \ {n})) = ColumnIn(K, E, n) - 1
    <3>1. Rows(n, K, E) /\ n > 0
      BY <1>1
    <3> QED BY ONLY <3>1, LastRow
  <2>2. Cardinality(InLastRow(A, B)) = ColumnIn(K, E, n) - 1
    BY <1>2, <2>1
  <2>3. ColumnIn(K, E, n) = Len(y) + 1
    BY <1>1, <1>2
  <2>4. Cardinality(InLastRow(A, B)) = Len(y)
    BY ONLY <1>7, <2>2, <2>3
  <2> QED BY <1>2, <2>1, <2>4
<1>9. /\ Cardinality(F) = Cardinality(E)
      /\ ColumnIn(L, F, s + m) = Len(y) + m
  <2>1. /\ AsFarAs(n, A, B, L, F)
        /\ Cardinality(F) = Cardinality(B) + 1 /\ Cardinality(B) \in Nat
        /\ \A k \in 1..m : /\ RowIn(F, s + k) = 1 + Cardinality(B)
                           /\ ColumnIn(L, F, s + k) = Cardinality(InLastRow(A, B)) + k
    BY ONLY <1>6, LaterPlaces
  <2>2. m \in 1..m
    BY ONLY m \in Nat, m >= 1
  <2>3. ColumnIn(L, F, s + m) = Cardinality(InLastRow(A, B)) + m
    BY <2>1, <2>2
  <2>4. Cardinality(F) = Cardinality(B) + 1 /\ Cardinality(InLastRow(A, B)) + m = Len(y) + m
    BY <1>8, <2>1
  <2>5. Cardinality(F) = Cardinality(E)
    BY ONLY <1>8, <2>4
  <2> QED BY <2>3, <2>4, <2>5
<1>10. Len(w) = s + m /\ w[s + m] = Break
  <2>1. Len(w) = n + m + 1 /\ w[n + m + 1] = Break
    BY DEF LineAdded
  <2>2. n + m + 1 = s + m
    BY ONLY <1>1, <1>2, m \in Nat
  <2> QED BY <2>1, <2>2
<1>11. q \in Text /\ Len(q) = m - 1 /\ \A k \in 1..(m - 1) : q[k] = p[k + 1]
  <2>1. p \in Seq(Letter) /\ p # <<>>
    BY ONLY p \in Text, m = Len(p), m \in Nat, m >= 1 DEF Text
  <2>2. Tail(p) \in Seq(Letter) /\ Len(Tail(p)) = Len(p) - 1 /\ \A i \in 1..(Len(p) - 1) : Tail(p)[i] = p[i + 1]
    BY ONLY <2>1, Behead
  <2> QED BY ONLY <1>2, <2>2, m = Len(p) DEF Text
<1>12. \A k \in 1..(m - 1) : w[s + k] = q[k]
  <2> SUFFICES ASSUME NEW k \in 1..(m - 1) PROVE w[s + k] = q[k]
    OBVIOUS
  <2>1. PICK j : j = k + 1
    OBVIOUS
  <2>2. j \in 1..m /\ n + j = s + k
    BY ONLY <1>1, <1>2, <2>1, m \in Nat, k \in 1..(m - 1)
  <2>3. w[n + j] = p[j]
    BY <2>2 DEF LineAdded
  <2> QED BY <1>11, <2>1, <2>2, <2>3
<1>13. ReadOut(L, F, w) = ReadOut(A, B, r) \cup Cells(1 + Cardinality(B), Cardinality(InLastRow(A, B)), q)
  <2>1. \A i \in A : w[i] = r[i]
    BY <1>2, <1>3 DEF LineAdded
  <2>2. Len(q) = m - 1
    BY <1>11
  <2>3. Holding(A, r, s, m, q, w)
    BY ONLY <1>12, <2>1, <2>2 DEF Holding
  <2> QED BY ONLY <1>6, <2>3, ReadOutMore
<1>14. ReadOut(A, B, r) = ReadOut(K, E, r)
  <2>1. A \ B = K \ E
    BY ONLY <1>2, <1>3
  <2>2. ASSUME NEW i \in K \ E
        PROVE  <<RowIn(B, i), ColumnIn(A, B, i), r[i]>> = <<RowIn(E, i), ColumnIn(K, E, i), r[i]>>
    <3>1. PICK h : h = n - 1
      OBVIOUS
    <3>2. h \in Nat /\ \A j \in Nat : j <= h => j # n
      BY ONLY <1>1, <3>1, n > 0
    <3>3. i \in Nat /\ i <= h
      <4>1. i \in 1..n /\ i # n
        BY ONLY <1>3
      <4> QED BY ONLY <1>1, <3>1, <4>1
    <3>4. AsFarAs(h, A, B, K, E)
      <4>1. 1..n \subseteq Nat
        BY ONLY <1>1
      <4>2. K \in SUBSET Nat /\ E \in SUBSET Nat /\ A \in SUBSET Nat /\ B \in SUBSET Nat
        BY ONLY <1>2, <1>3, <1>4, <4>1
      <4>3. \A j \in Nat : j <= h => (j \in A <=> j \in K) /\ (j \in B <=> j \in E)
        BY ONLY <1>2, <3>2
      <4> QED BY <3>2, <4>2, <4>3 DEF AsFarAs
    <3>5. RowIn(B, i) = RowIn(E, i) /\ ColumnIn(A, B, i) = ColumnIn(K, E, i)
      BY ONLY <3>3, <3>4, Earlier
    <3> QED BY <3>5
  <2> QED BY <2>1, <2>2 DEF ReadOut
<1>15. U!Characters(us) = ReadOut(L, F, w)
  <2>1. U!Characters(us) = U!Characters(ts) \cup Cells(Len(ts), Len(y), q)
    <3>1. ts \in Seq(Text) /\ ts # <<>> /\ q \in Text
      BY <1>1, <1>11
    <3>2. U!Characters(LastReplaced(ts, Last(ts) \o q))
            = U!Characters(ts) \cup Cells(Len(ts), Len(Last(ts)), q)
      BY ONLY <3>1, CharactersContinued
    <3> QED BY ONLY <1>2, <3>2
  <2>2. 1 + Cardinality(B) = Len(ts)
    BY ONLY <1>1, <1>8
  <2> QED BY <1>1, <1>8, <1>13, <1>14, <2>1, <2>2
<1>16. us \in Seq(Text) /\ us # <<>> /\ Last(us) = y \o q /\ Len(us) = Len(ts) /\ Len(y \o q) = Len(y) + (m - 1)
  <2>1. y \o q \in Text
    <3>1. y \in Text /\ q \in Text
      BY <1>7, <1>11
    <3> QED BY ONLY <3>1, EqualsJoined
  <2>2. us \in Seq(Text) /\ us # <<>> /\ Len(us) = Len(ts) /\ Last(us) = y \o q
    <3>1. ts \in Seq(Text) /\ ts # <<>>
      BY <1>1
    <3>2. PICK x : x = y \o q
      OBVIOUS
    <3>3. x \in Text /\ us = LastReplaced(ts, x)
      BY ONLY <1>2, <2>1, <3>2
    <3>4. us \in Seq(Text) /\ us # <<>> /\ Len(us) = Len(ts) /\ Last(us) = x
      BY ONLY <3>1, <3>3, Replaced
    <3> QED BY ONLY <3>2, <3>4
  <2>3. Len(y \o q) = Len(y) + Len(q)
    <3>1. y \in Text /\ q \in Text
      BY <1>7, <1>11
    <3>2. y \in Seq(Letter) /\ q \in Seq(Letter)
      BY ONLY <3>1 DEF Text
    <3> QED BY ONLY <3>2, Joined
  <2> QED BY <1>11, <2>2, <2>3
<1>17. Rows(s + m, L, F)
  <2>1. s + m \in (s + 1)..(s + m) /\ (s + 1)..(s + m) \subseteq 1..(s + m) /\ 1..n \subseteq 1..(s + m)
    BY ONLY <1>1, <1>5, m \in Nat, m >= 1
  <2>2. F \in SUBSET L /\ L \in SUBSET (1..(s + m)) /\ s + m \in F
    BY ONLY <1>2, <1>3, <1>4, <2>1
  <2> QED BY <1>5, <2>2 DEF Rows
<1>18. WholeRows(w, s + m)
  BY <1>10 DEF WholeRows
<1>19. ColumnIn(L, F, s + m) = Len(Last(us)) + 1
  <2>1. Len(y) + m = (Len(y) + (m - 1)) + 1
    BY ONLY <1>7, m \in Nat
  <2> QED BY <1>9, <1>16, <2>1
<1>20. Len(us) = Cardinality(F)
  BY <1>1, <1>9, <1>16
<1> QED BY <1>2, <1>10, <1>15, <1>16, <1>17, <1>18, <1>19, <1>20 DEF Unfolded

LEMMA UnfoldedNothing == Unfolded(<<>>, <<>>)
<1>1. PICK r : r = <<>>
  OBVIOUS
<1>2. r \in Seq(Mark) /\ r \in Seq(Text) /\ Len(r) = 0 /\ DOMAIN r = {} /\ Len(r) \in Nat
  BY <1>1
<1>3. KeptOf(r) = {} /\ EndsOf(r) = {} /\ Cardinality(EndsOf(r)) = 0
  <2>1. KeptOf(r) = {}
    BY <1>2 DEF KeptOf
  <2>2. EndsOf(r) = {}
    BY <2>1 DEF EndsOf
  <2> QED BY <2>1, <2>2, FS_EmptySet
<1>4. Rows(Len(r), KeptOf(r), EndsOf(r)) /\ WholeRows(r, Len(r))
  BY <1>2, <1>3 DEF Rows, WholeRows
<1>5. U!Characters(r) = ReadOut(KeptOf(r), EndsOf(r), r)
  <2>1. U!Characters(r) = {}
    BY <1>2 DEF U!Characters
  <2>2. ReadOut({}, {}, r) = {}
    BY DEF ReadOut
  <2> QED BY <1>3, <2>1, <2>2
<1>6. Unfolded(r, r)
  BY <1>2, <1>3, <1>4, <1>5 DEF Unfolded
<1> QED BY <1>1, <1>6

LEMMA UnfoldedMore ==
  ASSUME NEW r, NEW ts, Unfolded(r, ts), NEW p \in Text, p # <<>>, Unbroken(p),
         Continues(p) => ts # <<>>, NEW w, w = r \o (p \o <<Break>>)
  PROVE  Unfolded(w, TakenText(ts, p))
<1>1. PICK n, K, E, m : n = Len(r) /\ K = KeptOf(r) /\ E = EndsOf(r) /\ m = Len(p)
  OBVIOUS
<1>2. /\ r \in Seq(Mark) /\ ts \in Seq(Text) /\ n \in Nat /\ Len(ts) \in Nat
  BY <1>1 DEF Unfolded
<1>3. m \in Nat /\ m >= 1 /\ Head(p) = p[1]
  <2>1. p \in Seq(Letter)
    BY DEF Text
  <2> QED BY <1>1, <2>1
<1>4. UnfoldedAs(r, ts, n, K, E)
  BY <1>1, <1>2 DEF Unfolded, UnfoldedAs
<1>5. w \in Seq(Mark) /\ LineAdded(r, p, n, m, w)
  BY <1>1, <1>2, LineIsAdded
<1>6. /\ Rows(n, K, E) /\ Len(ts) = Cardinality(E) /\ (n > 0 => ts # <<>>)
  BY <1>4 DEF UnfoldedAs
<1>7. ts # <<>> => n > 0
  <2> SUFFICES ASSUME ~(n > 0) PROVE ts = <<>>
    OBVIOUS
  <2>1. 1..n = {}
    BY ONLY <1>2, ~(n > 0)
  <2>2. E = {}
    BY <1>6, <2>1 DEF Rows
  <2>3. Len(ts) = 0
    BY <1>6, <2>2, FS_EmptySet
  <2> QED BY <1>2, <2>3, NoElements
<1>8. CASE Continues(p)
  <2>1. n > 0 /\ p[1] = " "
    BY <1>3, <1>7, <1>8 DEF Continues
  <2>2. Unfolded(w, LastReplaced(ts, Last(ts) \o Tail(p)))
    BY ONLY p \in Text, <1>1, <1>3, <1>4, <1>5, <2>1, ContinuationUnfolded
  <2>3. TakenText(ts, p) = LastReplaced(ts, Last(ts) \o Tail(p))
    BY <1>8 DEF TakenText, Last
  <2> QED BY <2>2, <2>3
<1>9. CASE ~Continues(p)
  <2>1. ~(n > 0 /\ p[1] = " ")
    BY <1>3, <1>9 DEF Continues
  <2>2. Unfolded(w, Append(ts, p))
    BY ONLY p \in Text, <1>1, <1>3, <1>4, <1>5, <2>1, NewLineUnfolded
  <2>3. TakenText(ts, p) = Append(ts, p)
    BY <1>9 DEF TakenText
  <2> QED BY <2>2, <2>3
<1> QED BY <1>8, <1>9

-----------------------------------------------------------------------------
(* The document as one text, broken where its lines end. *)

RawLines(ps) == [i \in DOMAIN ps |-> ps[i].text \o <<Break>>]
RawUpTo(ps, k) == FlattenSeq(SubSeq(RawLines(ps), 1, k))

LEMMA RawType ==
  ASSUME NEW ps \in Seq(Physical), NEW ls, ls = RawLines(ps)
  PROVE  /\ ls \in Seq(Seq(Mark)) /\ Len(ls) = Len(ps)
         /\ \A i \in 1..Len(ps) : ls[i] = ps[i].text \o <<Break>> /\ ps[i].text \in Text
<1>1. PICK n \in Nat : n = Len(ps)
  OBVIOUS
<1>2. DOMAIN ps = 1..n /\ \A i \in 1..n : ps[i] \in Physical
  BY <1>1
<1>3. \A i \in 1..n : ps[i].text \in Text
  BY <1>2 DEF Physical
<1>4. ASSUME NEW x \in Text PROVE x \o <<Break>> \in Seq(Mark)
  <2>1. x \in Seq(Mark)
    <3>1. Letter \subseteq Mark
      BY DEF Mark
    <3> QED BY <3>1, Wider DEF Text
  <2>2. <<Break>> \in Seq(Mark)
    BY One DEF Mark
  <2> QED BY <2>1, <2>2, Joined
<1>5. \A i \in 1..n : ps[i].text \o <<Break>> \in Seq(Mark)
  BY <1>3, <1>4
<1>6. ls = [i \in 1..n |-> ps[i].text \o <<Break>>]
  BY <1>2 DEF RawLines
<1>7. ls \in Seq(Seq(Mark)) /\ Len(ls) = n
  BY <1>1, <1>5, <1>6
<1> QED BY <1>1, <1>3, <1>6, <1>7

LEMMA RawNothing ==
  ASSUME NEW ps \in Seq(Physical) PROVE RawUpTo(ps, 0) = <<>>
<1>1. PICK ls : ls = RawLines(ps)
  OBVIOUS
<1>2. ls \in Seq(Seq(Mark))
  BY <1>1, RawType
<1>3. SubSeq(ls, 1, 0) = <<>>
  BY <1>2, FirstOnes
<1> QED BY <1>1, <1>3, FlatNothing DEF RawUpTo

LEMMA RawMore ==
  ASSUME NEW ps \in Seq(Physical), NEW k \in 0..(Len(ps) - 1)
  PROVE  RawUpTo(ps, k + 1) = RawUpTo(ps, k) \o (ps[k + 1].text \o <<Break>>)
<1>1. PICK ls, a, b, x : /\ ls = RawLines(ps) /\ a = SubSeq(ls, 1, k) /\ b = SubSeq(ls, 1, k + 1)
                         /\ x = ps[k + 1].text \o <<Break>>
  OBVIOUS
<1>2. ls \in Seq(Seq(Mark)) /\ Len(ls) = Len(ps)
  BY <1>1, RawType
<1>3. k + 1 \in 1..Len(ps) /\ k \in 0..(Len(ls) - 1) /\ k \in 0..Len(ls)
  <2>1. Len(ps) \in Nat
    OBVIOUS
  <2> QED BY <1>2, <2>1
<1>4. ls[k + 1] = x /\ x \in Seq(Mark)
  <2>1. ls[k + 1] = x
    BY <1>1, <1>3, RawType
  <2>2. ls[k + 1] \in Seq(Mark)
    BY <1>2, <1>3
  <2> QED BY <2>1, <2>2
<1>5. b = Append(a, x)
  BY <1>1, <1>2, <1>3, <1>4, OneMore
<1>6. a \in Seq(Seq(Mark))
  BY <1>1, <1>2, <1>3, FirstOnes
<1>7. FlattenSeq(b) = FlattenSeq(a) \o x
  BY <1>4, <1>5, <1>6, FlatMore
<1> QED BY <1>1, <1>7 DEF RawUpTo

LEMMA RawAll ==
  ASSUME NEW ps \in Seq(Physical) PROVE RawUpTo(ps, Len(ps)) = FlattenSeq(RawLines(ps))
<1>1. PICK ls : ls = RawLines(ps)
  OBVIOUS
<1>2. ls \in Seq(Seq(Mark)) /\ Len(ls) = Len(ps)
  BY <1>1, RawType
<1>3. SubSeq(ls, 1, Len(ls)) = ls
  BY <1>2, FirstOnes
<1> QED BY <1>1, <1>2, <1>3 DEF RawUpTo

-----------------------------------------------------------------------------
(* No line of a document holds a break. *)

UnbrokenLines(ps) == \A i \in DOMAIN ps : Unbroken(ps[i].text)

LEMMA MarkedUnbroken ==
  ASSUME NEW c \in Seq(Chars)
  PROVE  Unbroken(c) /\ Unbroken(MarkedText(c))
<1>1. Unbroken(c)
  <2>1. \A i \in DOMAIN c : c[i] \in Chars
    OBVIOUS
  <2> QED BY <2>1, DocumentsAssumption DEF Unbroken
<1>2. PICK m, t : m = Len(c) /\ t = MarkedText(c)
  OBVIOUS
<1>3. t \in Seq(Letter) /\ t # <<>> /\ Head(t) = " " /\ Tail(t) = c
  <2>1. c \in Text
    BY OfLetters
  <2> QED BY <1>2, <2>1, MarkedTextIs DEF Text, Continues
<1>4. m \in Nat /\ DOMAIN c = 1..m
  BY <1>2
<1>5. /\ Head(t) = t[1] /\ Len(t) \in Nat /\ Len(t) >= 1 /\ Len(c) = Len(t) - 1
      /\ \A i \in 1..(Len(t) - 1) : c[i] = t[i + 1]
  BY <1>3, Behead
<1>6. DOMAIN t = 1..(m + 1)
  <2>1. DOMAIN t = 1..Len(t)
    <3>1. t \in Seq(Letter)
      BY <1>3
    <3> QED BY ONLY <3>1
  <2>2. Len(t) = m + 1
    <3>1. Len(t) \in Nat /\ m = Len(t) - 1
      BY <1>2, <1>5
    <3> QED BY ONLY <3>1
  <2> QED BY <2>1, <2>2
<1>7. \A i \in 1..m : t[i + 1] # "CRLF"
  <2>1. \A i \in 1..m : c[i] # "CRLF" /\ c[i] = t[i + 1]
    BY <1>1, <1>2, <1>4, <1>5 DEF Unbroken
  <2> QED BY <2>1
<1>8. ASSUME NEW i \in 1..(m + 1) PROVE t[i] # "CRLF"
  <2>1. CASE i = 1
    BY <1>3, <1>5, <2>1
  <2>2. CASE i # 1
    <3>1. PICK k : k = i - 1
      OBVIOUS
    <3>2. k \in 1..m /\ i = k + 1
      BY ONLY <1>4, <2>2, <3>1, i \in 1..(m + 1)
    <3> QED BY <1>7, <3>2
  <2> QED BY <2>1, <2>2
<1>9. Unbroken(t)
  BY <1>6, <1>8 DEF Unbroken
<1> QED BY <1>1, <1>2, <1>9

LEMMA WrittenUnbroken ==
  ASSUME FoldTypes, follower \in Neighbours
  PROVE  UnbrokenLines(WrittenLines)
<1>1. PICK w, b, n, f : /\ w = WrittenLines /\ b = Len(Before) /\ n = Len(chunks)
                        /\ f = Len(follower)
  OBVIOUS
<1>2. /\ b \in Nat /\ n \in Nat /\ f \in Nat
      /\ w \in Seq(Physical) /\ Len(w) = b + n + f
      /\ \A i \in 1..b : w[i].text = Before[i]
      /\ \A i \in 1..n : w[b + i].text = Marked(i)
      /\ \A i \in 1..f : w[b + n + i].text = follower[i]
  BY <1>1, Written DEF WrittenIs
<1>3. \A i \in 1..b : Unbroken(Before[i])
  <2>1. DOMAIN Before = 1..b
    <3>1. Before \in Seq(Text)
      BY OfLetters
    <3> QED BY ONLY <1>1, <3>1
  <2> QED BY <2>1, DocumentsAssumption DEF Whole
<1>4. \A i \in 1..f : Unbroken(follower[i])
  <2>1. CASE follower = <<>>
    <3>1. f = 0
      BY <1>1, <2>1
    <3> QED BY <3>1
  <2>2. CASE follower \in Followers
    <3>1. DOMAIN follower = 1..f
      <4>1. follower \in Seq(Text)
        BY OfLetters
      <4> QED BY ONLY <1>1, <4>1
    <3> QED BY <2>2, <3>1, DocumentsAssumption DEF Whole
  <2> QED BY <2>1, <2>2 DEF Neighbours
<1>5. \A i \in 1..n : Unbroken(Marked(i))
  <2> SUFFICES ASSUME NEW i \in 1..n PROVE Unbroken(Marked(i))
    OBVIOUS
  <2>1. chunks[i] \in Seq(Chars)
    BY <1>1 DEF FoldTypes
  <2> QED BY <2>1, MarkedUnbroken DEF Marked, MarkedText
<1>6. ASSUME NEW i \in 1..(b + n + f) PROVE Unbroken(w[i].text)
  <2>1. CASE i <= b
    <3>1. i \in 1..b
      BY ONLY <2>1, <1>2, i \in 1..(b + n + f)
    <3> QED BY <1>2, <1>3, <3>1
  <2>2. CASE i > b /\ i <= b + n
    <3>1. PICK j : j = i - b
      OBVIOUS
    <3>2. b \in Nat /\ n \in Nat /\ f \in Nat
      BY <1>2
    <3>3. j \in 1..n /\ i = b + j
      BY ONLY <2>2, <3>1, <3>2, i \in 1..(b + n + f)
    <3>4. w[i].text = Marked(j)
      BY <1>2, <3>3
    <3> QED BY <1>5, <3>3, <3>4
  <2>3. CASE i > b + n
    <3>1. PICK j : j = i - (b + n)
      OBVIOUS
    <3>2. b \in Nat /\ n \in Nat /\ f \in Nat
      BY <1>2
    <3>3. j \in 1..f /\ i = b + n + j
      BY ONLY <2>3, <3>1, <3>2, i \in 1..(b + n + f)
    <3>4. w[i].text = follower[j]
      BY <1>2, <3>3
    <3> QED BY <1>4, <3>3, <3>4
  <2> QED BY <1>2, <2>1, <2>2, <2>3
<1>7. DOMAIN w = 1..(b + n + f)
  BY <1>2
<1> QED BY <1>1, <1>6, <1>7 DEF UnbrokenLines

-----------------------------------------------------------------------------
(* What every state keeps. *)

ReadSoFar == Unfolded(RawUpTo(physical, sIdx), U!S!Texts(sOut))
StrictReads ==
  /\ UnbrokenLines(physical)
  /\ sOutcome \in {"reading", "done"} => ReadSoFar
  /\ sOutcome = "done" => sIdx = Len(physical)

StrictInv == DocInv /\ StrictReads

LEMMA StrictTexts ==
  ASSUME NEW out \in Seq(Logical)
  PROVE  U!S!Texts(out) \in Seq(Text) /\ (out # <<>> => U!S!Texts(out) # <<>>)
<1>1. U!S!Texts(out) = LTexts(out)
  BY DEF U!S!Texts, LTexts, U!L!Texts
<1> QED BY <1>1, TextsOf

LEMMA NothingRead ==
  ASSUME physical \in Seq(Physical), UnbrokenLines(physical),
         sIdx = 0, sOut = <<>>, sOutcome = "reading"
  PROVE  StrictReads
<1>1. RawUpTo(physical, sIdx) = <<>>
  BY RawNothing
<1>2. U!S!Texts(sOut) = <<>>
  BY DEF U!S!Texts
<1> QED BY <1>1, <1>2, UnfoldedNothing DEF StrictReads, ReadSoFar

LEMMA StrictInit == FRInit => StrictInv
<1> SUFFICES ASSUME FRInit PROVE StrictInv
  OBVIOUS
<1>1. DocInv
  BY DocInit
<1>2. sIdx = 0 /\ sOut = <<>> /\ sOutcome = "reading"
  BY DEF FRInit, U!Init, U!S!Init
<1>3. physical \in Seq(Physical)
  BY <1>1 DEF DocInv, Reading, ReaderTypes
<1>4. UnbrokenLines(physical)
  <2>1. physical \in Inputs \/ physical = <<>>
    BY DEF FRInit
  <2>2. CASE physical \in Inputs
    BY <2>2, DocumentsAssumption DEF UnbrokenLines
  <2>3. CASE physical = <<>>
    BY <2>3 DEF UnbrokenLines
  <2> QED BY <2>1, <2>2, <2>3
<1> QED BY <1>1, <1>2, <1>3, <1>4, NothingRead DEF StrictInv

LEMMA StrictReadsStep ==
  ASSUME ReaderTypes, StrictReads, U!Next
  PROVE  StrictReads'
<1>1. CASE sOutcome \in U!S!ErrorKinds /\ UNCHANGED U!strictVars
  <2>1. UNCHANGED <<sIdx, sOut, sOutcome>> /\ sOutcome \notin {"reading", "done"}
    BY <1>1 DEF U!strictVars, U!S!ErrorKinds
  <2>2. physical' = physical
    <3>1. U!L!Next
      BY DEF U!Next
    <3> QED BY <3>1, LenientStep DEF Reading
  <2> QED BY <2>1, <2>2 DEF StrictReads
<1>2. CASE U!S!Next
  <2>1. /\ sOutcome = "reading" /\ physical' = physical
        /\ UnbrokenLines(physical) /\ ReadSoFar
        /\ physical \in Seq(Physical) /\ sIdx \in 0..Len(physical) /\ sOut \in Seq(Logical)
    BY <1>2, StrictStep DEF StrictReads, ReaderTypes
  <2>2. CASE sIdx = Len(physical) /\ sOutcome' = "done" /\ UNCHANGED <<sIdx, sOut>>
    BY <2>1, <2>2 DEF StrictReads, ReadSoFar, U!S!Texts
  <2>3. CASE sIdx < Len(physical) /\ sIdx' = sIdx + 1 /\ sOutcome' \in U!S!ErrorKinds
    BY <2>1, <2>3 DEF StrictReads, U!S!ErrorKinds
  <2>4. CASE /\ sIdx < Len(physical) /\ sIdx' = sIdx + 1
             /\ Plain(sOut, physical[sIdx + 1]) /\ sOutcome' = "reading"
             /\ sOut' = Taken(sOut, sIdx, physical[sIdx + 1].text)
    <3>1. PICK k, phys, p, r, ts :
            /\ k = sIdx /\ phys = physical[k + 1] /\ p = phys.text
            /\ r = RawUpTo(physical, k) /\ ts = U!S!Texts(sOut)
      OBVIOUS
    <3>2. k \in Nat /\ k \in 0..(Len(physical) - 1) /\ k + 1 \in 1..Len(physical)
      <4>1. Len(physical) \in Nat /\ sIdx \in 0..Len(physical) /\ sIdx < Len(physical)
        BY <2>1, <2>4
      <4> QED BY ONLY <3>1, <4>1
    <3>3. phys \in Physical /\ p \in Text /\ Unbroken(p)
      <4>1. phys \in Physical
        BY ONLY <2>1, <3>1, <3>2
      <4>2. k + 1 \in DOMAIN physical
        BY ONLY <2>1, <3>2
      <4> QED BY <2>1, <3>1, <4>1, <4>2 DEF Physical, UnbrokenLines
    <3>4. Plain(sOut, phys) /\ p # <<>> /\ (Continues(p) => sOut # <<>>)
      BY <2>4, <3>1 DEF Plain
    <3>5. Unfolded(r, ts) /\ (Continues(p) => ts # <<>>)
      BY <2>1, <3>1, <3>4, StrictTexts DEF ReadSoFar
    <3>6. Unfolded(r \o (p \o <<Break>>), TakenText(ts, p))
      BY <3>3, <3>4, <3>5, UnfoldedMore
    <3>7. RawUpTo(physical, k + 1) = r \o (p \o <<Break>>)
      BY <2>1, <3>1, <3>2, RawMore
    <3>8. U!S!Texts(Taken(sOut, k, phys.text)) = TakenText(ts, p)
      BY <2>1, <3>1, <3>2, <3>3, <3>4, TextsTaken
    <3>9. ReadSoFar'
      <4>1. sIdx' = k + 1 /\ sOut' = Taken(sOut, k, phys.text)
        BY <2>4, <3>1
      <4>2. U!S!Texts(sOut') = TakenText(ts, p) /\ RawUpTo(physical', sIdx') = r \o (p \o <<Break>>)
        BY <2>1, <3>7, <3>8, <4>1
      <4> QED BY <3>6, <4>2 DEF ReadSoFar, U!S!Texts
    <3> QED BY <2>1, <2>4, <3>9 DEF StrictReads
  <2> QED BY <1>2, <2>2, <2>3, <2>4, StrictStep
<1> QED BY <1>1, <1>2 DEF U!Next

LEMMA StrictKept == StrictInv /\ [FRNext]_allVars => StrictInv'
<1> SUFFICES ASSUME StrictInv, [FRNext]_allVars PROVE StrictInv'
  OBVIOUS
<1>1. DocInv /\ StrictReads /\ DocInv' /\ ReaderTypes
  <2>1. DocInv /\ StrictReads
    BY DEF StrictInv
  <2> QED BY <2>1, DocKept DEF DocInv, Reading
<1>2. CASE Fold \/ UNCHANGED allVars
  <2>1. UNCHANGED readerVars
    BY <1>2 DEF Fold, allVars
  <2>2. StrictReads'
    BY <1>1, <2>1 DEF StrictReads, ReadSoFar, U!S!Texts, readerVars
  <2> QED BY <1>1, <2>2 DEF StrictInv
<1>3. CASE Send
  <2>1. physical' = WrittenLines /\ sIdx' = 0 /\ sOut' = <<>> /\ sOutcome' = "reading"
    BY <1>1, <1>3 DEF Send, DocInv, Fresh
  <2>2. UnbrokenLines(physical')
    <3>1. FoldTypes /\ follower \in Neighbours
      BY <1>1 DEF DocInv, FoldInv
    <3> QED BY <2>1, <3>1, WrittenUnbroken
  <2>3. physical' \in Seq(Physical)
    BY <1>1 DEF DocInv, Reading, ReaderTypes
  <2>4. RawUpTo(physical', sIdx') = <<>>
    BY <2>1, <2>3, RawNothing
  <2>5. U!S!Texts(sOut') = <<>>
    BY <2>1 DEF U!S!Texts
  <2>6. ReadSoFar'
    BY <2>4, <2>5, UnfoldedNothing DEF ReadSoFar, U!S!Texts
  <2> QED BY <1>1, <2>1, <2>2, <2>6 DEF StrictInv, StrictReads
<1>4. CASE Read
  <2>1. U!Next
    BY <1>4 DEF Read
  <2> QED BY <1>1, <2>1, StrictReadsStep DEF StrictInv
<1> QED BY <1>2, <1>3, <1>4 DEF FRNext

-----------------------------------------------------------------------------
(* The RFC's reading, in its own words. *)

RfcCells(raw, kept, ends) ==
  LET row == [i \in kept |-> 1 + U!Cardinality({e \in ends : e < i})]
      column == [i \in kept |-> U!Cardinality({j \in kept : j <= i /\ row[j] = row[i]})]
  IN  {<<row[i], column[i], raw[i]>> : i \in kept \ ends}

RfcLines(raw, lines) ==
  /\ Len(lines) = U!Cardinality(EndsOf(raw))
  /\ U!Characters(lines) = RfcCells(raw, KeptOf(raw), EndsOf(raw))

LEMMA CellsRead ==
  ASSUME NEW r, NEW K, NEW E
  PROVE  RfcCells(r, K, E) = ReadOut(K, E, r)
<1>1. PICK row : row = [i \in K |-> 1 + U!Cardinality({e \in E : e < i})]
  OBVIOUS
<1>2. PICK column : column = [i \in K |-> U!Cardinality({j \in K : j <= i /\ row[j] = row[i]})]
  OBVIOUS
<1>3. \A i \in K : row[i] = RowIn(E, i)
  BY <1>1, SameCardinality DEF RowIn
<1>4. ASSUME NEW i \in K PROVE column[i] = ColumnIn(K, E, i)
  <2>1. {j \in K : j <= i /\ row[j] = row[i]} = {j \in K : j <= i /\ RowIn(E, j) = RowIn(E, i)}
    BY <1>3
  <2>2. column[i] = U!Cardinality({j \in K : j <= i /\ row[j] = row[i]})
    BY <1>2
  <2> QED BY <2>1, <2>2, SameCardinality DEF ColumnIn
<1>5. RfcCells(r, K, E) = {<<row[i], column[i], r[i]>> : i \in K \ E}
  BY <1>1, <1>2 DEF RfcCells
<1> QED BY <1>3, <1>4, <1>5 DEF ReadOut

LEMMA ReadAsRfc ==
  ASSUME NEW ts, physical \in Seq(Physical), Unfolded(RawUpTo(physical, Len(physical)), ts)
  PROVE  U!RfcReads(ts)
<1>1. PICK r : r = FlattenSeq(RawLines(physical))
  OBVIOUS
<1>2. Unfolded(r, ts)
  BY <1>1, RawAll
<1>3. r = U!FlattenSeq([i \in DOMAIN physical |-> physical[i].text \o <<"CRLF">>])
  BY <1>1, SameFlat DEF RawLines, Break
<1>4. RfcLines(r, ts)
  BY <1>2, SameCardinality, CellsRead DEF Unfolded, RfcLines
<1>5. RfcLines(U!FlattenSeq([i \in DOMAIN physical |-> physical[i].text \o <<"CRLF">>]), ts)
        <=> U!RfcReads(ts)
  BY DEF RfcLines, RfcCells, FoldsOf, KeptOf, EndsOf, Break, U!RfcReads
<1> QED BY <1>3, <1>4, <1>5

\* unfold() in strict mode, on any document: what it accepts, it reads as RFC 5545
\* 3.1 says, every CRLF that a space or tab follows deleted with that character,
\* and a line at each CRLF left.
THEOREM StrictReadsAsRfc == FRSpec => []StrictUnfoldsAsRfc
<1>1. StrictInv => StrictUnfoldsAsRfc
  <2> SUFFICES ASSUME StrictInv, sOutcome = "done" PROVE U!RfcReads(U!S!Texts(sOut))
    BY DEF StrictUnfoldsAsRfc, U!StrictUnfoldsAsRfc
  <2>1. Unfolded(RawUpTo(physical, Len(physical)), U!S!Texts(sOut))
    BY DEF StrictInv, StrictReads, ReadSoFar
  <2>2. physical \in Seq(Physical)
    BY DEF StrictInv, DocInv, Reading, ReaderTypes
  <2> QED BY <2>1, <2>2, ReadAsRfc
<1>2. FRSpec => []StrictInv
  BY StrictInit, StrictKept, PTL DEF FRSpec
<1> QED BY <1>1, <1>2, PTL
=============================================================================
