------------------------ MODULE ComponentDropProofs ------------------------
(***************************************************************************)
(* For any number of components and lists: however Python nests, shares or *)
(* knots them, taking them apart needs at most four frames, changes no     *)
(* list that Python can get at, and leaves nothing behind but cycles.      *)
(***************************************************************************)
EXTENDS ComponentDrop, ProofLemmas

Frame ==
  [what : {"drop"}, obj : Components, phase : {"begin", "loop", "free"}, stack : Seq(Components)]
    \cup [what : {"list"}, obj : Lists, phase : {"loop"}, stack : {<<>>}]

TypeOK ==
  /\ alive \subseteq Components /\ liveLists \subseteq Lists
  /\ listOf \in [Components -> Lists \cup {NoList}]
  /\ items \in [Lists -> Seq(Components)] /\ \A l \in Lists : Len(items[l]) <= MaxItems
  /\ held \subseteq Components /\ heldLists \subseteq Lists
  /\ frames \in Seq(Frame)

-----------------------------------------------------------------------------
(* What a state keeps. *)

IsDrop(f, c) == frames[f].what = "drop" /\ frames[f].obj = c
IsList(f, l) == frames[f].what = "list" /\ frames[f].obj = l
Dying(c) == \E f \in DOMAIN frames : IsDrop(f, c)
DyingList(l) == \E f \in DOMAIN frames : IsList(f, l)
Owned(l) == \E c \in Components : listOf[c] = l

InAList(c) == \E l \in liveLists : \E i \in DOMAIN items[l] : items[l][i] = c
OnAStack(c) == \E f \in DOMAIN frames : \E i \in DOMAIN frames[f].stack : frames[f].stack[i] = c
Referenced(c) == c \in held \/ InAList(c) \/ OnAStack(c)

\* What is referred to has not been freed.
NothingDangles ==
  /\ held \subseteq alive /\ heldLists \subseteq liveLists
  /\ \A c \in Components : listOf[c] # NoList => c \in alive /\ listOf[c] \in liveLists
  /\ \A c \in Components : Referenced(c) \/ Dying(c) => c \in alive
  /\ \A l \in Lists : DyingList(l) => l \in liveLists

\* No two components share a list: every one gets a list of its own.
OwnList ==
  \A c, d \in Components : listOf[c] # NoList /\ listOf[c] = listOf[d] => c = d

\* An object is being deallocated, once, exactly when its last reference is gone.
Counted ==
  /\ \A c \in alive : Referenced(c) <=> ~Dying(c)
  /\ \A l \in liveLists : Owned(l) \/ l \in heldLists <=> ~DyingList(l)
  /\ \A f, g \in DOMAIN frames :
       frames[f].what = frames[g].what /\ frames[f].obj = frames[g].obj => f = g

\* A component has its list until its Drop is over; the stack of Drop is empty
\* before and after its loop.
Fields ==
  /\ \A c \in alive : listOf[c] # NoList \/ Dying(c)
  /\ \A f \in DOMAIN frames : frames[f].what = "drop" =>
       /\ frames[f].phase = "free" <=> listOf[frames[f].obj] = NoList
       /\ frames[f].phase # "loop" => frames[f].stack = <<>>

\* At most: a list that lost its last reference; a component; one from the
\* stack of its Drop, whose own list was emptied before or is observed by
\* Python; and an emptied list.
Base == IF frames # <<>> /\ frames[1].what = "list" THEN 1 ELSE 0
Emptied(f) ==
  frames[f].phase # "free" =>
    listOf[frames[f].obj] \in heldLists \/ items[listOf[frames[f].obj]] = <<>>
Shape ==
  /\ Len(frames) <= Base + 3
  /\ \A f \in DOMAIN frames :
       /\ frames[f].what = "list" /\ f > 1 =>
            f > Base + 1 /\ f = Len(frames) /\ items[frames[f].obj] = <<>>
       /\ f = Base + 3 => frames[f].what = "list"
       /\ f > Base + 1 => frames[f].stack = <<>>
       /\ frames[f].what = "drop" /\ (f > Base + 1 \/ frames[f].phase = "loop") => Emptied(f)

Inv == TypeOK /\ NothingDangles /\ OwnList /\ Counted /\ Fields /\ Shape

-----------------------------------------------------------------------------
(* Sequences. *)

LEMMA Popped ==
  ASSUME NEW T, NEW s \in Seq(T), s # <<>>
  PROVE  /\ Len(s) \in Nat /\ Len(s) >= 1 /\ DOMAIN s = 1..Len(s)
         /\ Last(s) = s[Len(s)] /\ Last(s) \in T /\ Len(s) \in DOMAIN s
         /\ Front(s) \in Seq(T) /\ Len(Front(s)) = Len(s) - 1
         /\ DOMAIN Front(s) = 1..(Len(s) - 1)
         /\ \A i \in 1..(Len(s) - 1) : Front(s)[i] = s[i]
<1>1. /\ Len(s) \in Nat /\ Len(s) >= 1 /\ DOMAIN s = 1..Len(s) /\ Len(s) \in DOMAIN s
      /\ s[Len(s)] \in T
  OBVIOUS
<1>2. Front(s) = [i \in 1..(Len(s) - 1) |-> s[i]]
  BY <1>1 DEF Front
<1>3. \A i \in 1..(Len(s) - 1) : s[i] \in T
  OBVIOUS
<1>4. Front(s) \in Seq(T) /\ Len(Front(s)) = Len(s) - 1 /\ DOMAIN Front(s) = 1..(Len(s) - 1)
  BY <1>1, <1>2, <1>3
<1> QED BY <1>1, <1>2, <1>4 DEF Last

LEMMA TopReplaced ==
  ASSUME NEW T, NEW s \in Seq(T), s # <<>>, NEW x \in T
  PROVE  LET t == Append(Front(s), x)
         IN  /\ t \in Seq(T) /\ t # <<>> /\ Len(t) = Len(s) /\ DOMAIN t = DOMAIN s
             /\ \A i \in DOMAIN s : i # Len(s) => t[i] = s[i]
             /\ t[Len(s)] = x
<1> DEFINE u == Front(s)
           t == Append(u, x)
<1>1. /\ Len(s) \in Nat /\ Len(s) >= 1 /\ DOMAIN s = 1..Len(s)
      /\ u \in Seq(T) /\ Len(u) = Len(s) - 1 /\ DOMAIN u = 1..(Len(s) - 1)
      /\ \A i \in 1..(Len(s) - 1) : u[i] = s[i]
  BY Popped
<1> HIDE DEF u
<1>2. /\ t \in Seq(T) /\ t # <<>> /\ Len(t) = Len(u) + 1 /\ DOMAIN t = 1..(Len(u) + 1)
      /\ \A i \in DOMAIN u : t[i] = u[i]
      /\ t[Len(u) + 1] = x
  BY ZenonT(30), <1>1, Pushed
<1> HIDE DEF t
<1>3. /\ t \in Seq(T) /\ t # <<>> /\ Len(t) = Len(s) /\ DOMAIN t = DOMAIN s
      /\ \A i \in DOMAIN s : i # Len(s) => t[i] = s[i]
      /\ t[Len(s)] = x
  BY <1>1, <1>2
<1> QED BY <1>3 DEF t, u

\* What a sequence without its last element holds, and a concatenation.
Holds(s, x) == \E i \in DOMAIN s : s[i] = x

LEMMA FrontHolds ==
  ASSUME NEW T, NEW s \in Seq(T), s # <<>>
  PROVE  \A x : Holds(Front(s), x) <=> \E i \in DOMAIN s : i # Len(s) /\ s[i] = x
<1>1. /\ Len(s) \in Nat /\ DOMAIN s = 1..Len(s) /\ DOMAIN Front(s) = 1..(Len(s) - 1)
      /\ \A i \in 1..(Len(s) - 1) : Front(s)[i] = s[i]
  BY Popped
<1>2. \A i \in DOMAIN s : i # Len(s) <=> i \in 1..(Len(s) - 1)
  BY <1>1
<1>3. \A i \in 1..(Len(s) - 1) : i \in DOMAIN s
  BY <1>1
<1> QED BY <1>1, <1>2, <1>3 DEF Holds

LEMMA JoinHolds ==
  ASSUME NEW T, NEW s \in Seq(T), NEW t \in Seq(T)
  PROVE  /\ s \o t \in Seq(T)
         /\ \A x : Holds(s \o t, x) <=> Holds(s, x) \/ Holds(t, x)
<1> DEFINE u == s \o t
<1>1. /\ u \in Seq(T) /\ DOMAIN u = 1..(Len(s) + Len(t))
      /\ DOMAIN s = 1..Len(s) /\ DOMAIN t = 1..Len(t) /\ Len(s) \in Nat /\ Len(t) \in Nat
      /\ \A i \in 1..(Len(s) + Len(t)) : u[i] = IF i <= Len(s) THEN s[i] ELSE t[i - Len(s)]
  OBVIOUS
<1> HIDE DEF u
<1>2. ASSUME NEW x, NEW i \in DOMAIN u, u[i] = x PROVE Holds(s, x) \/ Holds(t, x)
  <2>1. CASE i <= Len(s)
    BY <1>1, <1>2, <2>1 DEF Holds
  <2>2. CASE i > Len(s)
    <3>1. i - Len(s) \in DOMAIN t /\ t[i - Len(s)] = x
      BY <1>1, <1>2, <2>2
    <3> QED BY <3>1 DEF Holds
  <2> QED BY <1>1, <2>1, <2>2
<1>3. ASSUME NEW x, NEW i \in DOMAIN s, s[i] = x PROVE Holds(u, x)
  <2>1. i \in DOMAIN u /\ u[i] = x
    BY <1>1, <1>3
  <2> QED BY <2>1 DEF Holds
<1>4. ASSUME NEW x, NEW i \in DOMAIN t, t[i] = x PROVE Holds(u, x)
  <2>1. Len(s) + i \in DOMAIN u /\ u[Len(s) + i] = x
    BY <1>1, <1>4
  <2> QED BY <2>1 DEF Holds
<1>5. u \in Seq(T) /\ \A x : Holds(u, x) <=> Holds(s, x) \/ Holds(t, x)
  BY <1>1, <1>2, <1>3, <1>4 DEF Holds
<1> QED BY <1>5 DEF u

-----------------------------------------------------------------------------
(* Counting references. *)

\* A list has one reference when only its owner, or only Python, refers to it.
LEMMA ListCounted ==
  ASSUME Inv, NEW l \in Lists
  PROVE  /\ Owned(l) => (ListRefs(l) = 1 <=> l \notin heldLists)
         /\ ~Owned(l) => (ListRefs(l) = 1 <=> l \in heldLists)
<1> DEFINE owners == {c \in alive : listOf[c] = l}
<1>0. l # NoList /\ alive \subseteq Components
  BY ObjectsAssumption DEF Inv, TypeOK
<1>1. ListRefs(l) = Cardinality(owners) + B2N(l \in heldLists)
  BY DEF ListRefs
<1>2. CASE Owned(l)
  <2>1. PICK c \in Components : listOf[c] = l
    BY <1>2 DEF Owned
  <2>2. c \in alive
    BY <1>0, <2>1 DEF Inv, NothingDangles
  <2>3. owners = {c}
    BY <1>0, <2>1, <2>2 DEF Inv, OwnList
  <2>4. Cardinality(owners) = 1
    BY <2>3, FS_Singleton
  <2> HIDE DEF owners
  <2> QED BY <1>1, <1>2, <2>4 DEF B2N
<1>3. CASE ~Owned(l)
  <2>1. owners = {}
    BY <1>0, <1>3 DEF Owned
  <2>2. Cardinality(owners) = 0
    BY <2>1, FS_EmptySet
  <2> HIDE DEF owners
  <2> QED BY <1>1, <1>3, <2>2 DEF B2N
<1> QED BY <1>2, <1>3

\* Only the stack of one Drop holds anything.
LEMMA StackPlace ==
  ASSUME Inv, NEW f \in DOMAIN frames, frames[f].stack # <<>>
  PROVE  f = Base + 1 /\ frames[f].what = "drop" /\ frames[f].phase = "loop"
<1>1. frames[f] \in Frame /\ frames[f].what = "drop" /\ f \in Nat /\ f >= 1
  BY DEF Inv, TypeOK, Frame
<1>2. ~(f > Base + 1)
  BY DEF Inv, Shape
<1>3. f # Base
  BY <1>1 DEF Base
<1>4. Base \in 0..1
  BY DEF Base
<1> QED BY <1>1, <1>2, <1>3, <1>4 DEF Inv, Fields

LEMMA PlacesFinite ==
  ASSUME Inv, NEW c \in Components
  PROVE  /\ IsFiniteSet(InLists(c)) /\ Cardinality(InLists(c)) \in Nat
         /\ IsFiniteSet(OnStacks(c)) /\ Cardinality(OnStacks(c)) \in Nat
<1>1. IsFiniteSet(InLists(c))
  <2>1. IsFiniteSet(liveLists) /\ IsFiniteSet(1..MaxItems)
    <3>1. liveLists \in SUBSET Lists
      BY DEF Inv, TypeOK
    <3>2. IsFiniteSet(liveLists)
      BY <3>1, ObjectsAssumption, FS_Subset
    <3>3. MaxItems \in Int /\ 1 \in Int
      BY ObjectsAssumption
    <3> QED BY <3>2, <3>3, FS_Interval
  <2>2. IsFiniteSet(liveLists \X (1..MaxItems))
    BY <2>1, FS_Product
  <2>3. InLists(c) \in SUBSET (liveLists \X (1..MaxItems))
    BY DEF InLists
  <2> QED BY <2>2, <2>3, FS_Subset
<1>2. IsFiniteSet(OnStacks(c))
  <2> DEFINE b == Base + 1
             K == IF b \in DOMAIN frames THEN Len(frames[b].stack) ELSE 0
  <2>1. K \in Nat
    <3>1. \A f \in DOMAIN frames : Len(frames[f].stack) \in Nat
      BY DEF Inv, TypeOK, Frame
    <3> QED BY <3>1
  <2>2. IsFiniteSet({b}) /\ IsFiniteSet(1..K)
    <3>1. IsFiniteSet({b})
      BY FS_Singleton
    <3>2. K \in Int /\ 1 \in Int
      BY <2>1
    <3> HIDE DEF K
    <3>3. IsFiniteSet(1..K)
      BY <3>2, FS_Interval
    <3> QED BY <3>1, <3>3
  <2>3. IsFiniteSet({b} \X (1..K))
    BY <2>2, FS_Product
  <2>4. ASSUME NEW p \in OnStacks(c) PROVE p \in {b} \X (1..K)
    <3>1. PICK f \in DOMAIN frames :
                 \E i \in DOMAIN frames[f].stack : p = <<f, i>>
      BY DEF OnStacks
    <3>2. PICK i \in DOMAIN frames[f].stack : p = <<f, i>>
      BY <3>1
    <3>3. frames[f].stack \in Seq(Components)
      BY DEF Inv, TypeOK, Frame
    <3>4. frames[f].stack # <<>> /\ i \in 1..Len(frames[f].stack)
      BY <3>2, <3>3
    <3>5. f = b
      BY <3>4, StackPlace
    <3> QED BY <3>2, <3>4, <3>5
  <2> HIDE DEF b, K
  <2>5. OnStacks(c) \in SUBSET ({b} \X (1..K))
    BY <2>4
  <2> QED BY <2>3, <2>5, FS_Subset
<1> QED BY <1>1, <1>2, FS_CardinalityType

\* A set with two members, or none, does not count as one.
LEMMA OneMember ==
  ASSUME NEW S, IsFiniteSet(S)
  PROVE  /\ Cardinality(S) = 1 <=> \E x \in S : \A y \in S : y = x
         /\ Cardinality(S) = 0 <=> \A x \in S : FALSE
<1>1. Cardinality(S) = 0 <=> S = {}
  BY FS_EmptySet
<1>2. Cardinality(S) = 1 <=> \E x : S = {x}
  BY FS_Singleton
<1>3. (\E x : S = {x}) <=> \E x \in S : \A y \in S : y = x
  OBVIOUS
<1> QED BY <1>1, <1>2, <1>3

\* Py_REFCNT is one exactly when there is one reference, and no other.
LEMMA CountedOne ==
  ASSUME Inv, NEW c \in Components
  PROVE  Py_REFCNT(c) = 1 <=>
           \/ c \in held /\ (\A p \in InLists(c) : FALSE) /\ (\A p \in OnStacks(c) : FALSE)
           \/ c \notin held /\ (\A p \in OnStacks(c) : FALSE)
                /\ \E p \in InLists(c) : \A q \in InLists(c) : q = p
           \/ c \notin held /\ (\A p \in InLists(c) : FALSE)
                /\ \E p \in OnStacks(c) : \A q \in OnStacks(c) : q = p
<1> DEFINE a == B2N(c \in held)
           m == Cardinality(InLists(c))
           n == Cardinality(OnStacks(c))
<1>1. m \in Nat /\ n \in Nat
  BY PlacesFinite
<1>2. (a = 0 \/ a = 1) /\ (a = 1 <=> c \in held)
  BY DEF B2N
<1>3. /\ m = 1 <=> \E p \in InLists(c) : \A q \in InLists(c) : q = p
      /\ m = 0 <=> \A p \in InLists(c) : FALSE
      /\ n = 1 <=> \E p \in OnStacks(c) : \A q \in OnStacks(c) : q = p
      /\ n = 0 <=> \A p \in OnStacks(c) : FALSE
  BY PlacesFinite, OneMember
<1>4. Py_REFCNT(c) = a + m + n
  BY DEF Py_REFCNT
<1> HIDE DEF a, m, n
<1>5. Py_REFCNT(c) = 1 <=>
        (a = 1 /\ m = 0 /\ n = 0) \/ (a = 0 /\ m = 1 /\ n = 0) \/ (a = 0 /\ m = 0 /\ n = 1)
  BY <1>1, <1>2, <1>4
<1> QED BY <1>2, <1>3, <1>5

\* The places, spelled out.
LEMMA Places ==
  ASSUME Inv, NEW c \in Components
  PROVE  /\ \A l \in liveLists : \A i \in DOMAIN items[l] : <<l, i>> \in InLists(c) <=> items[l][i] = c
         /\ \A p \in InLists(c) : p = <<p[1], p[2]>> /\ p[1] \in liveLists
                                    /\ p[2] \in DOMAIN items[p[1]]
         /\ \A f \in DOMAIN frames : \A i \in DOMAIN frames[f].stack :
              <<f, i>> \in OnStacks(c) <=> frames[f].stack[i] = c
         /\ \A p \in OnStacks(c) : p = <<p[1], p[2]>> /\ p[1] \in DOMAIN frames
                                     /\ p[2] \in DOMAIN frames[p[1]].stack
<1>1. ASSUME NEW l \in liveLists, NEW i \in DOMAIN items[l]
      PROVE  <<l, i>> \in liveLists \X (1..MaxItems)
  <2>1. items[l] \in Seq(Components) /\ Len(items[l]) <= MaxItems /\ MaxItems \in Nat
    BY ObjectsAssumption DEF Inv, TypeOK
  <2>2. i \in Nat /\ i >= 1 /\ i <= MaxItems
    BY <2>1
  <2> QED BY <2>1, <2>2
<1>2. \A l \in liveLists : \A i \in DOMAIN items[l] : <<l, i>> \in InLists(c) <=> items[l][i] = c
  BY <1>1 DEF InLists
<1>3. \A p \in InLists(c) : p = <<p[1], p[2]>> /\ p[1] \in liveLists /\ p[2] \in DOMAIN items[p[1]]
  BY DEF InLists
<1>4. \A f \in DOMAIN frames : \A i \in DOMAIN frames[f].stack :
        <<f, i>> \in OnStacks(c) <=> frames[f].stack[i] = c
  BY DEF OnStacks
<1>5. \A p \in OnStacks(c) : p = <<p[1], p[2]>> /\ p[1] \in DOMAIN frames
                               /\ p[2] \in DOMAIN frames[p[1]].stack
  BY DEF OnStacks
<1> QED BY <1>2, <1>3, <1>4, <1>5

LEMMA AnyPlace ==
  ASSUME Inv, NEW c \in Components
  PROVE  /\ InAList(c) <=> \E p \in InLists(c) : TRUE
         /\ OnAStack(c) <=> \E p \in OnStacks(c) : TRUE
<1>1. ASSUME InAList(c) PROVE \E p \in InLists(c) : TRUE
  <2>1. PICK l \in liveLists : \E i \in DOMAIN items[l] : items[l][i] = c
    BY <1>1 DEF InAList
  <2>2. PICK i \in DOMAIN items[l] : items[l][i] = c
    BY <2>1
  <2>3. <<l, i>> \in InLists(c)
    BY <2>2, Places
  <2> QED BY <2>3
<1>2. ASSUME NEW p \in InLists(c) PROVE InAList(c)
  <2>1. p = <<p[1], p[2]>> /\ p[1] \in liveLists /\ p[2] \in DOMAIN items[p[1]]
    BY Places
  <2>2. items[p[1]][p[2]] = c
    BY <2>1, Places
  <2> QED BY <2>1, <2>2 DEF InAList
<1>3. ASSUME OnAStack(c) PROVE \E p \in OnStacks(c) : TRUE
  <2>1. PICK f \in DOMAIN frames : \E i \in DOMAIN frames[f].stack : frames[f].stack[i] = c
    BY <1>3 DEF OnAStack
  <2>2. PICK i \in DOMAIN frames[f].stack : frames[f].stack[i] = c
    BY <2>1
  <2>3. <<f, i>> \in OnStacks(c)
    BY <2>2, Places
  <2> QED BY <2>3
<1>4. ASSUME NEW p \in OnStacks(c) PROVE OnAStack(c)
  <2>1. p = <<p[1], p[2]>> /\ p[1] \in DOMAIN frames /\ p[2] \in DOMAIN frames[p[1]].stack
    BY Places
  <2>2. frames[p[1]].stack[p[2]] = c
    BY <2>1, Places
  <2> QED BY <2>1, <2>2 DEF OnAStack
<1> QED BY <1>1, <1>2, <1>3, <1>4

\* What the count tells whoever holds one of the references.
LEMMA StackReference ==
  ASSUME Inv, NEW f \in DOMAIN frames, NEW k \in DOMAIN frames[f].stack,
         NEW c \in Components, c = frames[f].stack[k]
  PROVE  Py_REFCNT(c) = 1 <=>
           /\ c \notin held /\ ~InAList(c)
           /\ \A g \in DOMAIN frames : \A i \in DOMAIN frames[g].stack :
                frames[g].stack[i] = c => g = f /\ i = k
<1>1. <<f, k>> \in OnStacks(c)
  BY Places
<1>2. InAList(c) <=> \E p \in InLists(c) : TRUE
  BY AnyPlace
<1>3. (\A g \in DOMAIN frames : \A i \in DOMAIN frames[g].stack :
         frames[g].stack[i] = c => g = f /\ i = k)
      <=> \A q \in OnStacks(c) : q = <<f, k>>
  <2>1. ASSUME \A g \in DOMAIN frames : \A i \in DOMAIN frames[g].stack :
                 frames[g].stack[i] = c => g = f /\ i = k,
               NEW q \in OnStacks(c)
        PROVE  q = <<f, k>>
    <3>1. q = <<q[1], q[2]>> /\ q[1] \in DOMAIN frames /\ q[2] \in DOMAIN frames[q[1]].stack
      BY Places
    <3>2. frames[q[1]].stack[q[2]] = c
      BY <3>1, Places
    <3> QED BY <2>1, <3>1, <3>2
  <2>2. ASSUME \A q \in OnStacks(c) : q = <<f, k>>,
               NEW g \in DOMAIN frames, NEW i \in DOMAIN frames[g].stack,
               frames[g].stack[i] = c
        PROVE  g = f /\ i = k
    <3>1. <<g, i>> \in OnStacks(c)
      BY <2>2, Places
    <3>2. <<g, i>> = <<f, k>>
      BY <2>2, <3>1
    <3> QED BY <3>2
  <2> QED BY <2>1, <2>2
<1> QED BY <1>1, <1>2, <1>3, CountedOne

LEMMA ItemReference ==
  ASSUME Inv, NEW l \in liveLists, NEW k \in DOMAIN items[l],
         NEW c \in Components, c = items[l][k]
  PROVE  Py_REFCNT(c) = 1 <=>
           /\ c \notin held /\ ~OnAStack(c)
           /\ \A m \in liveLists : \A i \in DOMAIN items[m] :
                items[m][i] = c => m = l /\ i = k
<1>1. <<l, k>> \in InLists(c)
  BY Places
<1>2. OnAStack(c) <=> \E p \in OnStacks(c) : TRUE
  BY AnyPlace
<1>3. (\A m \in liveLists : \A i \in DOMAIN items[m] : items[m][i] = c => m = l /\ i = k)
      <=> \A q \in InLists(c) : q = <<l, k>>
  <2>1. ASSUME \A m \in liveLists : \A i \in DOMAIN items[m] : items[m][i] = c => m = l /\ i = k,
               NEW q \in InLists(c)
        PROVE  q = <<l, k>>
    <3>1. q = <<q[1], q[2]>> /\ q[1] \in liveLists /\ q[2] \in DOMAIN items[q[1]]
      BY Places
    <3>2. items[q[1]][q[2]] = c
      BY <3>1, Places
    <3> QED BY <2>1, <3>1, <3>2
  <2>2. ASSUME \A q \in InLists(c) : q = <<l, k>>,
               NEW m \in liveLists, NEW i \in DOMAIN items[m], items[m][i] = c
        PROVE  m = l /\ i = k
    <3>1. <<m, i>> \in InLists(c)
      BY <2>2, Places
    <3>2. <<m, i>> = <<l, k>>
      BY <2>2, <3>1
    <3> QED BY <3>2
  <2> QED BY <2>1, <2>2
<1> QED BY <1>1, <1>2, <1>3, CountedOne

LEMMA HeldReference ==
  ASSUME Inv, NEW c \in Components, c \in held
  PROVE  Py_REFCNT(c) = 1 <=> ~InAList(c) /\ ~OnAStack(c)
<1>1. InAList(c) <=> \E p \in InLists(c) : TRUE
  BY AnyPlace
<1>2. OnAStack(c) <=> \E p \in OnStacks(c) : TRUE
  BY AnyPlace
<1> QED BY <1>1, <1>2, CountedOne

-----------------------------------------------------------------------------
(* Deallocation keeps the invariant. *)

\* The frame at work.
LEMMA TopShape ==
  ASSUME Inv, frames # <<>>
  PROVE  /\ Len(frames) \in Nat /\ Len(frames) >= 1 /\ DOMAIN frames = 1..Len(frames)
         /\ Len(frames) \in DOMAIN frames /\ Top = frames[Len(frames)] /\ Top \in Frame
         /\ Base \in 0..1
         /\ Top.what = "drop" =>
              /\ Top.obj \in Components /\ Top.obj \in alive /\ Dying(Top.obj)
              /\ Top.stack \in Seq(Components) /\ ~Referenced(Top.obj)
              /\ IsDrop(Len(frames), Top.obj)
              /\ Len(frames) > Base
         /\ Top.what = "list" =>
              /\ Top.obj \in Lists /\ Top.obj \in liveLists /\ DyingList(Top.obj)
              /\ Top.stack = <<>> /\ ~Owned(Top.obj) /\ Top.obj \notin heldLists
              /\ IsList(Len(frames), Top.obj)
<1>1. frames \in Seq(Frame)
  BY DEF Inv, TypeOK
<1>2. /\ Len(frames) \in Nat /\ Len(frames) >= 1 /\ DOMAIN frames = 1..Len(frames)
      /\ Len(frames) \in DOMAIN frames /\ Top = frames[Len(frames)] /\ Top \in Frame
  BY <1>1, Popped DEF Top
<1>3. Base \in 0..1
  BY DEF Base
<1>4. ASSUME Top.what = "drop"
      PROVE  /\ Top.obj \in Components /\ Top.obj \in alive /\ Dying(Top.obj)
             /\ Top.stack \in Seq(Components) /\ ~Referenced(Top.obj)
             /\ IsDrop(Len(frames), Top.obj)
             /\ Len(frames) > Base
  <2>1. Top.obj \in Components /\ Top.stack \in Seq(Components)
    BY <1>2, <1>4 DEF Frame
  <2>2. IsDrop(Len(frames), Top.obj) /\ Dying(Top.obj)
    BY <1>2, <1>4 DEF IsDrop, Dying
  <2>3. Top.obj \in alive /\ ~Referenced(Top.obj)
    BY <2>1, <2>2 DEF Inv, NothingDangles, Counted
  <2>4. Len(frames) > Base
    BY <1>2, <1>4 DEF Base
  <2> QED BY <2>1, <2>2, <2>3, <2>4
<1>5. ASSUME Top.what = "list"
      PROVE  /\ Top.obj \in Lists /\ Top.obj \in liveLists /\ DyingList(Top.obj)
             /\ Top.stack = <<>> /\ ~Owned(Top.obj) /\ Top.obj \notin heldLists
             /\ IsList(Len(frames), Top.obj)
  <2>1. Top.obj \in Lists /\ Top.stack = <<>>
    BY <1>2, <1>5 DEF Frame
  <2>2. IsList(Len(frames), Top.obj) /\ DyingList(Top.obj)
    BY <1>2, <1>5 DEF IsList, DyingList
  <2>3. Top.obj \in liveLists /\ ~Owned(Top.obj) /\ Top.obj \notin heldLists
    BY <2>1, <2>2 DEF Inv, NothingDangles, Counted
  <2> QED BY <2>1, <2>2, <2>3
<1> QED BY <1>2, <1>3, <1>4, <1>5

\* The list of a component that has one is its own.
LEMMA FieldShape ==
  ASSUME Inv, NEW c \in Components, listOf[c] # NoList
  PROVE  /\ c \in alive /\ listOf[c] \in Lists /\ listOf[c] \in liveLists
         /\ Owned(listOf[c]) /\ ~DyingList(listOf[c])
         /\ items[listOf[c]] \in Seq(Components)
         /\ ListRefs(listOf[c]) = 1 <=> listOf[c] \notin heldLists
<1>1. c \in alive /\ listOf[c] \in Lists /\ listOf[c] \in liveLists
  BY DEF Inv, TypeOK, NothingDangles
<1>2. Owned(listOf[c])
  BY DEF Owned
<1>3. ~DyingList(listOf[c])
  BY <1>1, <1>2 DEF Inv, Counted
<1>4. items[listOf[c]] \in Seq(Components)
  BY <1>1 DEF Inv, TypeOK
<1> QED BY <1>1, <1>2, <1>3, <1>4, ListCounted

LEMMA DropBeginStep == ASSUME Inv, DropBegin PROVE Inv'
<1> DEFINE n == Len(frames)
           c == Top.obj
           l == listOf[c]
           taken == IF l \in heldLists THEN <<>> ELSE items[l]
<1>1. /\ frames # <<>> /\ Top.what = "drop" /\ Top.phase = "begin"
      /\ items' = IF l \in heldLists THEN items ELSE [items EXCEPT ![l] = <<>>]
      /\ frames' = Append(Front(frames), [Top EXCEPT !.phase = "loop", !.stack = taken])
      /\ UNCHANGED <<alive, liveLists, listOf, held, heldLists>>
      /\ l # NoList /\ Top.stack = <<>>
  <2>1. frames # <<>> /\ Top.what = "drop" /\ Top.phase = "begin"
    BY DEF DropBegin, InDrop
  <2>2. c \in Components /\ l # NoList /\ Top.stack = <<>>
    BY <2>1, TopShape DEF Inv, Fields
  <2>3. ListRefs(l) = 1 <=> l \notin heldLists
    BY <2>2, FieldShape
  <2> QED BY <2>1, <2>2, <2>3 DEF DropBegin, Steal
<1>2. /\ n \in Nat /\ n >= 1 /\ DOMAIN frames = 1..n /\ n \in DOMAIN frames /\ Top = frames[n]
      /\ Top \in Frame /\ c \in Components /\ frames \in Seq(Frame) /\ Base \in 0..1 /\ n > Base
      /\ l \in Lists /\ l \in liveLists /\ Owned(l) /\ ~DyingList(l) /\ items[l] \in Seq(Components)
      /\ items \in [Lists -> Seq(Components)] /\ liveLists \subseteq Lists
  BY <1>1, TopShape, FieldShape DEF Inv, TypeOK
<1> HIDE DEF l, c, n
<1>3. taken \in Seq(Components)
  BY <1>2
<1> HIDE DEF taken
<1>4. /\ frames' \in Seq(Frame) /\ frames' # <<>> /\ Len(frames') = n /\ DOMAIN frames' = 1..n
      /\ \A i \in 1..n : i # n => frames'[i] = frames[i]
      /\ frames'[n].what = "drop" /\ frames'[n].obj = c /\ frames'[n].phase = "loop"
      /\ frames'[n].stack = taken
  <2> DEFINE x == [Top EXCEPT !.phase = "loop", !.stack = taken]
  <2>1. x \in Frame /\ x.what = "drop" /\ x.obj = c /\ x.phase = "loop" /\ x.stack = taken
    BY <1>1, <1>2, <1>3 DEF Frame, c
  <2> HIDE DEF x
  <2>2. frames' = Append(Front(frames), x)
    BY <1>1 DEF x
  <2>3. /\ frames' \in Seq(Frame) /\ frames' # <<>> /\ Len(frames') = Len(frames)
        /\ DOMAIN frames' = DOMAIN frames
        /\ \A i \in DOMAIN frames : i # Len(frames) => frames'[i] = frames[i]
        /\ frames'[Len(frames)] = x
    <3>1. frames \in Seq(Frame) /\ frames # <<>>
      BY <1>1, <1>2
    <3> QED BY <3>1, <2>1, <2>2, TopReplaced
  <2> QED BY <1>2, <2>1, <2>3 DEF n
<1>5. TypeOK'
  <2>1. items' \in [Lists -> Seq(Components)] /\ \A k \in Lists : Len(items'[k]) <= MaxItems
    BY <1>1, <1>2, ObjectsAssumption DEF Inv, TypeOK
  <2> QED BY <1>1, <1>4, <2>1 DEF Inv, TypeOK
<1>6. /\ \A f \in 1..n : \A x : IsDrop(f, x)' <=> IsDrop(f, x)
      /\ \A f \in 1..n : \A x : IsList(f, x)' <=> IsList(f, x)
      /\ \A x : Dying(x)' <=> Dying(x)
      /\ \A x : DyingList(x)' <=> DyingList(x)
      /\ \A x : Owned(x)' <=> Owned(x)
  <2>1. \A f \in 1..n : frames'[f].what = frames[f].what /\ frames'[f].obj = frames[f].obj
    BY <1>1, <1>2, <1>4 DEF c
  <2>2. \A f \in 1..n : \A x : (IsDrop(f, x)' <=> IsDrop(f, x)) /\ (IsList(f, x)' <=> IsList(f, x))
    BY <2>1 DEF IsDrop, IsList
  <2>3. \A x : (Dying(x)' <=> Dying(x)) /\ (DyingList(x)' <=> DyingList(x))
    BY <1>2, <1>4, <2>2 DEF Dying, DyingList
  <2>4. \A x : Owned(x)' <=> Owned(x)
    BY <1>1 DEF Owned
  <2> QED BY <2>2, <2>3, <2>4
<1>7. \A x : Referenced(x)' <=> Referenced(x)
  <2> TAKE x
  <2>1. CASE l \in heldLists
    <3>1. items' = items /\ liveLists' = liveLists /\ held' = held
      BY <1>1, <2>1
    <3>2. InAList(x)' <=> InAList(x)
      BY <3>1 DEF InAList
    <3>3. frames'[n].stack = <<>> /\ frames[n].stack = <<>>
      BY <1>1, <1>2, <1>4, <2>1 DEF taken
    <3>4. \A f \in 1..n : frames'[f].stack = frames[f].stack
      BY <1>4, <3>3
    <3>5. OnAStack(x)' <=> OnAStack(x)
      BY <1>2, <1>4, <3>4 DEF OnAStack
    <3> QED BY <3>1, <3>2, <3>5 DEF Referenced
  <2>2. CASE l \notin heldLists
    <3>1. ASSUME NEW m \in liveLists, NEW i \in DOMAIN items[m], items[m][i] = x
          PROVE  Referenced(x)'
      <4>1. CASE m = l
        <5>1. i \in DOMAIN frames'[n].stack /\ frames'[n].stack[i] = x
          BY <1>4, <2>2, <3>1, <4>1 DEF taken
        <5> QED BY <1>2, <1>4, <5>1 DEF Referenced, OnAStack
      <4>2. CASE m # l
        <5>1. items'[m] = items[m]
          BY <1>1, <1>2, <4>2
        <5> QED BY <1>1, <3>1, <5>1 DEF Referenced, InAList
      <4> QED BY <4>1, <4>2
    <3>2. ASSUME NEW m \in liveLists, NEW i \in DOMAIN items'[m], items'[m][i] = x
          PROVE  Referenced(x)
      <4>1. m # l /\ items'[m] = items[m]
        BY <1>1, <1>2, <2>2, <3>2
      <4> QED BY <3>2, <4>1 DEF Referenced, InAList
    <3>3. ASSUME NEW f \in 1..n, NEW i \in DOMAIN frames[f].stack, frames[f].stack[i] = x
          PROVE  Referenced(x)'
      <4>1. f # n
        BY <1>1, <1>2, <3>3
      <4> QED BY <1>4, <3>3, <4>1 DEF Referenced, OnAStack
    <3>4. ASSUME NEW f \in 1..n, NEW i \in DOMAIN frames'[f].stack, frames'[f].stack[i] = x
          PROVE  Referenced(x)
      <4>1. CASE f = n
        BY <1>2, <1>4, <2>2, <3>4, <4>1 DEF Referenced, InAList, taken
      <4>2. CASE f # n
        BY <1>2, <1>4, <3>4, <4>2 DEF Referenced, OnAStack
      <4> QED BY <4>1, <4>2
    <3> QED BY <1>1, <1>2, <1>4, <3>1, <3>2, <3>3, <3>4 DEF Referenced, InAList, OnAStack
  <2> QED BY <2>1, <2>2
<1>8. NothingDangles' /\ OwnList'
  BY <1>1, <1>6, <1>7 DEF Inv, NothingDangles, OwnList
<1>9. Counted'
  <2>1. \A f \in 1..n : frames'[f].what = frames[f].what /\ frames'[f].obj = frames[f].obj
    BY <1>1, <1>2, <1>4 DEF c
  <2>2. \A f, g \in DOMAIN frames' :
          frames'[f].what = frames'[g].what /\ frames'[f].obj = frames'[g].obj => f = g
    BY <1>2, <1>4, <2>1 DEF Inv, Counted
  <2> QED BY <1>1, <1>6, <1>7, <2>2 DEF Inv, Counted
<1>10. Fields'
  <2>1. ASSUME NEW f \in DOMAIN frames', frames'[f].what = "drop"
        PROVE  /\ frames'[f].phase = "free" <=> listOf'[frames'[f].obj] = NoList
               /\ frames'[f].phase # "loop" => frames'[f].stack = <<>>
    <3>1. CASE f = n
      BY <1>1, <1>4, <3>1 DEF l
    <3>2. CASE f # n
      BY <1>1, <1>2, <1>4, <2>1, <3>2 DEF Inv, Fields
    <3> QED BY <3>1, <3>2
  <2> QED BY <1>1, <1>6, <2>1 DEF Inv, Fields
<1>11. Shape'
  <2>1. Base' = Base
    <3>1. frames'[1].what = frames[1].what
      BY <1>1, <1>2, <1>4
    <3> QED BY <1>1, <1>4, <3>1 DEF Base
  <2>2. \A k \in Lists : items[k] = <<>> => items'[k] = <<>>
    BY <1>1, <1>2
  <2>3. l \in heldLists \/ items'[l] = <<>>
    BY <1>1, <1>2
  <2>4. n > Base + 1 => taken = <<>>
    BY <1>1, <1>2 DEF Inv, Shape, Emptied, taken, l, c
  <2>5. ASSUME NEW f \in DOMAIN frames'
        PROVE  /\ frames'[f].what = "list" /\ f > 1 =>
                    f > Base + 1 /\ f = n /\ items'[frames'[f].obj] = <<>>
               /\ f = Base + 3 => frames'[f].what = "list"
               /\ f > Base + 1 => frames'[f].stack = <<>>
               /\ frames'[f].what = "drop" /\ (f > Base + 1 \/ frames'[f].phase = "loop") => Emptied(f)'
    <3>1. CASE f = n
      <4>1. Emptied(f)'
        BY <1>1, <1>4, <2>3, <3>1 DEF Emptied, l
      <4>2. f = Base + 3 => FALSE
        BY <1>1, <1>2, <3>1 DEF Inv, Shape
      <4> QED BY <1>4, <2>4, <3>1, <4>1, <4>2
    <3>2. CASE f # n
      <4>1. frames'[f] = frames[f] /\ frames[f] \in Frame /\ f \in DOMAIN frames
        BY <1>2, <1>4, <3>2
      <4>2. frames[f].what = "list" => frames[f].obj \in Lists
        BY <4>1 DEF Frame
      <4>3. Emptied(f) /\ frames[f].what = "drop" => Emptied(f)'
        <5>1. frames[f].what = "drop" /\ frames[f].phase # "free" => listOf[frames[f].obj] \in Lists
          BY <4>1, FieldShape DEF Inv, Fields, Frame
        <5> QED BY <1>1, <2>2, <4>1, <5>1 DEF Emptied
      <4> QED BY <2>2, <4>1, <4>2, <4>3 DEF Inv, Shape, n
    <3> QED BY <3>1, <3>2
  <2> QED BY <1>2, <1>4, <2>1, <2>5 DEF Inv, Shape, n
<1> QED BY <1>5, <1>8, <1>9, <1>10, <1>11 DEF Inv

LEMMA DropChildStep == ASSUME Inv, DropChild PROVE Inv'
<1> DEFINE n == Len(frames)
           c == Top.obj
           obj == Last(Top.stack)
           k == Len(Top.stack)
           l == listOf[obj]
           alone == Py_REFCNT(obj) = 1
           taken == IF ~alone \/ l \in heldLists THEN <<>> ELSE items[l]
           x == [Top EXCEPT !.stack = Front(@) \o taken]
           rest == Append(Front(frames), x)
<1>1. /\ frames # <<>> /\ Top.what = "drop" /\ Top.phase = "loop" /\ Top.stack # <<>>
      /\ obj \in Components /\ l # NoList /\ Top.stack[k] = obj /\ k \in DOMAIN Top.stack
      /\ ~Dying(obj) /\ Referenced(obj) /\ obj \in alive
  <2>1. frames # <<>> /\ Top.what = "drop" /\ Top.phase = "loop" /\ Top.stack # <<>>
    BY DEF DropChild, InDrop
  <2>2. obj \in Components /\ Top.stack[k] = obj /\ k \in DOMAIN Top.stack
    BY <2>1, TopShape, Popped
  <2>3. OnAStack(obj)
    BY <2>1, <2>2, TopShape DEF OnAStack
  <2>4. obj \in alive /\ ~Dying(obj)
    BY <2>2, <2>3 DEF Inv, NothingDangles, Counted, Referenced
  <2>5. l # NoList
    BY <2>2, <2>4 DEF Inv, Fields
  <2> QED BY <2>1, <2>2, <2>3, <2>4, <2>5 DEF Referenced
<1>2. /\ n \in Nat /\ n >= 1 /\ DOMAIN frames = 1..n /\ n \in DOMAIN frames /\ Top = frames[n]
      /\ Top \in Frame /\ c \in Components /\ frames \in Seq(Frame) /\ n = Base + 1 /\ Base \in 0..1
      /\ l \in Lists /\ l \in liveLists /\ Owned(l) /\ items[l] \in Seq(Components)
      /\ items \in [Lists -> Seq(Components)] /\ liveLists \subseteq Lists
      /\ Top.stack \in Seq(Components) /\ c # obj
  <2>1. n = Base + 1
    BY <1>1, TopShape, StackPlace
  <2>2. c # obj
    BY <1>1, TopShape
  <2> QED BY <1>1, <2>1, <2>2, TopShape, FieldShape DEF Inv, TypeOK
<1>3. /\ UNCHANGED <<alive, liveLists, listOf, held, heldLists>>
      /\ items' = IF ~alone \/ l \in heldLists THEN items ELSE [items EXCEPT ![l] = <<>>]
      /\ frames' = IF alone THEN Append(rest, DropFrame(obj)) ELSE rest
  <2>1. ListRefs(l) = 1 <=> l \notin heldLists
    BY <1>1, FieldShape
  <2> QED BY <2>1 DEF DropChild, Steal
<1>4. alone <=> /\ obj \notin held /\ ~InAList(obj)
                /\ \A g \in DOMAIN frames : \A i \in DOMAIN frames[g].stack :
                     frames[g].stack[i] = obj => g = n /\ i = k
  <2>1. n \in DOMAIN frames /\ k \in DOMAIN frames[n].stack /\ obj = frames[n].stack[k]
          /\ obj \in Components
    BY <1>1, <1>2
  <2> HIDE DEF n, k, obj
  <2> QED BY <2>1, StackReference DEF alone
<1> HIDE DEF n, c, obj, k, l, alone
<1>5. taken \in Seq(Components) /\ \A y : Holds(taken, y) =>
                                     alone /\ l \notin heldLists /\ Holds(items[l], y)
  BY <1>2 DEF Holds
<1>6. /\ x \in Frame /\ x.what = "drop" /\ x.obj = c /\ x.phase = "loop"
      /\ \A y : Holds(x.stack, y) <=>
                  Holds(taken, y) \/ \E i \in DOMAIN Top.stack : i # k /\ Top.stack[i] = y
  <2> DEFINE u == Front(Top.stack) \o taken
  <2>1. Front(Top.stack) \in Seq(Components)
    BY <1>1, <1>2, Popped
  <2>2. u \in Seq(Components)
          /\ \A y : Holds(u, y) <=> Holds(Front(Top.stack), y) \/ Holds(taken, y)
    BY <2>1, <1>5, JoinHolds
  <2>3. \A y : Holds(Front(Top.stack), y) <=> \E i \in DOMAIN Top.stack : i # k /\ Top.stack[i] = y
    BY <1>1, <1>2, FrontHolds DEF k
  <2> HIDE DEF u
  <2>4. x = [Top EXCEPT !.stack = u]
    BY DEF u
  <2>5. x \in Frame /\ x.what = "drop" /\ x.obj = c /\ x.phase = "loop" /\ x.stack = u
    BY <1>1, <1>2, <2>2, <2>4 DEF Frame, c
  <2> QED BY <2>2, <2>3, <2>5
<1> HIDE DEF x, taken
<1>7. /\ rest \in Seq(Frame) /\ rest # <<>> /\ Len(rest) = n /\ DOMAIN rest = 1..n
      /\ \A i \in 1..n : i # n => rest[i] = frames[i]
      /\ rest[n] = x
  <2>1. frames \in Seq(Frame) /\ frames # <<>>
    BY <1>1, <1>2
  <2> QED BY SMTT(30), <1>2, <2>1, <1>6, TopReplaced DEF n
<1> HIDE DEF rest
<1>8. DropFrame(obj) \in Frame
  <2>1. <<>> \in Seq(Components)
    OBVIOUS
  <2> QED BY <1>1, <2>1 DEF DropFrame, Frame
<1>9. /\ frames' \in Seq(Frame) /\ frames' # <<>> /\ Len(frames') = IF alone THEN n + 1 ELSE n
      /\ DOMAIN frames' = 1..Len(frames')
      /\ \A i \in 1..n : i # n => frames'[i] = frames[i]
      /\ frames'[n] = x
      /\ alone => frames'[n + 1] = DropFrame(obj)
  BY <1>2, <1>3, <1>7, <1>8, Pushed
<1>10. TypeOK'
  <2>1. items' \in [Lists -> Seq(Components)] /\ \A m \in Lists : Len(items'[m]) <= MaxItems
    BY <1>2, <1>3, ObjectsAssumption DEF Inv, TypeOK
  <2> QED BY <1>3, <1>9, <2>1 DEF Inv, TypeOK
<1>11. \A f \in 1..n : frames'[f].what = frames[f].what /\ frames'[f].obj = frames[f].obj
  <2>1. frames'[n].what = frames[n].what /\ frames'[n].obj = frames[n].obj
    BY <1>1, <1>2, <1>6, <1>9 DEF c
  <2> QED BY <1>9, <2>1
<1>12. /\ \A y : DyingList(y)' <=> DyingList(y)
       /\ \A y : Dying(y)' <=> Dying(y) \/ (alone /\ y = obj)
       /\ \A y : Owned(y)' <=> Owned(y)
  <2>1. \A f \in 1..n : \A y : (IsDrop(f, y)' <=> IsDrop(f, y)) /\ (IsList(f, y)' <=> IsList(f, y))
    BY <1>11 DEF IsDrop, IsList
  <2>2. alone => frames'[n + 1].what = "drop" /\ frames'[n + 1].obj = obj
    BY <1>9 DEF DropFrame
  <2>3. \A f : f \in DOMAIN frames' <=> f \in 1..n \/ (alone /\ f = n + 1)
    BY <1>2, <1>9
  <2>4. \A f, y : f = n + 1 /\ alone => (IsDrop(f, y)' <=> y = obj) /\ ~IsList(f, y)'
    BY <2>2 DEF IsDrop, IsList
  <2>5. \A y : Dying(y)' <=> Dying(y) \/ (alone /\ y = obj)
    <3> TAKE y
    <3>1. ASSUME Dying(y)' PROVE Dying(y) \/ (alone /\ y = obj)
      <4>1. PICK f \in DOMAIN frames' : IsDrop(f, y)'
        BY <3>1 DEF Dying
      <4> QED BY <1>2, <2>1, <2>3, <2>4, <4>1 DEF Dying
    <3>2. ASSUME Dying(y) PROVE Dying(y)'
      BY <1>2, <2>1, <2>3, <3>2 DEF Dying
    <3>3. ASSUME alone, y = obj PROVE Dying(y)'
      <4>1. n + 1 \in DOMAIN frames'
        BY <2>3, <3>3
      <4>2. \E f \in DOMAIN frames' : f = n + 1 /\ IsDrop(f, y)'
        BY <2>4, <3>3, <4>1
      <4> QED BY <4>2 DEF Dying
    <3> QED BY <3>1, <3>2, <3>3
  <2>6. \A y : DyingList(y)' <=> DyingList(y)
    BY <1>2, <2>1, <2>3, <2>4 DEF DyingList
  <2>7. \A y : Owned(y)' <=> Owned(y)
    BY <1>3 DEF Owned
  <2> QED BY <2>5, <2>6, <2>7
<1>13. \A y \in Components : Referenced(y)' <=> Referenced(y) /\ ~(alone /\ y = obj)
  <2> TAKE y \in Components
  <2>1. InAList(y)' => InAList(y)
    BY <1>2, <1>3 DEF InAList
  <2>2. InAList(y) => InAList(y)' \/ Holds(taken, y)
    <3>1. CASE ~alone \/ l \in heldLists
      BY <1>3, <3>1 DEF InAList
    <3>2. CASE alone /\ l \notin heldLists
      <4>1. taken = items[l] /\ \A m \in liveLists : m # l => items'[m] = items[m]
        BY <1>2, <1>3, <3>2 DEF taken
      <4> QED BY <1>3, <4>1 DEF InAList, Holds
    <3> QED BY <3>1, <3>2
  <2>3. Holds(taken, y) => alone /\ InAList(y)
    BY <1>2, <1>5 DEF InAList, Holds
  <2> DEFINE Else(z) == \E f \in 1..n : \E i \in DOMAIN frames[f].stack :
                          frames[f].stack[i] = z /\ ~(f = n /\ i = k)
  <2>4. OnAStack(y)' <=> Holds(taken, y) \/ Else(y)
    <3>1. alone => DropFrame(obj).stack = <<>> /\ DOMAIN DropFrame(obj).stack = {}
      BY DEF DropFrame
    <3>2. OnAStack(y)' <=> \E f \in 1..n : \E i \in DOMAIN frames'[f].stack : frames'[f].stack[i] = y
      BY <1>2, <1>9, <3>1 DEF OnAStack
    <3>3. Holds(x.stack, y) <=> Holds(taken, y) \/ \E i \in DOMAIN frames[n].stack :
                                                      i # k /\ frames[n].stack[i] = y
      BY <1>2, <1>6
    <3>4. (\E f \in 1..n : \E i \in DOMAIN frames'[f].stack : frames'[f].stack[i] = y)
          <=> Holds(x.stack, y)
              \/ \E f \in 1..n : f # n /\ \E i \in DOMAIN frames[f].stack : frames[f].stack[i] = y
      BY SMTT(30), <1>2, <1>9 DEF Holds
    <3> QED BY <1>2, <3>2, <3>3, <3>4
  <2>5. OnAStack(y) <=> y = obj \/ Else(y)
    BY <1>1, <1>2 DEF OnAStack
  <2>6. CASE y # obj
    BY <1>3, <2>1, <2>2, <2>3, <2>4, <2>5, <2>6 DEF Referenced
  <2>7. CASE y = obj /\ alone
    <3>1. ~Else(obj) /\ ~InAList(obj) /\ obj \notin held
      BY <1>2, <1>4, <2>7
    <3> QED BY <1>3, <2>1, <2>3, <2>4, <2>7, <3>1 DEF Referenced
  <2>8. CASE y = obj /\ ~alone
    <3>1. Else(obj) \/ InAList(obj) \/ obj \in held
      BY <1>2, <1>4, <2>8
    <3>2. ~Holds(taken, y)
      BY <2>3, <2>8
    <3> QED BY <1>1, <1>3, <2>2, <2>4, <2>8, <3>1, <3>2 DEF Referenced
  <2> QED BY <2>6, <2>7, <2>8
<1>14. NothingDangles' /\ OwnList'
  BY <1>1, <1>3, <1>12, <1>13 DEF Inv, TypeOK, NothingDangles, OwnList
<1>15. Counted'
  <2>1. \A y \in alive : Referenced(y)' <=> ~Dying(y)'
    BY <1>1, <1>12, <1>13 DEF Inv, TypeOK, Counted
  <2>2. ASSUME NEW f \in DOMAIN frames', NEW g \in DOMAIN frames',
               frames'[f].what = frames'[g].what, frames'[f].obj = frames'[g].obj
        PROVE  f = g
    <3>1. \A h \in 1..n : ~(frames[h].what = "drop" /\ frames[h].obj = obj)
      BY <1>1, <1>2 DEF Dying, IsDrop
    <3>2. alone => frames'[n + 1].what = "drop" /\ frames'[n + 1].obj = obj
      BY <1>9 DEF DropFrame
    <3>3. \A h \in DOMAIN frames' : h \in 1..n \/ (alone /\ h = n + 1)
      BY <1>2, <1>9
    <3>4. f \in 1..n /\ g \in 1..n => f = g
      BY <1>2, <1>11, <2>2 DEF Inv, Counted
    <3> QED BY <1>11, <2>2, <3>1, <3>2, <3>3, <3>4
  <2> QED BY <1>3, <1>12, <2>1, <2>2 DEF Inv, Counted
<1>16. Fields'
  <2>1. ASSUME NEW f \in DOMAIN frames', frames'[f].what = "drop"
        PROVE  /\ frames'[f].phase = "free" <=> listOf'[frames'[f].obj] = NoList
               /\ frames'[f].phase # "loop" => frames'[f].stack = <<>>
    <3>1. CASE f = n
      BY SMTT(30), <1>1, <1>2, <1>3, <1>6, <1>9, <3>1 DEF Inv, Fields, c
    <3>2. CASE f = n + 1
      <4>1. frames'[f] = DropFrame(obj)
        BY <1>2, <1>9, <3>2
      <4> QED BY <1>1, <1>3, <4>1 DEF DropFrame, l
    <3>3. CASE f \in 1..n /\ f # n
      BY <1>2, <1>3, <1>9, <2>1, <3>3 DEF Inv, Fields
    <3> QED BY <1>2, <1>9, <3>1, <3>2, <3>3
  <2> QED BY <1>3, <1>12, <2>1 DEF Inv, Fields
<1>17. Shape'
  <2>1. Base' = Base
    <3>1. frames'[1].what = frames[1].what
      BY <1>2, <1>11
    <3> QED BY <1>1, <1>9, <3>1 DEF Base
  <2>2. \A m \in Lists : items[m] = <<>> => items'[m] = <<>>
    BY <1>2, <1>3
  <2>3. ASSUME NEW f \in DOMAIN frames'
        PROVE  /\ frames'[f].what = "list" => ~(f > 1)
               /\ ~(f = Base + 3)
               /\ f > Base + 1 => frames'[f].stack = <<>>
               /\ frames'[f].what = "drop" /\ (f > Base + 1 \/ frames'[f].phase = "loop") => Emptied(f)'
    <3>1. CASE f = n + 1
      <4>1. alone /\ frames'[f] = DropFrame(obj)
        BY <1>2, <1>9, <3>1
      <4>2. l \in heldLists \/ items'[l] = <<>>
        BY <1>2, <1>3, <4>1
      <4>3. Emptied(f)'
        BY <1>3, <4>1, <4>2 DEF Emptied, DropFrame, l
      <4> QED BY <1>2, <3>1, <4>1, <4>3 DEF DropFrame
    <3>2. CASE f = n
      <4>1. frames'[f] = x
        BY <1>9, <3>2
      <4>2. Emptied(n)
        BY <1>1, <1>2 DEF Inv, Shape
      <4>3. listOf[c] \in Lists
        BY <1>1, <1>2, FieldShape DEF Inv, Fields, c
      <4>4. Emptied(f)'
        BY <1>1, <1>2, <1>3, <1>6, <2>2, <4>1, <4>2, <4>3 DEF Emptied, c
      <4> QED BY <1>2, <1>6, <3>2, <4>1, <4>4
    <3>3. CASE f \in 1..n /\ f # n
      <4>1. f = 1 /\ Base = 1 /\ frames'[f] = frames[f] /\ frames[f].what = "list"
        BY <1>2, <1>9, <3>3 DEF Base
      <4> QED BY <4>1
    <3> QED BY <1>2, <1>9, <3>1, <3>2, <3>3
  <2> QED BY <1>2, <1>9, <2>1, <2>3 DEF Shape
<1> QED BY <1>10, <1>14, <1>15, <1>16, <1>17 DEF Inv

LEMMA DropFieldStep == ASSUME Inv, DropField PROVE Inv'
<1> DEFINE n == Len(frames)
           c == Top.obj
           l == listOf[c]
           alone == l \notin heldLists
           x == [Top EXCEPT !.phase = "free"]
           rest == Append(Front(frames), x)
<1>1. /\ frames # <<>> /\ Top.what = "drop" /\ Top.phase = "loop" /\ Top.stack = <<>>
      /\ c \in Components /\ l # NoList
  <2>1. frames # <<>> /\ Top.what = "drop" /\ Top.phase = "loop" /\ Top.stack = <<>>
    BY DEF DropField, InDrop
  <2> QED BY <2>1, TopShape DEF Inv, Fields
<1>2. /\ n \in Nat /\ n >= 1 /\ DOMAIN frames = 1..n /\ n \in DOMAIN frames /\ Top = frames[n]
      /\ Top \in Frame /\ frames \in Seq(Frame) /\ n > Base /\ n <= Base + 2 /\ Base \in 0..1
      /\ l \in Lists /\ l \in liveLists /\ ~DyingList(l) /\ Dying(c) /\ c \in alive
      /\ listOf \in [Components -> Lists \cup {NoList}] /\ alive \subseteq Components
      /\ NoList \notin Lists
  <2>1. n <= Base + 3 /\ n # Base + 3
    BY <1>1, TopShape DEF Inv, Shape
  <2>2. /\ n \in Nat /\ n >= 1 /\ DOMAIN frames = 1..n /\ n \in DOMAIN frames /\ Top = frames[n]
        /\ Top \in Frame /\ n > Base /\ Base \in 0..1 /\ Dying(c) /\ c \in alive
    BY <1>1, TopShape
  <2>3. l \in Lists /\ l \in liveLists /\ ~DyingList(l)
    BY <1>1, FieldShape
  <2>4. /\ frames \in Seq(Frame) /\ listOf \in [Components -> Lists \cup {NoList}]
        /\ alive \subseteq Components /\ NoList \notin Lists
    BY ObjectsAssumption DEF Inv, TypeOK
  <2> HIDE DEF n, c, l
  <2>5. n <= Base + 2
    BY <2>1, <2>2
  <2> QED BY <2>2, <2>3, <2>4, <2>5
<1>3. /\ UNCHANGED <<alive, liveLists, items, held, heldLists>>
      /\ listOf' = [listOf EXCEPT ![c] = NoList]
      /\ frames' = IF alone THEN Append(rest, ListFrame(l)) ELSE rest
  <2>1. ListRefs(l) = 1 <=> alone
    BY <1>1, FieldShape
  <2> QED BY <2>1 DEF DropField
<1>4. items[l] = <<>> \/ l \in heldLists
  BY <1>1, <1>2 DEF Inv, Shape, Emptied
<1> HIDE DEF n, c, l, alone
<1>5. x \in Frame /\ x.what = "drop" /\ x.obj = c /\ x.phase = "free" /\ x.stack = <<>>
  BY <1>1, <1>2 DEF Frame, c
<1> HIDE DEF x
<1>6. /\ rest \in Seq(Frame) /\ rest # <<>> /\ Len(rest) = n /\ DOMAIN rest = 1..n
      /\ \A i \in 1..n : i # n => rest[i] = frames[i]
      /\ rest[n] = x
  <2>1. frames \in Seq(Frame) /\ frames # <<>>
    BY <1>1, <1>2
  <2>2. /\ rest \in Seq(Frame) /\ rest # <<>> /\ Len(rest) = Len(frames)
        /\ DOMAIN rest = DOMAIN frames
        /\ \A i \in DOMAIN frames : i # Len(frames) => rest[i] = frames[i]
        /\ rest[Len(frames)] = x
    BY <2>1, <1>5, TopReplaced
  <2> QED BY <1>2, <2>2 DEF n
<1> HIDE DEF rest
<1>7. ListFrame(l) \in Frame
  BY <1>2 DEF ListFrame, Frame
<1>8. /\ frames' \in Seq(Frame) /\ frames' # <<>> /\ Len(frames') = IF alone THEN n + 1 ELSE n
      /\ DOMAIN frames' = 1..Len(frames')
      /\ \A i \in 1..n : i # n => frames'[i] = frames[i]
      /\ frames'[n] = x
      /\ alone => frames'[n + 1] = ListFrame(l)
  BY <1>2, <1>3, <1>6, <1>7, Pushed
<1>9. TypeOK'
  <2>1. listOf' \in [Components -> Lists \cup {NoList}]
    BY <1>2, <1>3
  <2> QED BY <1>3, <1>8, <2>1 DEF Inv, TypeOK
<1>10. \A f \in 1..n : frames'[f].what = frames[f].what /\ frames'[f].obj = frames[f].obj
                         /\ frames'[f].stack = frames[f].stack
  <2>1. frames'[n].what = frames[n].what /\ frames'[n].obj = frames[n].obj
          /\ frames'[n].stack = frames[n].stack
    BY <1>1, <1>2, <1>5, <1>8 DEF c
  <2> QED BY <1>8, <2>1
<1>11. \A f : f \in DOMAIN frames' <=> f \in 1..n \/ (alone /\ f = n + 1)
  BY <1>2, <1>8
<1>12. alone => frames'[n + 1].what = "list" /\ frames'[n + 1].obj = l
                  /\ frames'[n + 1].stack = <<>>
  BY <1>8 DEF ListFrame
<1>13. /\ \A y : Dying(y)' <=> Dying(y)
       /\ \A y : DyingList(y)' <=> DyingList(y) \/ (alone /\ y = l)
       /\ \A y \in Lists : Owned(y)' <=> Owned(y) /\ y # l
  <2>1. \A f \in 1..n : \A y : (IsDrop(f, y)' <=> IsDrop(f, y)) /\ (IsList(f, y)' <=> IsList(f, y))
    BY <1>10 DEF IsDrop, IsList
  <2>2. \A f, y : f = n + 1 /\ alone => (IsList(f, y)' <=> y = l) /\ ~IsDrop(f, y)'
    BY <1>12 DEF IsDrop, IsList
  <2>3. \A y : DyingList(y)' <=> DyingList(y) \/ (alone /\ y = l)
    <3> TAKE y
    <3>1. ASSUME DyingList(y)' PROVE DyingList(y) \/ (alone /\ y = l)
      <4>1. PICK f \in DOMAIN frames' : IsList(f, y)'
        BY <3>1 DEF DyingList
      <4> QED BY <1>2, <1>11, <2>1, <2>2, <4>1 DEF DyingList
    <3>2. ASSUME DyingList(y) PROVE DyingList(y)'
      BY <1>2, <1>11, <2>1, <3>2 DEF DyingList
    <3>3. ASSUME alone, y = l PROVE DyingList(y)'
      <4>1. \E f \in DOMAIN frames' : f = n + 1 /\ IsList(f, y)'
        BY <1>11, <2>2, <3>3
      <4> QED BY <4>1 DEF DyingList
    <3> QED BY <3>1, <3>2, <3>3
  <2>4. \A y : Dying(y)' <=> Dying(y)
    BY <1>2, <1>11, <2>1, <2>2 DEF Dying
  <2>5. \A d \in Components : listOf'[d] = IF d = c THEN NoList ELSE listOf[d]
    BY <1>2, <1>3
  <2>6. \A d \in Components : listOf[d] = l => d = c
    BY <1>1 DEF Inv, OwnList, l
  <2>7. \A y \in Lists : Owned(y)' <=> Owned(y) /\ y # l
    BY <1>2, <2>5, <2>6 DEF Owned, l
  <2> QED BY <2>3, <2>4, <2>7
<1>14. \A y : Referenced(y)' <=> Referenced(y)
  <2>1. \A y : OnAStack(y)' <=> OnAStack(y)
    <3> TAKE y
    <3>1. alone => DOMAIN frames'[n + 1].stack = {}
      BY <1>12
    <3>2. OnAStack(y)' <=> \E f \in 1..n : \E i \in DOMAIN frames'[f].stack : frames'[f].stack[i] = y
      BY <1>2, <1>11, <3>1 DEF OnAStack
    <3> QED BY <1>2, <1>10, <3>2 DEF OnAStack
  <2>2. \A y : InAList(y)' <=> InAList(y)
    BY <1>3 DEF InAList
  <2> QED BY <1>3, <2>1, <2>2 DEF Referenced
<1>15. NothingDangles' /\ OwnList'
  <2>1. \A d \in Components : listOf'[d] # NoList => listOf'[d] = listOf[d]
    BY <1>2, <1>3
  <2> QED BY <1>2, <1>3, <1>13, <1>14, <2>1 DEF Inv, NothingDangles, OwnList
<1>16. Counted'
  <2>1. \A y \in alive : Referenced(y)' <=> ~Dying(y)'
    BY <1>13, <1>14 DEF Inv, Counted
  <2>2. \A y \in liveLists : Owned(y)' \/ y \in heldLists <=> ~DyingList(y)'
    <3>1. liveLists \subseteq Lists
      BY DEF Inv, TypeOK
    <3> QED BY <1>2, <1>13, <3>1 DEF Inv, Counted, alone
  <2>3. ASSUME NEW f \in DOMAIN frames', NEW g \in DOMAIN frames',
               frames'[f].what = frames'[g].what, frames'[f].obj = frames'[g].obj
        PROVE  f = g
    <3>1. \A h \in 1..n : ~(frames[h].what = "list" /\ frames[h].obj = l)
      BY <1>2 DEF DyingList, IsList
    <3>4. f \in 1..n /\ g \in 1..n => f = g
      BY <1>2, <1>10, <2>3 DEF Inv, Counted
    <3> QED BY <1>10, <1>11, <1>12, <2>3, <3>1, <3>4
  <2> QED BY <1>3, <2>1, <2>2, <2>3 DEF Counted
<1>17. \A f \in 1..n : frames[f].what = "drop" /\ f # n =>
          frames'[f] = frames[f] /\ frames[f].obj \in Components
            /\ listOf'[frames[f].obj] = listOf[frames[f].obj]
  <2> SUFFICES ASSUME NEW f \in 1..n, frames[f].what = "drop", f # n
               PROVE  frames[f].obj \in Components /\ listOf'[frames[f].obj] = listOf[frames[f].obj]
    BY <1>8
  <2>1. frames[f] \in Frame
    BY <1>2
  <2>2. frames[f].obj \in Components
    BY <2>1 DEF Frame
  <2>3. frames[f].obj # c
    BY <1>1, <1>2 DEF Inv, Counted, c
  <2> QED BY <1>2, <1>3, <2>2, <2>3
<1>18. Fields'
  <2>1. ASSUME NEW f \in DOMAIN frames', frames'[f].what = "drop"
        PROVE  /\ frames'[f].phase = "free" <=> listOf'[frames'[f].obj] = NoList
               /\ frames'[f].phase # "loop" => frames'[f].stack = <<>>
    <3>1. CASE f = n
      BY <1>1, <1>2, <1>3, <1>5, <1>8, <3>1
    <3>2. CASE f \in 1..n /\ f # n
      BY <1>2, <1>10, <1>17, <2>1, <3>2 DEF Inv, Fields
    <3> QED BY <1>11, <1>12, <2>1, <3>1, <3>2
  <2>2. \A y \in alive : listOf'[y] # NoList \/ Dying(y)'
    <3>1. \A y \in alive : y # c => listOf'[y] = listOf[y]
      BY <1>2, <1>3
    <3> QED BY <1>2, <1>13, <3>1 DEF Inv, Fields
  <2> QED BY <1>3, <2>1, <2>2 DEF Fields
<1>19. Shape'
  <2>1. Base' = Base
    <3>1. frames'[1].what = frames[1].what
      BY <1>2, <1>10
    <3> QED BY <1>1, <1>8, <3>1 DEF Base
  <2>2. ASSUME NEW f \in DOMAIN frames'
        PROVE  /\ frames'[f].what = "list" /\ f > 1 =>
                    f > Base + 1 /\ f = Len(frames') /\ items'[frames'[f].obj] = <<>>
               /\ f = Base + 3 => frames'[f].what = "list"
               /\ f > Base + 1 => frames'[f].stack = <<>>
               /\ frames'[f].what = "drop" /\ (f > Base + 1 \/ frames'[f].phase = "loop") => Emptied(f)'
    <3>1. CASE f \in 1..n
      <4>1. ~(frames'[f].what = "list" /\ f > 1)
        BY <1>1, <1>2, <1>10, <3>1 DEF Inv, Shape, n
      <4>2. f > Base + 1 => frames'[f].stack = <<>>
        BY <1>2, <1>10, <3>1 DEF Inv, Shape
      <4>3. frames'[f].what = "drop" /\ (f > Base + 1 \/ frames'[f].phase = "loop") => Emptied(f)'
        <5>1. CASE f = n
          BY <1>5, <1>8, <5>1 DEF Emptied
        <5>2. CASE f # n
          BY <1>2, <1>3, <1>10, <1>17, <3>1, <5>2 DEF Inv, Shape, Emptied
        <5> QED BY <5>1, <5>2
      <4> QED BY <1>2, <3>1, <4>1, <4>2, <4>3
    <3>2. CASE alone /\ f = n + 1
      <4>1. items'[l] = <<>>
        BY <1>3, <1>4, <3>2 DEF alone
      <4> QED BY <1>2, <1>8, <1>12, <3>2, <4>1
    <3> QED BY <1>11, <3>1, <3>2
  <2> QED BY <1>2, <1>8, <2>1, <2>2 DEF Shape
<1> QED BY <1>9, <1>15, <1>16, <1>18, <1>19 DEF Inv

\* What letting go of the frame at work changes.
LEMMA TopPopped ==
  ASSUME Inv, frames # <<>>, Top.stack = <<>>, frames' = Front(frames),
         UNCHANGED <<listOf, items, held, heldLists>>,
         Top.what = "list" \/ Top.phase = "free"
  PROVE  /\ frames' \in Seq(Frame) /\ Len(frames') = Len(frames) - 1
         /\ DOMAIN frames' = 1..(Len(frames) - 1) /\ \A f \in DOMAIN frames' : frames'[f] = frames[f]
         /\ \A y : OnAStack(y)' <=> OnAStack(y)
         /\ \A y : Dying(y)' <=> Dying(y) /\ ~(Top.what = "drop" /\ y = Top.obj)
         /\ \A y : DyingList(y)' <=> DyingList(y) /\ ~(Top.what = "list" /\ y = Top.obj)
         /\ \A f, g \in DOMAIN frames' :
              frames'[f].what = frames'[g].what /\ frames'[f].obj = frames'[g].obj => f = g
         /\ Shape'
<1> DEFINE n == Len(frames)
<1>1. /\ n \in Nat /\ n >= 1 /\ DOMAIN frames = 1..n /\ Top = frames[n] /\ frames \in Seq(Frame)
      /\ frames # <<>> /\ Base \in 0..1
  BY TopShape DEF Inv, TypeOK
<1>2. /\ frames' \in Seq(Frame) /\ Len(frames') = n - 1 /\ DOMAIN frames' = 1..(n - 1)
      /\ \A f \in 1..(n - 1) : frames'[f] = frames[f]
  BY <1>1, Popped
<1>3. \A f, g \in 1..n : frames[f].what = frames[g].what /\ frames[f].obj = frames[g].obj => f = g
  BY <1>1 DEF Inv, Counted
<1> HIDE DEF n
<1>4. (\A f \in 1..(n - 1) : f \in 1..n /\ f # n) /\ (\A f \in 1..n : f # n => f \in 1..(n - 1))
      /\ n \in 1..n
  BY <1>1
<1>5. \A f \in 1..(n - 1) : \A y : (IsDrop(f, y)' <=> IsDrop(f, y)) /\ (IsList(f, y)' <=> IsList(f, y))
  BY <1>2 DEF IsDrop, IsList
<1>6. \A y : OnAStack(y)' <=> OnAStack(y)
  <2>1. DOMAIN frames[n].stack = {}
    BY <1>1
  <2> QED BY <1>1, <1>2, <1>4, <2>1 DEF OnAStack
<1>7. \A y : Dying(y)' <=> Dying(y) /\ ~(Top.what = "drop" /\ y = Top.obj)
  <2> TAKE y
  <2>1. ASSUME Dying(y)' PROVE Dying(y) /\ ~(Top.what = "drop" /\ y = Top.obj)
    <3>1. PICK f \in 1..(n - 1) : IsDrop(f, y)
      BY <1>2, <1>5, <2>1 DEF Dying
    <3> QED BY <1>1, <1>3, <1>4, <3>1 DEF Dying, IsDrop
  <2>2. ASSUME Dying(y), ~(Top.what = "drop" /\ y = Top.obj) PROVE Dying(y)'
    <3>1. PICK f \in 1..n : IsDrop(f, y)
      BY <1>1, <2>2 DEF Dying
    <3>2. f # n
      BY <1>1, <2>2, <3>1 DEF IsDrop
    <3> QED BY <1>2, <1>4, <1>5, <3>1, <3>2 DEF Dying
  <2> QED BY <2>1, <2>2
<1>8. \A y : DyingList(y)' <=> DyingList(y) /\ ~(Top.what = "list" /\ y = Top.obj)
  <2> TAKE y
  <2>1. ASSUME DyingList(y)' PROVE DyingList(y) /\ ~(Top.what = "list" /\ y = Top.obj)
    <3>1. PICK f \in 1..(n - 1) : IsList(f, y)
      BY <1>2, <1>5, <2>1 DEF DyingList
    <3> QED BY <1>1, <1>3, <1>4, <3>1 DEF DyingList, IsList
  <2>2. ASSUME DyingList(y), ~(Top.what = "list" /\ y = Top.obj) PROVE DyingList(y)'
    <3>1. PICK f \in 1..n : IsList(f, y)
      BY <1>1, <2>2 DEF DyingList
    <3>2. f # n
      BY <1>1, <2>2, <3>1 DEF IsList
    <3> QED BY <1>2, <1>4, <1>5, <3>1, <3>2 DEF DyingList
  <2> QED BY <2>1, <2>2
<1>9. Shape'
  <2>1. CASE n = 1
    <3>1. DOMAIN frames' = {} /\ Len(frames') = 0
      BY <1>2, <2>1
    <3>2. Base' \in 0..1
      BY DEF Base
    <3>3. \A b \in 0..1 : 0 <= b + 3
      OBVIOUS
    <3>4. Len(frames') <= Base' + 3
      BY <3>1, <3>2, <3>3
    <3> QED BY <3>1, <3>4 DEF Shape
  <2>2. CASE n # 1
    <3>1. Base' = Base
      BY <1>1, <1>2, <2>2 DEF Base
    <3>2. \A f \in 1..(n - 1) : ~(frames[f].what = "list" /\ f > 1)
      BY <1>1, <1>4 DEF Inv, Shape, n
    <3>3. \A f \in 1..(n - 1) : Emptied(f)' <=> Emptied(f)
      BY <1>2 DEF Emptied
    <3>4. Len(frames') <= Base + 3
      BY <1>1, <1>2 DEF Inv, Shape, n
    <3> QED BY <1>1, <1>2, <1>4, <3>1, <3>2, <3>3, <3>4 DEF Inv, Shape
  <2> QED BY <2>1, <2>2
<1>10. \A f, g \in DOMAIN frames' :
         frames'[f].what = frames'[g].what /\ frames'[f].obj = frames'[g].obj => f = g
  BY <1>2, <1>3, <1>4
<1> QED BY <1>2, <1>6, <1>7, <1>8, <1>9, <1>10 DEF n

LEMMA DropFreeStep == ASSUME Inv, DropFree PROVE Inv'
<1> DEFINE c == Top.obj
<1>1. /\ frames # <<>> /\ Top.what = "drop" /\ Top.phase = "free"
      /\ alive' = alive \ {c} /\ frames' = Front(frames)
      /\ UNCHANGED <<liveLists, listOf, items, held, heldLists>>
  BY DEF DropFree, InDrop
<1>2. c \in Components /\ c \in alive /\ ~Referenced(c) /\ Top.stack = <<>> /\ listOf[c] = NoList
  BY <1>1, TopShape DEF Inv, Fields
<1> HIDE DEF c
<1>3. /\ frames' \in Seq(Frame) /\ Len(frames') = Len(frames) - 1 /\ Len(frames) \in Nat
      /\ DOMAIN frames' = 1..(Len(frames) - 1) /\ DOMAIN frames = 1..Len(frames)
      /\ \A f \in DOMAIN frames' : frames'[f] = frames[f]
      /\ \A y : OnAStack(y)' <=> OnAStack(y)
      /\ \A y : Dying(y)' <=> Dying(y) /\ y # c
      /\ \A y : DyingList(y)' <=> DyingList(y)
      /\ \A f, g \in DOMAIN frames' :
           frames'[f].what = frames'[g].what /\ frames'[f].obj = frames'[g].obj => f = g
      /\ Shape'
  BY <1>1, <1>2, TopShape, TopPopped DEF c
<1>4. (\A y : Referenced(y)' <=> Referenced(y)) /\ (\A y : Owned(y)' <=> Owned(y))
  BY <1>1, <1>3 DEF Referenced, InAList, Owned
<1>5. TypeOK' /\ OwnList'
  BY <1>1, <1>3 DEF Inv, TypeOK, OwnList
<1>6. NothingDangles'
  <2>1. c \notin held
    BY <1>2 DEF Referenced
  <2> QED BY <1>1, <1>2, <1>3, <1>4, <2>1 DEF Inv, NothingDangles
<1>7. Counted'
  BY <1>1, <1>3, <1>4 DEF Inv, Counted
<1>8. Fields'
  <2>1. \A f \in DOMAIN frames' : f \in DOMAIN frames
    BY <1>3
  <2> QED BY <1>1, <1>3, <2>1 DEF Inv, Fields
<1> QED BY <1>3, <1>5, <1>6, <1>7, <1>8 DEF Inv

LEMMA ListFreeStep == ASSUME Inv, ListFree PROVE Inv'
<1> DEFINE l == Top.obj
<1>1. /\ frames # <<>> /\ Top.what = "list" /\ items[l] = <<>>
      /\ liveLists' = liveLists \ {l} /\ frames' = Front(frames)
      /\ UNCHANGED <<alive, listOf, items, held, heldLists>>
  BY DEF ListFree
<1>2. l \in Lists /\ l \in liveLists /\ ~Owned(l) /\ l \notin heldLists /\ Top.stack = <<>>
  BY <1>1, TopShape
<1> HIDE DEF l
<1>3. /\ frames' \in Seq(Frame) /\ Len(frames') = Len(frames) - 1 /\ Len(frames) \in Nat
      /\ DOMAIN frames' = 1..(Len(frames) - 1) /\ DOMAIN frames = 1..Len(frames)
      /\ \A f \in DOMAIN frames' : frames'[f] = frames[f]
      /\ \A y : OnAStack(y)' <=> OnAStack(y)
      /\ \A y : Dying(y)' <=> Dying(y)
      /\ \A y : DyingList(y)' <=> DyingList(y) /\ y # l
      /\ \A f, g \in DOMAIN frames' :
           frames'[f].what = frames'[g].what /\ frames'[f].obj = frames'[g].obj => f = g
      /\ Shape'
  BY <1>1, <1>2, TopShape, TopPopped DEF l
<1>4. \A y : InAList(y)' <=> InAList(y)
  <2>1. DOMAIN items[l] = {}
    BY <1>1
  <2> QED BY <1>1, <2>1 DEF InAList
<1>5. (\A y : Referenced(y)' <=> Referenced(y)) /\ (\A y : Owned(y)' <=> Owned(y))
  BY <1>1, <1>3, <1>4 DEF Referenced, Owned
<1>6. TypeOK' /\ OwnList'
  BY <1>1, <1>3 DEF Inv, TypeOK, OwnList
<1>7. NothingDangles'
  BY <1>1, <1>2, <1>3, <1>5 DEF Inv, NothingDangles, Owned
<1>8. Counted'
  BY <1>1, <1>3, <1>5 DEF Inv, Counted
<1>9. Fields'
  <2>1. \A f \in DOMAIN frames' : f \in DOMAIN frames
    BY <1>3
  <2> QED BY <1>1, <1>3, <2>1 DEF Inv, Fields
<1> QED BY <1>3, <1>6, <1>7, <1>8, <1>9 DEF Inv

LEMMA ListItemStep == ASSUME Inv, ListItem PROVE Inv'
<1> DEFINE l == Top.obj
           obj == Last(items[l])
           k == Len(items[l])
           alone == Py_REFCNT(obj) = 1
<1>1. /\ frames # <<>> /\ Top.what = "list" /\ items[l] # <<>>
      /\ items' = [items EXCEPT ![l] = Front(items[l])]
      /\ frames' = IF alone THEN Append(frames, DropFrame(obj)) ELSE frames
      /\ UNCHANGED <<alive, liveLists, listOf, held, heldLists>>
  BY DEF ListItem
<1>2. /\ l \in Lists /\ l \in liveLists /\ ~Owned(l) /\ l \notin heldLists /\ Top.stack = <<>>
      /\ DyingList(l) /\ Len(frames) = 1 /\ DOMAIN frames = {1} /\ Top = frames[1]
      /\ Base = 1 /\ frames \in Seq(Frame)
  <2>1. Len(frames) = 1
    <3>1. /\ Len(frames) \in Nat /\ Len(frames) >= 1 /\ Len(frames) \in DOMAIN frames
          /\ frames[Len(frames)].what = "list" /\ items[frames[Len(frames)].obj] # <<>>
      BY <1>1, TopShape
    <3>2. ~(Len(frames) > 1)
      BY <3>1 DEF Inv, Shape
    <3>3. \A m \in Nat : m >= 1 /\ ~(m > 1) => m = 1
      OBVIOUS
    <3>4. Len(frames) \in Nat /\ Len(frames) >= 1
      BY <3>1
    <3> HIDE DEF l, k, obj, alone
    <3> QED BY <3>2, <3>3, <3>4
  <2>2. frames \in Seq(Frame) /\ DOMAIN frames = {1}
    BY <2>1 DEF Inv, TypeOK
  <2>3. Base = 1
    BY <1>1, <2>1, TopShape DEF Base
  <2> QED BY <1>1, <2>1, <2>2, <2>3, TopShape
<1>3. /\ items \in [Lists -> Seq(Components)] /\ items[l] \in Seq(Components)
      /\ liveLists \subseteq Lists /\ alive \subseteq Components
      /\ obj \in Components /\ k \in DOMAIN items[l] /\ items[l][k] = obj
      /\ Front(items[l]) \in Seq(Components)
  <2>1. items \in [Lists -> Seq(Components)] /\ liveLists \subseteq Lists /\ alive \subseteq Components
    BY DEF Inv, TypeOK
  <2>2. items[l] \in Seq(Components)
    BY <1>2, <2>1
  <2> QED BY <1>1, <2>1, <2>2, Popped
<1>4. alone <=> /\ obj \notin held /\ ~OnAStack(obj)
                /\ \A m \in liveLists : \A i \in DOMAIN items[m] : items[m][i] = obj => m = l /\ i = k
  <2> HIDE DEF l, k, obj
  <2> QED BY <1>2, <1>3, ItemReference DEF alone
<1>5. ~Dying(obj) /\ Referenced(obj) /\ obj \in alive /\ listOf[obj] # NoList
  <2>1. Referenced(obj)
    BY <1>2, <1>3 DEF Referenced, InAList
  <2>2. obj \in alive /\ ~Dying(obj)
    BY <1>3, <2>1 DEF Inv, NothingDangles, Counted
  <2> QED BY <2>1, <2>2 DEF Inv, Fields
<1>6. \A y : Holds(Front(items[l]), y) <=> \E i \in DOMAIN items[l] : i # k /\ items[l][i] = y
  BY <1>1, <1>3, FrontHolds
<1>7. DropFrame(obj) \in Frame
  <2>1. <<>> \in Seq(Components)
    OBVIOUS
  <2> QED BY <1>3, <2>1 DEF DropFrame, Frame
<1> HIDE DEF l, obj, k, alone
<1>8. /\ frames' \in Seq(Frame) /\ frames' # <<>> /\ Len(frames') = IF alone THEN 2 ELSE 1
      /\ DOMAIN frames' = IF alone THEN {1, 2} ELSE {1}
      /\ frames'[1] = frames[1]
      /\ alone => frames'[2] = DropFrame(obj)
  <2>1. CASE ~alone
    BY <1>1, <1>2, <2>1
  <2>2. CASE alone
    <3>1. /\ Append(frames, DropFrame(obj)) \in Seq(Frame)
          /\ Append(frames, DropFrame(obj)) # <<>>
          /\ Len(Append(frames, DropFrame(obj))) = 2
          /\ DOMAIN Append(frames, DropFrame(obj)) = 1..2
          /\ Append(frames, DropFrame(obj))[1] = frames[1]
          /\ Append(frames, DropFrame(obj))[2] = DropFrame(obj)
      BY <1>2, <1>7, Pushed
    <3> QED BY <1>1, <2>2, <3>1
  <2> QED BY <2>1, <2>2
<1>9. TypeOK'
  <2>1. items' \in [Lists -> Seq(Components)]
    BY <1>1, <1>2, <1>3
  <2>2. ASSUME NEW m \in Lists PROVE Len(items'[m]) <= MaxItems
    <3>1. CASE m = l
      <4>1. items'[m] = Front(items[l]) /\ Len(Front(items[l])) = Len(items[l]) - 1
              /\ Len(items[l]) \in Nat
        BY <1>1, <1>2, <1>3, <3>1, Popped
      <4>2. Len(items[l]) <= MaxItems
        BY <1>2 DEF Inv, TypeOK
      <4> QED BY <4>1, <4>2, ObjectsAssumption
    <3>2. CASE m # l
      BY <1>1, <1>2, <1>3, <3>2 DEF Inv, TypeOK
    <3> QED BY <3>1, <3>2
  <2> QED BY <1>1, <1>8, <2>1, <2>2 DEF Inv, TypeOK
<1>10. /\ \A y : Dying(y)' <=> Dying(y) \/ (alone /\ y = obj)
       /\ \A y : DyingList(y)' <=> DyingList(y)
       /\ \A y : Owned(y)' <=> Owned(y)
       /\ \A y : ~OnAStack(y)' /\ ~OnAStack(y)
  <2>1. alone => frames'[2].what = "drop" /\ frames'[2].obj = obj /\ DOMAIN frames'[2].stack = {}
    BY <1>8 DEF DropFrame
  <2>2. DOMAIN frames[1].stack = {}
    BY <1>2
  <2> QED BY <1>1, <1>2, <1>8, <2>1, <2>2 DEF Dying, DyingList, Owned, OnAStack, IsDrop, IsList
<1>11. \A y : Referenced(y)' <=> Referenced(y) /\ ~(alone /\ y = obj)
  <2> TAKE y
  <2> DEFINE Else(z) == \E m \in liveLists : \E i \in DOMAIN items[m] :
                          items[m][i] = z /\ ~(m = l /\ i = k)
  <2>1. InAList(y)' <=> Else(y)
    <3>1. \A m \in liveLists : m # l => items'[m] = items[m]
      BY <1>1, <1>2, <1>3
    <3>2. items'[l] = Front(items[l])
      BY <1>1, <1>2, <1>3
    <3>3. InAList(y)' <=> Holds(Front(items[l]), y)
                          \/ \E m \in liveLists : m # l /\ \E i \in DOMAIN items[m] : items[m][i] = y
      BY <1>1, <1>2, <3>1, <3>2 DEF InAList, Holds
    <3> QED BY <1>2, <1>6, <3>3
  <2>2. InAList(y) <=> y = obj \/ Else(y)
    BY <1>2, <1>3 DEF InAList
  <2>3. CASE y # obj
    BY <1>1, <1>10, <2>1, <2>2, <2>3 DEF Referenced
  <2>4. CASE y = obj
    BY <1>1, <1>4, <1>5, <1>10, <2>1, <2>4 DEF Referenced
  <2> QED BY <2>3, <2>4
<1>12. NothingDangles' /\ OwnList'
  BY <1>1, <1>5, <1>10, <1>11 DEF Inv, NothingDangles, OwnList
<1>13. Counted'
  <2>1. \A y \in alive : Referenced(y)' <=> ~Dying(y)'
    BY <1>5, <1>10, <1>11 DEF Inv, Counted
  <2>2. \A f, g \in DOMAIN frames' :
          frames'[f].what = frames'[g].what /\ frames'[f].obj = frames'[g].obj => f = g
    <3>1. alone => frames'[2].what = "drop"
      BY <1>8 DEF DropFrame
    <3> QED BY <1>1, <1>2, <1>8, <3>1
  <2> QED BY <1>1, <1>10, <2>1, <2>2 DEF Inv, Counted
<1>14. Fields'
  <2>1. alone => frames'[2].phase = "begin" /\ frames'[2].obj = obj /\ frames'[2].stack = <<>>
    BY <1>8 DEF DropFrame
  <2> QED BY <1>1, <1>2, <1>5, <1>8, <1>10, <2>1 DEF Inv, Fields
<1>15. Shape'
  <2>1. Base' = 1
    BY <1>1, <1>2, <1>8 DEF Base
  <2>2. alone => frames'[2].what = "drop" /\ frames'[2].phase = "begin"
    BY <1>8 DEF DropFrame
  <2> QED BY <1>1, <1>2, <1>8, <2>1, <2>2 DEF Shape
<1> QED BY <1>9, <1>12, <1>13, <1>14, <1>15 DEF Inv

-----------------------------------------------------------------------------
(* So does Python. *)

LEMMA Quiet ==
  ASSUME Inv, frames = <<>>
  PROVE  /\ \A y : ~Dying(y) /\ ~DyingList(y) /\ ~OnAStack(y)
         /\ \A c \in alive : (c \in held \/ InAList(c)) /\ listOf[c] # NoList
         /\ \A l \in liveLists : Owned(l) \/ l \in heldLists
<1>1. DOMAIN frames = {}
  OBVIOUS
<1>2. \A y : ~Dying(y) /\ ~DyingList(y) /\ ~OnAStack(y)
  BY <1>1 DEF Dying, DyingList, OnAStack
<1> QED BY <1>2 DEF Inv, Counted, Fields, Referenced

\* Between deallocations, and at the start of one.
LEMMA Settled ==
  ASSUME TypeOK', frames' = <<>>, OwnList',
         held' \subseteq alive', heldLists' \subseteq liveLists',
         \A c \in Components : listOf'[c] # NoList => c \in alive' /\ listOf'[c] \in liveLists',
         \A c \in Components : InAList(c)' => c \in alive',
         \A c \in alive' : (c \in held' \/ InAList(c)') /\ listOf'[c] # NoList,
         \A l \in liveLists' : Owned(l)' \/ l \in heldLists'
  PROVE  Inv'
<1>1. DOMAIN frames' = {} /\ Len(frames') = 0
  OBVIOUS
<1>2. \A y : ~Dying(y)' /\ ~DyingList(y)' /\ ~OnAStack(y)'
  BY <1>1 DEF Dying, DyingList, OnAStack
<1>3. NothingDangles' /\ Counted' /\ Fields'
  BY <1>1, <1>2 DEF NothingDangles, Counted, Fields, Referenced
<1>4. Shape'
  <2>1. Base' = 0
    BY DEF Base
  <2> QED BY <1>1, <2>1 DEF Shape
<1> QED BY <1>3, <1>4 DEF Inv

LEMMA Starting ==
  ASSUME TypeOK', NEW x \in Frame, frames' = <<x>>, x.stack = <<>>, OwnList',
         x.what = "drop" => x.phase = "begin" /\ x.obj \in alive',
         x.what = "list" => x.obj \in liveLists',
         held' \subseteq alive', heldLists' \subseteq liveLists',
         \A c \in Components : listOf'[c] # NoList => c \in alive' /\ listOf'[c] \in liveLists',
         \A c \in Components : InAList(c)' => c \in alive',
         \A c \in alive' : (c \in held' \/ InAList(c)' <=> ~(x.what = "drop" /\ x.obj = c))
                             /\ listOf'[c] # NoList,
         \A l \in liveLists' : Owned(l)' \/ l \in heldLists' <=> ~(x.what = "list" /\ x.obj = l)
  PROVE  Inv'
<1>1. DOMAIN frames' = {1} /\ Len(frames') = 1 /\ frames'[1] = x /\ frames' # <<>>
  OBVIOUS
<1>2. /\ \A y : Dying(y)' <=> x.what = "drop" /\ x.obj = y
      /\ \A y : DyingList(y)' <=> x.what = "list" /\ x.obj = y
      /\ \A y : ~OnAStack(y)'
  BY <1>1 DEF Dying, DyingList, OnAStack, IsDrop, IsList
<1>3. NothingDangles'
  BY <1>2 DEF NothingDangles, Referenced
<1>4. Counted'
  BY <1>1, <1>2 DEF Counted, Referenced
<1>5. Fields'
  BY <1>1, <1>2 DEF Fields
<1>6. Shape'
  <2>1. Base' = 0 \/ Base' = 1
    BY DEF Base
  <2>2. x.what = "drop" => Base' = 0
    BY <1>1 DEF Base
  <2> QED BY <1>1, <2>1, <2>2 DEF Shape
<1> QED BY <1>3, <1>4, <1>5, <1>6 DEF Inv

LEMMA LowestIn == ASSUME NEW S \in SUBSET Nat, S # {} PROVE Lowest(S) \in S
<1>1. \E m \in S : \A n \in S : m <= n
  BY Least
<1> QED BY <1>1 DEF Lowest

LEMMA ChildSeqShape ==
  ASSUME Inv, NEW s \in ChildSeqs
  PROVE  s \in Seq(Components) /\ Len(s) <= MaxItems /\ \A i \in DOMAIN s : s[i] \in held
<1>1. PICK n \in 0..MaxItems : s \in [1..n -> held]
  BY DEF ChildSeqs
<1>2. n \in Nat /\ n <= MaxItems
  BY <1>1, ObjectsAssumption
<1>3. held \subseteq Components
  BY DEF Inv, TypeOK
<1>4. s \in [1..n -> Components] /\ \A i \in 1..n : s[i] \in held
  BY <1>1, <1>3
<1>5. s \in Seq(Components) /\ Len(s) = n /\ DOMAIN s = 1..n
  BY <1>2, <1>4
<1> QED BY <1>2, <1>4, <1>5

\* A component gets a list that no one had.
GetsList(c, children, l) ==
  /\ FreshLists # {} /\ l = Lowest(FreshLists)
  /\ liveLists' = liveLists \cup {l}
  /\ listOf' = [listOf EXCEPT ![c] = l]
  /\ items' = [items EXCEPT ![l] = children]

LEMMA NewList ==
  ASSUME Inv, NEW c \in Components, NEW children \in ChildSeqs, NEW l, GetsList(c, children, l)
  PROVE  /\ l \in Lists /\ l \notin liveLists /\ l # NoList /\ l \notin heldLists
         /\ liveLists' \subseteq Lists
         /\ listOf' \in [Components -> Lists \cup {NoList}]
         /\ \A d \in Components : listOf'[d] = IF d = c THEN l ELSE listOf[d]
         /\ items' \in [Lists -> Seq(Components)] /\ \A m \in Lists : Len(items'[m]) <= MaxItems
         /\ \A y : InAList(y)' <=> InAList(y) \/ \E i \in DOMAIN children : children[i] = y
         /\ OwnList'
         /\ \A m \in liveLists' : Owned(m)' <=> m = l \/ \E d \in Components : d # c /\ listOf[d] = m
<1>0. /\ FreshLists # {} /\ l = Lowest(FreshLists) /\ liveLists' = liveLists \cup {l}
      /\ listOf' = [listOf EXCEPT ![c] = l] /\ items' = [items EXCEPT ![l] = children]
  BY DEF GetsList
<1>1. FreshLists \in SUBSET Nat
  BY ObjectsAssumption DEF FreshLists
<1>2. l \in Lists /\ l \notin liveLists /\ l # NoList
  BY <1>0, <1>1, LowestIn, ObjectsAssumption DEF FreshLists
<1>3. /\ liveLists \subseteq Lists /\ listOf \in [Components -> Lists \cup {NoList}]
      /\ items \in [Lists -> Seq(Components)] /\ \A m \in Lists : Len(items[m]) <= MaxItems
  BY DEF Inv, TypeOK
<1>4. l \notin heldLists /\ \A d \in Components : listOf[d] # l
  BY <1>2 DEF Inv, NothingDangles
<1>5. children \in Seq(Components) /\ Len(children) <= MaxItems
  BY ChildSeqShape
<1>6. /\ listOf' \in [Components -> Lists \cup {NoList}]
      /\ \A d \in Components : listOf'[d] = IF d = c THEN l ELSE listOf[d]
  BY <1>0, <1>2, <1>3
<1>7. items' \in [Lists -> Seq(Components)] /\ \A m \in Lists : Len(items'[m]) <= MaxItems
  BY <1>0, <1>2, <1>3, <1>5
<1>8. \A y : InAList(y)' <=> InAList(y) \/ \E i \in DOMAIN children : children[i] = y
  <2>1. items'[l] = children /\ \A m \in liveLists : items'[m] = items[m]
    BY <1>0, <1>2, <1>3
  <2> QED BY <1>0, <2>1 DEF InAList
<1>9. OwnList'
  BY <1>4, <1>6 DEF Inv, OwnList
<1>10. \A m \in liveLists' : Owned(m)' <=> m = l \/ \E d \in Components : d # c /\ listOf[d] = m
  BY <1>4, <1>6 DEF Owned
<1>11. liveLists' \subseteq Lists
  BY <1>0, <1>2, <1>3
<1> QED BY <1>2, <1>4, <1>6, <1>7, <1>8, <1>9, <1>10, <1>11

LEMMA NewStep == ASSUME Inv, NEW s \in ChildSeqs, New(s) PROVE Inv'
<1> DEFINE c == Lowest(FreshComponents)
           l == Lowest(FreshLists)
<1>1. /\ frames = <<>> /\ FreshLists # {} /\ c \in Components /\ c \notin alive
      /\ alive' = alive \cup {c} /\ liveLists' = liveLists \cup {l}
      /\ listOf' = [listOf EXCEPT ![c] = l] /\ items' = [items EXCEPT ![l] = s]
      /\ held' = held \cup {c} /\ UNCHANGED <<heldLists, frames>>
  <2>1. FreshComponents \in SUBSET Nat
    BY ObjectsAssumption DEF FreshComponents
  <2>2. FreshComponents # {}
    BY DEF New
  <2>3. c \in FreshComponents
    BY <2>1, <2>2, LowestIn
  <2> QED BY <2>3 DEF New, FreshComponents
<1> HIDE DEF c, l
<1>2. /\ l \in Lists /\ l \notin liveLists /\ l # NoList
      /\ liveLists' \subseteq Lists
      /\ listOf' \in [Components -> Lists \cup {NoList}]
      /\ \A d \in Components : listOf'[d] = IF d = c THEN l ELSE listOf[d]
      /\ items' \in [Lists -> Seq(Components)] /\ \A m \in Lists : Len(items'[m]) <= MaxItems
      /\ \A y : InAList(y)' <=> InAList(y) \/ \E i \in DOMAIN s : s[i] = y
      /\ OwnList'
      /\ \A m \in liveLists' : Owned(m)' <=> m = l \/ \E d \in Components : d # c /\ listOf[d] = m
  <2>1. GetsList(c, s, l) /\ c \in Components
    BY <1>1 DEF l, GetsList
  <2> QED BY <2>1, NewList
<1>3. TypeOK'
  BY <1>1, <1>2 DEF Inv, TypeOK
<1>4. /\ \A d \in alive : (d \in held \/ InAList(d)) /\ listOf[d] # NoList
      /\ \A m \in liveLists : Owned(m) \/ m \in heldLists
      /\ listOf[c] = NoList /\ alive \subseteq Components
  BY <1>1, Quiet DEF Inv, NothingDangles, TypeOK
<1>5. held' \subseteq alive' /\ heldLists' \subseteq liveLists'
  BY <1>1 DEF Inv, NothingDangles
<1>6. \A d \in Components : listOf'[d] # NoList => d \in alive' /\ listOf'[d] \in liveLists'
  BY <1>1, <1>2 DEF Inv, NothingDangles
<1>7. \A d \in Components : InAList(d)' => d \in alive'
  <2>1. \A i \in DOMAIN s : s[i] \in held
    BY ChildSeqShape
  <2> QED BY <1>1, <1>2, <2>1 DEF Inv, NothingDangles, Referenced
<1>8. \A d \in alive' : (d \in held' \/ InAList(d)') /\ listOf'[d] # NoList
  BY <1>1, <1>2, <1>4
<1>9. \A m \in liveLists' : Owned(m)' \/ m \in heldLists'
  <2>1. ASSUME NEW m \in liveLists, Owned(m) PROVE \E d \in Components : d # c /\ listOf[d] = m
    <3>1. m # NoList
      BY ObjectsAssumption DEF Inv, TypeOK
    <3> QED BY <1>4, <2>1, <3>1 DEF Owned
  <2> QED BY <1>1, <1>2, <1>4, <2>1
<1> QED BY <1>1, <1>2, <1>3, <1>5, <1>6, <1>7, <1>8, <1>9, Settled

LEMMA SetChildrenStep ==
  ASSUME Inv, NEW c \in Components, NEW s \in ChildSeqs, SetChildren(c, s) PROVE Inv'
<1> DEFINE old == listOf[c]
           l == Lowest(FreshLists)
<1>1. /\ frames = <<>> /\ FreshLists # {} /\ c \in held
      /\ liveLists' = liveLists \cup {l}
      /\ listOf' = [listOf EXCEPT ![c] = l] /\ items' = [items EXCEPT ![l] = s]
      /\ frames' = IF ListRefs(old) = 1 THEN <<ListFrame(old)>> ELSE <<>>
      /\ UNCHANGED <<alive, held, heldLists>>
  BY DEF SetChildren
<1>2. /\ \A d \in alive : (d \in held \/ InAList(d)) /\ listOf[d] # NoList
      /\ \A m \in liveLists : Owned(m) \/ m \in heldLists
      /\ c \in alive
  BY <1>1, Quiet DEF Inv, NothingDangles
<1>3. /\ old # NoList /\ old \in Lists /\ old \in liveLists
      /\ ListRefs(old) = 1 <=> old \notin heldLists
  BY <1>2, FieldShape
<1>4. \A d \in Components : listOf[d] = old => d = c
  BY <1>3 DEF Inv, OwnList
<1> HIDE DEF old, l
<1>5. /\ l \in Lists /\ l \notin liveLists /\ l # NoList
      /\ liveLists' \subseteq Lists
      /\ listOf' \in [Components -> Lists \cup {NoList}]
      /\ \A d \in Components : listOf'[d] = IF d = c THEN l ELSE listOf[d]
      /\ items' \in [Lists -> Seq(Components)] /\ \A m \in Lists : Len(items'[m]) <= MaxItems
      /\ \A y : InAList(y)' <=> InAList(y) \/ \E i \in DOMAIN s : s[i] = y
      /\ OwnList'
      /\ \A m \in liveLists' : Owned(m)' <=> m = l \/ \E d \in Components : d # c /\ listOf[d] = m
  <2>1. GetsList(c, s, l) /\ c \in Components
    BY <1>1 DEF l, GetsList
  <2> QED BY <2>1, NewList
<1>6. ListFrame(old) \in Frame
  BY <1>3 DEF ListFrame, Frame
<1>7. TypeOK'
  <2>1. frames' \in Seq(Frame)
    BY <1>1, <1>6
  <2> QED BY <1>1, <1>5, <2>1 DEF Inv, TypeOK
<1>8. held' \subseteq alive' /\ heldLists' \subseteq liveLists'
  BY <1>1 DEF Inv, NothingDangles
<1>9. \A d \in Components : listOf'[d] # NoList => d \in alive' /\ listOf'[d] \in liveLists'
  BY <1>1, <1>2, <1>5 DEF Inv, NothingDangles
<1>10. \A d \in Components : InAList(d)' => d \in alive'
  <2>1. \A i \in DOMAIN s : s[i] \in held
    BY ChildSeqShape
  <2> QED BY <1>1, <1>5, <2>1 DEF Inv, NothingDangles, Referenced
<1>11. \A d \in alive' : (d \in held' \/ InAList(d)') /\ listOf'[d] # NoList
  <2>1. alive \subseteq Components
    BY DEF Inv, TypeOK
  <2> QED BY <1>1, <1>2, <1>5, <2>1
<1>12. \A m \in liveLists' : Owned(m)' <=> (m = l \/ (Owned(m) /\ m # old))
  BY <1>4, <1>5 DEF Owned, old
<1>13. CASE old \in heldLists
  <2>1. \A m \in liveLists' : Owned(m)' \/ m \in heldLists'
    BY <1>1, <1>2, <1>12, <1>13
  <2> QED BY <1>1, <1>3, <1>5, <1>7, <1>8, <1>9, <1>10, <1>11, <1>13, <2>1, Settled
<1>14. CASE old \notin heldLists
  <2> DEFINE x == ListFrame(old)
  <2>1. x.what = "list" /\ x.obj = old /\ x.stack = <<>>
    BY DEF ListFrame
  <2>2. \A m \in liveLists' : Owned(m)' \/ m \in heldLists' <=> ~(x.what = "list" /\ x.obj = m)
    BY <1>1, <1>2, <1>3, <1>5, <1>12, <1>14, <2>1
  <2>3. frames' = <<x>> /\ x \in Frame /\ old \in liveLists'
    BY <1>1, <1>3, <1>6, <1>14
  <2> HIDE DEF x
  <2> QED BY <1>5, <1>7, <1>8, <1>9, <1>10, <1>11, <2>1, <2>2, <2>3, Starting
<1> QED BY <1>13, <1>14

LEMMA ReleaseStep == ASSUME Inv, NEW c \in Components, Release(c) PROVE Inv'
<1>1. /\ frames = <<>> /\ c \in held /\ held' = held \ {c}
      /\ frames' = IF Py_REFCNT(c) = 1 THEN <<DropFrame(c)>> ELSE <<>>
      /\ UNCHANGED <<alive, liveLists, listOf, items, heldLists>>
  BY DEF Release, heap
<1>2. /\ \A y : ~OnAStack(y)
      /\ \A d \in alive : (d \in held \/ InAList(d)) /\ listOf[d] # NoList
      /\ \A m \in liveLists : Owned(m) \/ m \in heldLists
      /\ c \in alive
  BY <1>1, Quiet DEF Inv, NothingDangles
<1>3. Py_REFCNT(c) = 1 <=> ~InAList(c)
  BY <1>1, <1>2, HeldReference
<1>4. (\A y : InAList(y)' <=> InAList(y)) /\ (\A m : Owned(m)' <=> Owned(m))
  BY <1>1 DEF InAList, Owned
<1>5. DropFrame(c) \in Frame
  <2>1. <<>> \in Seq(Components)
    OBVIOUS
  <2> QED BY <2>1 DEF DropFrame, Frame
<1>6. TypeOK'
  <2>1. frames' \in Seq(Frame)
    BY <1>1, <1>5
  <2> QED BY <1>1, <2>1 DEF Inv, TypeOK
<1>7. /\ held' \subseteq alive' /\ heldLists' \subseteq liveLists' /\ OwnList'
      /\ \A d \in Components : listOf'[d] # NoList => d \in alive' /\ listOf'[d] \in liveLists'
      /\ \A d \in Components : InAList(d)' => d \in alive'
  BY <1>1, <1>4 DEF Inv, NothingDangles, OwnList, Referenced
<1>8. CASE InAList(c)
  <2>1. \A d \in alive' : (d \in held' \/ InAList(d)') /\ listOf'[d] # NoList
    BY <1>1, <1>2, <1>4, <1>8
  <2>2. \A m \in liveLists' : Owned(m)' \/ m \in heldLists'
    BY <1>1, <1>2, <1>4
  <2> QED BY <1>1, <1>3, <1>6, <1>7, <1>8, <2>1, <2>2, Settled
<1>9. CASE ~InAList(c)
  <2> DEFINE x == DropFrame(c)
  <2>1. x.what = "drop" /\ x.obj = c /\ x.phase = "begin" /\ x.stack = <<>>
    BY DEF DropFrame
  <2>2. frames' = <<x>> /\ x \in Frame
    BY <1>1, <1>3, <1>5, <1>9
  <2>3. \A d \in alive' : (d \in held' \/ InAList(d)' <=> ~(x.what = "drop" /\ x.obj = d))
                            /\ listOf'[d] # NoList
    BY <1>1, <1>2, <1>4, <1>9, <2>1
  <2>4. \A m \in liveLists' : Owned(m)' \/ m \in heldLists' <=> ~(x.what = "list" /\ x.obj = m)
    BY <1>1, <1>2, <1>4, <2>1
  <2>5. c \in alive'
    BY <1>1, <1>2
  <2> HIDE DEF x
  <2> QED BY <1>6, <1>7, <2>1, <2>2, <2>3, <2>4, <2>5, Starting
<1> QED BY <1>8, <1>9

LEMMA ReleaseListStep == ASSUME Inv, NEW l \in Lists, ReleaseList(l) PROVE Inv'
<1>1. /\ frames = <<>> /\ l \in heldLists /\ heldLists' = heldLists \ {l}
      /\ frames' = IF ListRefs(l) = 1 THEN <<ListFrame(l)>> ELSE <<>>
      /\ UNCHANGED <<alive, liveLists, listOf, items, held>>
  BY DEF ReleaseList, heap
<1>2. /\ \A d \in alive : (d \in held \/ InAList(d)) /\ listOf[d] # NoList
      /\ \A m \in liveLists : Owned(m) \/ m \in heldLists
      /\ l \in liveLists
  BY <1>1, Quiet DEF Inv, NothingDangles
<1>3. ListRefs(l) = 1 <=> ~Owned(l)
  BY <1>1, ListCounted
<1>4. (\A y : InAList(y)' <=> InAList(y)) /\ (\A m : Owned(m)' <=> Owned(m))
  BY <1>1 DEF InAList, Owned
<1>5. ListFrame(l) \in Frame
  BY DEF ListFrame, Frame
<1>6. TypeOK'
  <2>1. frames' \in Seq(Frame)
    BY <1>1, <1>5
  <2> QED BY <1>1, <2>1 DEF Inv, TypeOK
<1>7. /\ held' \subseteq alive' /\ heldLists' \subseteq liveLists' /\ OwnList'
      /\ \A d \in Components : listOf'[d] # NoList => d \in alive' /\ listOf'[d] \in liveLists'
      /\ \A d \in Components : InAList(d)' => d \in alive'
      /\ \A d \in alive' : (d \in held' \/ InAList(d)') /\ listOf'[d] # NoList
  BY <1>1, <1>2, <1>4 DEF Inv, NothingDangles, OwnList, Referenced
<1>8. CASE Owned(l)
  <2>1. \A m \in liveLists' : Owned(m)' \/ m \in heldLists'
    BY <1>1, <1>2, <1>4, <1>8
  <2> QED BY <1>1, <1>3, <1>6, <1>7, <1>8, <2>1, Settled
<1>9. CASE ~Owned(l)
  <2> DEFINE x == ListFrame(l)
  <2>1. x.what = "list" /\ x.obj = l /\ x.stack = <<>>
    BY DEF ListFrame
  <2>2. frames' = <<x>> /\ x \in Frame /\ l \in liveLists'
    BY <1>1, <1>2, <1>3, <1>5, <1>9
  <2>3. \A m \in liveLists' : Owned(m)' \/ m \in heldLists' <=> ~(x.what = "list" /\ x.obj = m)
    BY <1>1, <1>2, <1>4, <1>9, <2>1
  <2> HIDE DEF x
  <2> QED BY <1>6, <1>7, <2>1, <2>2, <2>3, Starting
<1> QED BY <1>8, <1>9

LEMMA GetChildrenStep == ASSUME Inv, NEW c \in Components, GetChildren(c) PROVE Inv'
<1>1. /\ frames = <<>> /\ frames' = <<>> /\ c \in held /\ heldLists' = heldLists \cup {listOf[c]}
      /\ UNCHANGED <<alive, liveLists, listOf, items, held>>
  BY DEF GetChildren, heap
<1>2. /\ \A d \in alive : (d \in held \/ InAList(d)) /\ listOf[d] # NoList
      /\ \A m \in liveLists : Owned(m) \/ m \in heldLists
      /\ c \in alive
  BY <1>1, Quiet DEF Inv, NothingDangles
<1>3. listOf[c] \in Lists /\ listOf[c] \in liveLists
  BY <1>2, FieldShape
<1>4. (\A y : InAList(y)' <=> InAList(y)) /\ (\A m : Owned(m)' <=> Owned(m))
  BY <1>1 DEF InAList, Owned
<1>5. TypeOK'
  BY <1>1, <1>3 DEF Inv, TypeOK
<1>6. /\ held' \subseteq alive' /\ heldLists' \subseteq liveLists' /\ OwnList'
      /\ \A d \in Components : listOf'[d] # NoList => d \in alive' /\ listOf'[d] \in liveLists'
      /\ \A d \in Components : InAList(d)' => d \in alive'
      /\ \A d \in alive' : (d \in held' \/ InAList(d)') /\ listOf'[d] # NoList
      /\ \A m \in liveLists' : Owned(m)' \/ m \in heldLists'
  BY <1>1, <1>2, <1>3, <1>4 DEF Inv, NothingDangles, OwnList, Referenced
<1> QED BY <1>1, <1>5, <1>6, Settled

LEMMA GetChildStep == ASSUME Inv, NEW c \in Components, GetChild(c) PROVE Inv'
<1> DEFINE l == listOf[c]
<1>1. /\ frames = <<>> /\ frames' = <<>> /\ c \in held
      /\ \E i \in DOMAIN items[l] : held' = held \cup {items[l][i]}
      /\ UNCHANGED <<alive, liveLists, listOf, items, heldLists>>
  BY DEF GetChild, heap
<1>2. /\ \A d \in alive : (d \in held \/ InAList(d)) /\ listOf[d] # NoList
      /\ \A m \in liveLists : Owned(m) \/ m \in heldLists
      /\ c \in alive
  BY <1>1, Quiet DEF Inv, NothingDangles
<1>3. l \in liveLists /\ items[l] \in Seq(Components)
  BY <1>2, FieldShape
<1> HIDE DEF l
<1>4. PICK i \in DOMAIN items[l] : held' = held \cup {items[l][i]}
  BY <1>1
<1>5. items[l][i] \in Components /\ items[l][i] \in alive
  <2>1. items[l][i] \in Components /\ Referenced(items[l][i])
    BY <1>3 DEF Referenced, InAList
  <2> QED BY <2>1 DEF Inv, NothingDangles
<1>6. (\A y : InAList(y)' <=> InAList(y)) /\ (\A m : Owned(m)' <=> Owned(m))
  BY <1>1 DEF InAList, Owned
<1>7. TypeOK'
  BY <1>1, <1>4, <1>5 DEF Inv, TypeOK
<1>8. /\ held' \subseteq alive' /\ heldLists' \subseteq liveLists' /\ OwnList'
      /\ \A d \in Components : listOf'[d] # NoList => d \in alive' /\ listOf'[d] \in liveLists'
      /\ \A d \in Components : InAList(d)' => d \in alive'
      /\ \A d \in alive' : (d \in held' \/ InAList(d)') /\ listOf'[d] # NoList
      /\ \A m \in liveLists' : Owned(m)' \/ m \in heldLists'
  BY <1>1, <1>2, <1>4, <1>5, <1>6 DEF Inv, NothingDangles, OwnList, Referenced
<1> QED BY <1>1, <1>7, <1>8, Settled

LEMMA AppendItemStep ==
  ASSUME Inv, NEW l \in Lists, NEW c \in Components, AppendItem(l, c) PROVE Inv'
<1>1. /\ frames = <<>> /\ frames' = <<>> /\ l \in heldLists /\ c \in held
      /\ Len(items[l]) < MaxItems /\ items' = [items EXCEPT ![l] = Append(items[l], c)]
      /\ UNCHANGED <<alive, liveLists, listOf, held, heldLists>>
  BY DEF AppendItem
<1>2. /\ \A d \in alive : (d \in held \/ InAList(d)) /\ listOf[d] # NoList
      /\ \A m \in liveLists : Owned(m) \/ m \in heldLists
      /\ c \in alive /\ l \in liveLists
  BY <1>1, Quiet DEF Inv, NothingDangles
<1>3. /\ items \in [Lists -> Seq(Components)] /\ \A m \in Lists : Len(items[m]) <= MaxItems
      /\ liveLists \subseteq Lists
  BY DEF Inv, TypeOK
<1>4. /\ items'[l] \in Seq(Components) /\ Len(items'[l]) = Len(items[l]) + 1
      /\ DOMAIN items'[l] = 1..(Len(items[l]) + 1) /\ DOMAIN items[l] = 1..Len(items[l])
      /\ Len(items[l]) \in Nat
      /\ \A i \in DOMAIN items[l] : items'[l][i] = items[l][i]
      /\ items'[l][Len(items[l]) + 1] = c
      /\ \A m \in Lists : m # l => items'[m] = items[m]
      /\ items' \in [Lists -> Seq(Components)]
  <2>1. items[l] \in Seq(Components)
    BY <1>3
  <2>2. items'[l] = Append(items[l], c) /\ (\A m \in Lists : m # l => items'[m] = items[m])
    BY <1>1, <1>3
  <2>3. Append(items[l], c) \in Seq(Components)
    BY <2>1
  <2>4. items' \in [Lists -> Seq(Components)]
    BY <1>1, <1>3, <2>3
  <2> QED BY <2>1, <2>2, <2>4
<1>5. \A y : InAList(y)' <=> InAList(y) \/ y = c
  <2> TAKE y
  <2>1. ASSUME NEW m \in liveLists, NEW i \in DOMAIN items'[m], items'[m][i] = y
        PROVE  InAList(y) \/ y = c
    <3>1. CASE m # l
      BY <1>3, <1>4, <2>1, <3>1 DEF InAList
    <3>2. CASE m = l /\ i \in DOMAIN items[l]
      BY <1>4, <2>1, <3>2 DEF InAList
    <3>3. CASE m = l /\ i = Len(items[l]) + 1
      BY <1>4, <2>1, <3>3
    <3> QED BY <1>4, <2>1, <3>1, <3>2, <3>3
  <2>2. ASSUME NEW m \in liveLists, NEW i \in DOMAIN items[m], items[m][i] = y
        PROVE  InAList(y)'
    <3>1. CASE m = l
      <4>1. i \in DOMAIN items'[m] /\ items'[m][i] = y
        BY <1>4, <2>2, <3>1
      <4> QED BY <1>1, <4>1 DEF InAList
    <3>2. CASE m # l
      <4>1. items'[m] = items[m]
        BY <1>3, <1>4, <3>2
      <4> QED BY <1>1, <2>2, <4>1 DEF InAList
    <3> QED BY <3>1, <3>2
  <2>3. InAList(c)'
    <3>1. Len(items[l]) + 1 \in DOMAIN items'[l]
      BY <1>4
    <3> QED BY <1>1, <1>2, <1>4, <3>1 DEF InAList
  <2>4. InAList(y)' <=> \E m \in liveLists : \E i \in DOMAIN items'[m] : items'[m][i] = y
    BY <1>1 DEF InAList
  <2> QED BY <2>1, <2>2, <2>3, <2>4 DEF InAList
<1>6. \A m : Owned(m)' <=> Owned(m)
  BY <1>1 DEF Owned
<1>7. TypeOK'
  <2>1. \A m \in Lists : Len(items'[m]) <= MaxItems
    BY <1>1, <1>3, <1>4, ObjectsAssumption
  <2> QED BY <1>1, <1>4, <2>1 DEF Inv, TypeOK
<1>8. /\ held' \subseteq alive' /\ heldLists' \subseteq liveLists' /\ OwnList'
      /\ \A d \in Components : listOf'[d] # NoList => d \in alive' /\ listOf'[d] \in liveLists'
      /\ \A d \in Components : InAList(d)' => d \in alive'
      /\ \A d \in alive' : (d \in held' \/ InAList(d)') /\ listOf'[d] # NoList
      /\ \A m \in liveLists' : Owned(m)' \/ m \in heldLists'
  BY <1>1, <1>2, <1>5, <1>6 DEF Inv, NothingDangles, OwnList, Referenced
<1> QED BY <1>1, <1>7, <1>8, Settled

-----------------------------------------------------------------------------
(* The invariant, and what follows from it. *)

LEMMA Initially == Init => Inv
<1> SUFFICES ASSUME Init PROVE Inv
  OBVIOUS
<1>1. DOMAIN frames = {} /\ Len(frames) = 0 /\ frames = <<>>
  BY DEF Init
<1>2. TypeOK
  <2>1. \A l \in Lists : items[l] = <<>> /\ Len(items[l]) <= MaxItems
    BY ObjectsAssumption DEF Init
  <2> QED BY <1>1, <2>1 DEF Init, TypeOK
<1>3. \A c : ~InAList(c) /\ ~OnAStack(c) /\ ~Dying(c) /\ ~DyingList(c)
  BY <1>1 DEF Init, InAList, OnAStack, Dying, DyingList
<1>4. NothingDangles /\ OwnList /\ Counted /\ Fields
  BY <1>1, <1>3 DEF Init, NothingDangles, OwnList, Counted, Fields, Referenced
<1>5. Shape
  <2>1. Base = 0
    BY <1>1 DEF Base
  <2> QED BY <1>1, <2>1 DEF Shape
<1> QED BY <1>2, <1>4, <1>5 DEF Inv

LEMMA Kept == Inv /\ [Next]_vars => Inv'
<1> SUFFICES ASSUME Inv, [Next]_vars PROVE Inv'
  OBVIOUS
<1>1. CASE Dealloc
  BY <1>1, DropBeginStep, DropChildStep, DropFieldStep, DropFreeStep, ListItemStep, ListFreeStep
     DEF Dealloc
<1>2. CASE Python
  BY <1>2, NewStep, SetChildrenStep, GetChildrenStep, GetChildStep, ReleaseStep, ReleaseListStep,
     AppendItemStep DEF Python
<1>3. CASE UNCHANGED vars
  BY <1>3 DEF vars, heap, Inv, TypeOK, NothingDangles, OwnList, Counted, Fields, Shape, Base, Emptied,
    Referenced, InAList, OnAStack, Dying, DyingList, Owned, IsDrop, IsList
<1> QED BY <1>1, <1>2, <1>3 DEF Next

LEMMA Invariance == Spec => []Inv
BY Initially, Kept, PTL DEF Spec

\* Whatever Python does, the heap and the stack of deallocations keep their
\* shape: what is referred to is allocated, and every frame is one of the
\* phases of a deallocation.
THEOREM TypeCorrect == Spec => []TypeOK
<1>1. Inv => TypeOK
  BY DEF Inv
<1> QED BY <1>1, Invariance, PTL

\* Deallocating takes no more than four frames, however deep the tree.
THEOREM FramesBounded == Spec => []StackBounded
<1>1. Inv => StackBounded
  <2> SUFFICES ASSUME Inv PROVE StackBounded
    OBVIOUS
  <2>1. Len(frames) \in Nat
    BY DEF Inv, TypeOK
  <2>2. Base \in 0..1 /\ Len(frames) <= Base + 3
    BY DEF Base, Inv, Shape
  <2> QED BY <2>1, <2>2 DEF StackBounded
<1> QED BY <1>1, Invariance, PTL

-----------------------------------------------------------------------------
(* What is below a component, and what Python can get at. *)

LEMMA ChildOf ==
  ASSUME NEW cs, NEW x
  PROVE  x \in Children(cs) <=>
           \E d \in cs : listOf[d] # NoList
             /\ \E i \in DOMAIN items[listOf[d]] : items[listOf[d]][i] = x
BY DEF Children

LEMMA ChildrenGrow ==
  ASSUME NEW cs, NEW ds, cs \subseteq ds
  PROVE  Children(cs) \subseteq Children(ds)
<1> SUFFICES ASSUME NEW x \in Children(cs) PROVE x \in Children(ds)
  OBVIOUS
<1>1. PICK d \in cs : listOf[d] # NoList
        /\ \E i \in DOMAIN items[listOf[d]] : items[listOf[d]][i] = x
  BY ChildOf
<1>2. d \in ds
  OBVIOUS
<1> QED BY <1>1, <1>2, ChildOf

LEMMA ChildrenType ==
  ASSUME Inv, NEW cs \in SUBSET Components
  PROVE  Children(cs) \subseteq Components
<1> SUFFICES ASSUME NEW x \in Children(cs) PROVE x \in Components
  OBVIOUS
<1>1. PICK d \in cs : listOf[d] # NoList
        /\ \E i \in DOMAIN items[listOf[d]] : items[listOf[d]][i] = x
  BY ChildOf
<1>2. items[listOf[d]] \in Seq(Components)
  BY <1>1, FieldShape
<1> QED BY <1>1, <1>2

LEMMA BelowLeast ==
  ASSUME NEW cs, NEW S \in SUBSET Components, cs \subseteq S, Children(S) \subseteq S
  PROVE  Below(cs) \subseteq S
BY DEF Below

LEMMA BelowClosed ==
  ASSUME Inv, NEW cs \in SUBSET Components
  PROVE  /\ Below(cs) \in SUBSET Components
         /\ cs \subseteq Below(cs)
         /\ Children(Below(cs)) \subseteq Below(cs)
<1>1. Below(cs) \in SUBSET Components /\ cs \subseteq Below(cs)
  BY DEF Below
<1>2. ASSUME NEW x \in Children(Below(cs)) PROVE x \in Below(cs)
  <2>1. x \in Components
    BY <1>1, ChildrenType
  <2>2. ASSUME NEW S \in SUBSET Components, cs \subseteq S, Children(S) \subseteq S PROVE x \in S
    <3>1. Below(cs) \subseteq S
      BY <2>2, BelowLeast
    <3>2. Children(Below(cs)) \subseteq Children(S)
      BY <3>1, ChildrenGrow
    <3> QED BY <2>2, <3>2
  <2> QED BY <2>1, <2>2 DEF Below
<1> QED BY <1>1, <1>2

LEMMA BelowGrows ==
  ASSUME Inv, NEW cs \in SUBSET Components, NEW ds, ds \subseteq Below(cs)
  PROVE  Below(ds) \subseteq Below(cs)
BY BelowClosed, BelowLeast

Roots == held \cup UNION {{items[l][i] : i \in DOMAIN items[l]} : l \in heldLists}

\* Python gets at components with a reference in Python or in a list only.
LEMMA ObservedShape ==
  ASSUME Inv
  PROVE  /\ Roots \in SUBSET Components /\ Observed = Below(Roots)
         /\ \A c \in Observed : /\ c \in alive /\ (c \in held \/ InAList(c))
                                /\ ~Dying(c) /\ listOf[c] # NoList
<1> DEFINE A == {c \in alive : c \in held \/ InAList(c)}
<1>1. /\ alive \subseteq Components /\ held \subseteq alive /\ heldLists \subseteq liveLists
      /\ liveLists \subseteq Lists /\ items \in [Lists -> Seq(Components)]
  BY DEF Inv, TypeOK, NothingDangles
<1>2. ASSUME NEW l \in liveLists, NEW i \in DOMAIN items[l] PROVE items[l][i] \in A
  <2>1. items[l][i] \in Components
    BY <1>1
  <2>2. InAList(items[l][i])
    BY DEF InAList
  <2>3. items[l][i] \in alive
    BY <2>1, <2>2 DEF Inv, NothingDangles, Referenced
  <2> QED BY <2>2, <2>3
<1>3. Roots \subseteq A
  <2>1. ASSUME NEW x \in Roots, x \notin held PROVE x \in A
    <3>1. PICK l \in heldLists : \E i \in DOMAIN items[l] : items[l][i] = x
      BY <2>1 DEF Roots
    <3>2. l \in liveLists
      BY <1>1
    <3> QED BY <1>2, <3>1, <3>2
  <2> QED BY <1>1, <2>1
<1>4. Children(A) \subseteq A
  <2> SUFFICES ASSUME NEW x \in Children(A) PROVE x \in A
    OBVIOUS
  <2>1. PICK d \in A : listOf[d] # NoList
          /\ \E i \in DOMAIN items[listOf[d]] : items[listOf[d]][i] = x
    BY ChildOf
  <2>2. listOf[d] \in liveLists
    BY <1>1, <2>1 DEF Inv, NothingDangles
  <2> HIDE DEF A
  <2> QED BY <1>2, <2>1, <2>2
<1>5. A \in SUBSET Components
  BY <1>1
<1>6. Observed = Below(Roots)
  BY DEF Observed, Roots
<1>7. Observed \subseteq A
  <2> HIDE DEF A
  <2> QED BY <1>3, <1>4, <1>5, <1>6, BelowLeast
<1>8. \A c \in A : ~Dying(c) /\ listOf[c] # NoList
  BY DEF Inv, Counted, Fields, Referenced
<1> QED BY <1>3, <1>5, <1>6, <1>7, <1>8

\* Deallocating changes only a list that Python does not hold, and that belongs
\* to no component or to one that Python does not get at.
LEMMA ChangesUnobserved ==
  ASSUME Inv, Dealloc
  PROVE  \A l \in ObservedLists : items'[l] = items[l]
<1> SUFFICES ASSUME NEW l \in ObservedLists, items'[l] # items[l] PROVE FALSE
  OBVIOUS
<1>0. /\ items \in [Lists -> Seq(Components)] /\ heldLists \subseteq Lists
      /\ listOf \in [Components -> Lists \cup {NoList}]
  BY DEF Inv, TypeOK
<1>1. /\ l \in heldLists \/ \E c \in Observed : listOf[c] = l
      /\ \A c \in Observed : /\ c \in Components /\ c \in alive /\ (c \in held \/ InAList(c))
                             /\ ~Dying(c) /\ listOf[c] # NoList
  <2>1. l \in heldLists \/ \E c \in Observed : listOf[c] = l
    BY DEF ObservedLists
  <2> QED BY <2>1, ObservedShape DEF Inv, TypeOK
<1>2. ASSUME NEW c \in Components, listOf[c] # NoList, items' = Steal(listOf[c]).items
      PROVE  l = listOf[c] /\ l \notin heldLists
  <2>1. ListRefs(listOf[c]) = 1 /\ l = listOf[c]
    BY <1>0, <1>2 DEF Steal
  <2> QED BY <1>2, <2>1, FieldShape
<1>3. ASSUME NEW c \in Components, listOf[c] # NoList, items' = Steal(listOf[c]).items
      PROVE  c \in Observed
  <2>1. l = listOf[c] /\ l \notin heldLists
    BY <1>2, <1>3
  <2> QED BY <1>1, <1>3, <2>1 DEF Inv, OwnList
<1>4. CASE DropBegin
  <2>1. /\ frames # <<>> /\ Top.what = "drop" /\ Top.phase = "begin"
        /\ items' = Steal(listOf[Top.obj]).items
    BY <1>4 DEF DropBegin, InDrop
  <2>2. Top.obj \in Components /\ Dying(Top.obj) /\ listOf[Top.obj] # NoList
    BY <2>1, TopShape DEF Inv, Fields
  <2>3. Top.obj \in Observed
    BY <1>3, <2>1, <2>2
  <2> QED BY <1>1, <2>2, <2>3
<1>5. CASE DropChild
  <2> DEFINE obj == Last(Top.stack)
             k == Len(Top.stack)
             n == Len(frames)
  <2>1. frames # <<>> /\ Top.what = "drop" /\ Top.stack # <<>>
    BY <1>5 DEF DropChild, InDrop
  <2>2. items' = IF Py_REFCNT(obj) = 1 THEN Steal(listOf[obj]).items ELSE items
    BY <1>5 DEF DropChild
  <2>3. Py_REFCNT(obj) = 1 /\ items' = Steal(listOf[obj]).items
    BY <2>2
  <2>4. /\ obj \in Components /\ Top.stack[k] = obj /\ k \in DOMAIN Top.stack
        /\ n \in DOMAIN frames /\ Top = frames[n]
    BY <2>1, TopShape, Popped
  <2>5. obj \notin held /\ ~InAList(obj)
    <3> HIDE DEF obj, k, n
    <3> QED BY <2>3, <2>4, StackReference
  <2>6. listOf[obj] # NoList
    <3>1. OnAStack(obj)
      BY <2>4 DEF OnAStack
    <3>2. obj \in alive /\ ~Dying(obj)
      BY <2>4, <3>1 DEF Inv, NothingDangles, Counted, Referenced
    <3> QED BY <3>2 DEF Inv, Fields
  <2>7. obj \in Observed
    <3> HIDE DEF obj, k, n
    <3> QED BY <1>3, <2>3, <2>4, <2>6
  <2> QED BY <1>1, <2>5, <2>7
<1>6. CASE ListItem
  <2>1. /\ frames # <<>> /\ Top.what = "list"
        /\ items' = [items EXCEPT ![Top.obj] = Front(items[Top.obj])]
    BY <1>6 DEF ListItem
  <2>2. l = Top.obj
    BY <1>0, <2>1
  <2>3. ~Owned(l) /\ l \notin heldLists
    BY <2>1, <2>2, TopShape
  <2> QED BY <1>1, <2>3 DEF Owned
<1>7. CASE DropField \/ DropFree \/ ListFree
  BY <1>7 DEF DropField, DropFree, ListFree
<1> QED BY <1>4, <1>5, <1>6, <1>7 DEF Dealloc

\* Taking a tree apart changes no list that Python can get at, be it one that it
\* holds or one of a component it can reach: "Shared lists/children are left
\* untouched -- someone else still observes them".
THEOREM SharedUntouched == Spec => ObservedUntouched
<1> DEFINE Kept1 == frames # <<>> => \A l \in ObservedLists : items'[l] = items[l]
<1>1. Inv /\ [Next]_vars => [Kept1]_vars
  <2> SUFFICES ASSUME Inv, Next PROVE Kept1
    OBVIOUS
  <2>1. CASE Dealloc
    BY <2>1, ChangesUnobserved
  <2>2. CASE Python
    BY <2>2 DEF Python, New, SetChildren, GetChildren, GetChild, Release, ReleaseList, AppendItem
  <2> QED BY <2>1, <2>2 DEF Next
<1> HIDE DEF Kept1
<1>2. Spec => [][Kept1]_vars
  BY <1>1, Invariance, PTL DEF Spec
<1> QED BY <1>2 DEF ObservedUntouched, Kept1

-----------------------------------------------------------------------------
(* What stays behind. *)

Lost == alive \ Observed
Ancestors(c) == {d \in Lost : c \in Below({d})}

\* Between deallocations, what Python cannot get at is a child of something else
\* that it cannot get at.
LEMMA LostParent ==
  ASSUME Inv, frames = <<>>, NEW c \in Lost
  PROVE  \E p \in Lost : c \in Children({p})
<1>0. /\ alive \subseteq Components /\ held \subseteq alive /\ liveLists \subseteq Lists
      /\ c \in alive /\ c \in Components /\ c \notin Observed
  BY DEF Inv, TypeOK, NothingDangles, Lost
<1>1. /\ Roots \subseteq Observed /\ Children(Observed) \subseteq Observed
      /\ Observed \in SUBSET Components
  BY ObservedShape, BelowClosed
<1>2. c \notin held
  BY <1>0, <1>1 DEF Roots
<1>3. PICK l \in liveLists : \E i \in DOMAIN items[l] : items[l][i] = c
  BY <1>0, <1>2, Quiet DEF InAList
<1>4. l \notin heldLists
  BY <1>0, <1>1, <1>3 DEF Roots
<1>5. PICK p \in Components : listOf[p] = l
  BY <1>3, <1>4, Quiet DEF Owned
<1>6. l # NoList
  BY <1>0, <1>3, ObjectsAssumption
<1>7. c \in Children({p})
  BY <1>3, <1>5, <1>6, ChildOf
<1>8. p \notin Observed
  <2>1. ASSUME p \in Observed PROVE FALSE
    <3>1. Children({p}) \subseteq Children(Observed)
      BY <2>1, ChildrenGrow
    <3> QED BY <1>0, <1>1, <1>7, <3>1
  <2> QED BY <2>1
<1>9. p \in alive
  BY <1>5, <1>6, FieldShape
<1> QED BY <1>7, <1>8, <1>9 DEF Lost

LEMMA AncestorsShape ==
  ASSUME Inv
  PROVE  /\ Lost \in SUBSET Components
         /\ \A c \in Lost : c \in Ancestors(c) /\ Ancestors(c) \in SUBSET Lost
                            /\ IsFiniteSet(Ancestors(c)) /\ Cardinality(Ancestors(c)) \in Nat
         /\ \A c, d \in Lost : d \in Ancestors(c) => Ancestors(d) \subseteq Ancestors(c)
<1>1. Lost \in SUBSET Components
  BY DEF Lost, Inv, TypeOK
<1>2. \A d \in Lost : {d} \in SUBSET Components
  BY <1>1
<1>3. ASSUME NEW c \in Lost
      PROVE  c \in Ancestors(c) /\ Ancestors(c) \in SUBSET Lost
             /\ IsFiniteSet(Ancestors(c)) /\ Cardinality(Ancestors(c)) \in Nat
  <2>1. c \in Ancestors(c)
    BY <1>2, BelowClosed DEF Ancestors
  <2>2. Ancestors(c) \in SUBSET Lost
    BY DEF Ancestors
  <2>3. IsFiniteSet(Ancestors(c))
    <3>1. Ancestors(c) \in SUBSET Components
      BY <1>1, <2>2
    <3> QED BY <3>1, ObjectsAssumption, FS_Subset
  <2> QED BY <2>1, <2>2, <2>3, FS_CardinalityType
<1>4. ASSUME NEW c \in Lost, NEW d \in Ancestors(c), NEW e \in Ancestors(d)
      PROVE  e \in Ancestors(c)
  <2>1. d \in Below({e}) /\ c \in Below({d}) /\ e \in Lost
    BY DEF Ancestors
  <2>2. Below({d}) \subseteq Below({e})
    BY <1>2, <2>1, BelowGrows
  <2> QED BY <2>1, <2>2 DEF Ancestors
<1> QED BY <1>1, <1>3, <1>4

\* Once a deallocation is over, all that is still allocated and out of Python's
\* reach hangs off a cycle of components: Drop frees everything else.
THEOREM LeaksAreCycles == Spec => []OnlyCyclesLeak
<1>1. ASSUME Inv, frames = <<>>, NEW c \in Lost
      PROVE  \E d \in Lost : c \in Below({d}) /\ d \in Below(Children({d}))
  <2> DEFINE size(d) == Cardinality(Ancestors(d))
             sizes == {size(d) : d \in Ancestors(c)}
  <2>1. /\ Lost \in SUBSET Components
        /\ \A d \in Lost : d \in Ancestors(d) /\ Ancestors(d) \in SUBSET Lost
                           /\ IsFiniteSet(Ancestors(d)) /\ Cardinality(Ancestors(d)) \in Nat
        /\ \A d, e \in Lost : e \in Ancestors(d) => Ancestors(e) \subseteq Ancestors(d)
    BY <1>1, AncestorsShape
  \* An ancestor with the fewest ancestors, and its parent.
  <2>2. PICK d \in Ancestors(c) : \A e \in Ancestors(c) : size(d) <= size(e)
    <3>1. c \in Ancestors(c) /\ \A d \in Ancestors(c) : size(d) \in Nat
      BY <1>1, <2>1
    <3>2. sizes \in SUBSET Nat /\ sizes # {}
      <4> HIDE DEF size
      <4> QED BY <3>1
    <3>3. PICK m \in sizes : \A n \in sizes : m <= n
      <4> HIDE DEF sizes
      <4> QED BY <3>2, Least
    <3> HIDE DEF size
    <3> QED BY <3>3
  <2>3. d \in Lost
    BY <1>1, <2>1
  <2>4. PICK p \in Lost : d \in Children({p})
    BY <1>1, <2>3, LostParent
  <2>5. {p} \in SUBSET Components /\ {d} \in SUBSET Components
    BY <2>1, <2>3
  <2>6. Children({p}) \in SUBSET Components
    BY <1>1, <2>5, ChildrenType
  <2>7. d \in Below({p})
    <3>1. {p} \subseteq Below({p}) /\ Children(Below({p})) \subseteq Below({p})
      BY <1>1, <2>5, BelowClosed
    <3>2. Children({p}) \subseteq Children(Below({p}))
      BY <3>1, ChildrenGrow
    <3> QED BY <2>4, <3>1, <3>2
  <2>8. p \in Ancestors(d)
    BY <2>7 DEF Ancestors
  <2>9. p \in Ancestors(c)
    BY <1>1, <2>1, <2>3, <2>8
  <2>10. d \in Ancestors(p)
    <3>1. Ancestors(p) \in SUBSET Ancestors(d)
      BY <2>1, <2>3, <2>8
    <3>2. Cardinality(Ancestors(d)) <= Cardinality(Ancestors(p))
      BY <2>2, <2>9
    <3>3. IsFiniteSet(Ancestors(d)) /\ Cardinality(Ancestors(d)) \in Nat
          /\ Cardinality(Ancestors(p)) \in Nat
      BY <2>1, <2>3
    <3>4. Cardinality(Ancestors(p)) <= Cardinality(Ancestors(d))
          /\ (Cardinality(Ancestors(p)) = Cardinality(Ancestors(d)) => Ancestors(p) = Ancestors(d))
      BY <3>1, <3>3, FS_Subset
    <3>5. Ancestors(p) = Ancestors(d)
      BY <3>2, <3>3, <3>4
    <3> QED BY <2>1, <2>3, <3>5
  <2>11. p \in Below({d})
    BY <2>10 DEF Ancestors
  <2>12. Below({d}) \subseteq Below(Children({p}))
    <3>1. {d} \subseteq Below(Children({p}))
      BY <1>1, <2>4, <2>6, BelowClosed
    <3> QED BY <1>1, <2>6, <3>1, BelowGrows
  <2>13. c \in Below({p})
    BY <2>9 DEF Ancestors
  <2> QED BY <2>11, <2>12, <2>13
<1>2. Inv => OnlyCyclesLeak
  BY <1>1 DEF OnlyCyclesLeak, Lost
<1> QED BY <1>2, Invariance, PTL
=============================================================================
