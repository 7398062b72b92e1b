--------------------------- MODULE ComponentDrop ---------------------------
(***************************************************************************)
(* crates/vobject-py/src/lib.rs: Component objects as Python sees them.    *)
(* Each owns a Python list of children, which Python can hold and mutate,  *)
(* and children can be shared, repeated or even contain themselves.  When  *)
(* the last reference to a component goes, its Drop takes the tree below   *)
(* apart with a stack of its own, by the reference counts, so that nested  *)
(* deallocations do not pile up on the C stack.                            *)
(*                                                                         *)
(* Deallocation is a machine with a stack of C frames; Python runs between *)
(* deallocations.  Children that are properties are left out.  In between   *)
(* Python may also compare components and have them turned into the core's *)
(* trees, walks that have to be cut off, as children can hold themselves.  *)
(***************************************************************************)
EXTENDS Integers, Sequences, FiniteSets, SequencesExt

CONSTANTS
  Components, Lists,  \* the objects that can be allocated: numbers
  MaxItems,           \* bound: the longest child list
  MaxHeldLists,       \* bound: how many lists Python holds at a time
  Renamed,            \* the components with another name than the rest
  MAX_TREE_DEPTH

NoList == 0

VARIABLES
  alive, liveLists,   \* the objects not yet freed
  listOf,             \* a component's field `children`
  items,              \* a list's elements
  held, heldLists,    \* what Python variables refer to
  frames              \* the C stack: deallocations under way, innermost last
heap == <<alive, liveLists, listOf, items>>
vars == <<heap, held, heldLists, frames>>

ASSUME ObjectsAssumption ==
  /\ Components \subseteq Nat /\ IsFiniteSet(Components)
  /\ Lists \subseteq Nat \ {NoList} /\ IsFiniteSet(Lists)
  /\ MaxItems \in Nat /\ MaxHeldLists \in Nat
  /\ Renamed \subseteq Components /\ MAX_TREE_DEPTH \in Nat \ {0}

-----------------------------------------------------------------------------
(* Reference counts. *)

B2N(b) == IF b THEN 1 ELSE 0

\* The places in lists, and on the stacks of Drop, that refer to a component.
InLists(c) ==
  {p \in liveLists \X (1..MaxItems) :
     p[2] \in DOMAIN items[p[1]] /\ items[p[1]][p[2]] = c}
OnStacks(c) ==
  UNION {{<<f, i>> : i \in {j \in DOMAIN frames[f].stack : frames[f].stack[j] = c}} :
           f \in DOMAIN frames}

Py_REFCNT(c) == B2N(c \in held) + Cardinality(InLists(c)) + Cardinality(OnStacks(c))

ListRefs(l) == Cardinality({c \in alive : listOf[c] = l}) + B2N(l \in heldLists)

-----------------------------------------------------------------------------
(* Deallocation. *)

DropFrame(c) == [what |-> "drop", obj |-> c, phase |-> "begin", stack |-> <<>>]
ListFrame(l) == [what |-> "list", obj |-> l, phase |-> "loop", stack |-> <<>>]

Top == Last(frames)
InDrop(phase) == frames # <<>> /\ Top.what = "drop" /\ Top.phase = phase

\* steal: take the children of a list that nothing else refers to.
Steal_Always(l) == [taken |-> items[l], items |-> [items EXCEPT ![l] = <<>>]]
Steal_Nothing(l) == [taken |-> <<>>, items |-> items]
Steal(l) ==
  IF ListRefs(l) = 1
    THEN [taken |-> items[l], items |-> [items EXCEPT ![l] = <<>>]]
    ELSE [taken |-> <<>>, items |-> items]

DropBegin ==
  LET stolen == Steal(listOf[Top.obj]) IN
  /\ InDrop("begin")
  /\ items' = stolen.items
  /\ frames' = Append(Front(frames), [Top EXCEPT !.phase = "loop", !.stack = stolen.taken])
  /\ UNCHANGED <<alive, liveLists, listOf, held, heldLists>>

\* Drop's loop: steal from a component that only the stack refers to, then let
\* go of it, which deallocates it.
DropChild_Leaks ==
  LET obj == Last(Top.stack)
      stolen == IF Py_REFCNT(obj) = 1 THEN Steal(listOf[obj])
                                      ELSE [taken |-> <<>>, items |-> items]
  IN
  /\ InDrop("loop") /\ Top.stack # <<>>
  /\ items' = stolen.items
  /\ frames' = Append(Front(frames), [Top EXCEPT !.stack = Front(@) \o stolen.taken])
  /\ UNCHANGED <<alive, liveLists, listOf, held, heldLists>>
DropChild_Peeks ==
  LET obj == Last(Top.stack)
      stolen == IF Py_REFCNT(obj) = 1 THEN Steal(listOf[obj])
                                      ELSE [taken |-> <<>>, items |-> items]
  IN
  /\ InDrop("loop") /\ Top.stack # <<>>
  /\ items' = stolen.items
  /\ frames' = Append(Front(frames), [Top EXCEPT !.stack = @ \o stolen.taken])
  /\ UNCHANGED <<alive, liveLists, listOf, held, heldLists>>
DropChild ==
  LET obj == Last(Top.stack)
      last == Py_REFCNT(obj) = 1
      stolen == IF last THEN Steal(listOf[obj]) ELSE [taken |-> <<>>, items |-> items]
      rest == Append(Front(frames), [Top EXCEPT !.stack = Front(@) \o stolen.taken])
  IN
  /\ InDrop("loop") /\ Top.stack # <<>>
  /\ items' = stolen.items
  /\ frames' = IF last THEN Append(rest, DropFrame(obj)) ELSE rest
  /\ UNCHANGED <<alive, liveLists, listOf, held, heldLists>>

\* After drop() its field goes, and with the last reference the list.
DropField ==
  LET l == listOf[Top.obj]
      rest == Append(Front(frames), [Top EXCEPT !.phase = "free"])
  IN
  /\ InDrop("loop") /\ Top.stack = <<>>
  /\ listOf' = [listOf EXCEPT ![Top.obj] = NoList]
  /\ frames' = IF ListRefs(l) = 1 THEN Append(rest, ListFrame(l)) ELSE rest
  /\ UNCHANGED <<alive, liveLists, items, held, heldLists>>

DropFree ==
  /\ InDrop("free")
  /\ alive' = alive \ {Top.obj}
  /\ frames' = Front(frames)
  /\ UNCHANGED <<liveLists, listOf, items, held, heldLists>>

\* CPython's list deallocation lets go of the elements from the end.
ListItem ==
  LET l == Top.obj IN
  /\ frames # <<>> /\ Top.what = "list" /\ items[l] # <<>>
  /\ items' = [items EXCEPT ![l] = Front(@)]
  /\ frames' = IF Py_REFCNT(Last(items[l])) = 1
                 THEN Append(frames, DropFrame(Last(items[l]))) ELSE frames
  /\ UNCHANGED <<alive, liveLists, listOf, held, heldLists>>

ListFree ==
  /\ frames # <<>> /\ Top.what = "list" /\ items[Top.obj] = <<>>
  /\ liveLists' = liveLists \ {Top.obj}
  /\ frames' = Front(frames)
  /\ UNCHANGED <<alive, listOf, items, held, heldLists>>

Dealloc ==
  DropBegin \/ DropChild \/ DropField \/ DropFree \/ ListItem \/ ListFree

-----------------------------------------------------------------------------
(* Comparison and conversion. *)

ChildList(c) == items[listOf[c]]

TooDeep_OffByOne(depth) == depth > MAX_TREE_DEPTH
TooDeep(depth) == depth >= MAX_TREE_DEPTH

SameShape_Zipped(a, b) == a \in Renamed <=> b \in Renamed
SameShape(a, b) ==
  (a \in Renamed <=> b \in Renamed) /\ Len(ChildList(a)) = Len(ChildList(b))

\* eq_at: children are compared in order, up to the first that differ or raise.
EqAt[a \in Components, b \in Components, depth \in Nat] ==
  LET zip == DOMAIN ChildList(a) \cap DOMAIN ChildList(b)
      Compared(i) == EqAt[ChildList(a)[i], ChildList(b)[i], depth + 1]
      unlike == {i \in zip : Compared(i) # "same"}
  IN  IF TooDeep(depth) THEN "raises"
      ELSE IF ~SameShape(a, b) THEN "different"
      ELSE IF unlike = {} THEN "same" ELSE Compared(Min(unlike))

\* py_to_component_at: the tree, or nothing when it raises.
ToCore[c \in Components, depth \in Nat] ==
  LET below == [i \in DOMAIN ChildList(c) |-> ToCore[ChildList(c)[i], depth + 1]]
  IN  IF TooDeep(depth) \/ \E i \in DOMAIN below : below[i] = {} THEN {}
      ELSE {<<c \in Renamed, [i \in DOMAIN below |-> CHOOSE t \in below[i] : TRUE]>>}

-----------------------------------------------------------------------------
(* What Python does in between. *)

Lowest(S) == CHOOSE x \in S : \A y \in S : x <= y
FreshComponents == Components \ alive
FreshLists == Lists \ liveLists

ChildSeqs == UNION {[1..n -> held] : n \in 0..MaxItems}

\* Component(name, children): the children are copied to a list of its own.
New(children) ==
  LET c == Lowest(FreshComponents)
      l == Lowest(FreshLists)
  IN
  /\ frames = <<>> /\ FreshComponents # {} /\ FreshLists # {}
  /\ alive' = alive \cup {c} /\ liveLists' = liveLists \cup {l}
  /\ listOf' = [listOf EXCEPT ![c] = l]
  /\ items' = [items EXCEPT ![l] = children]
  /\ held' = held \cup {c}
  /\ UNCHANGED <<heldLists, frames>>

\* c.children: the live list.
GetChildren(c) ==
  /\ frames = <<>> /\ c \in held /\ Cardinality(heldLists) < MaxHeldLists
  /\ heldLists' = heldLists \cup {listOf[c]}
  /\ UNCHANGED <<heap, held, frames>>

\* c.children = children: a fresh list again; the old one may go.
SetChildren(c, children) ==
  LET old == listOf[c]
      l == Lowest(FreshLists)
  IN
  /\ frames = <<>> /\ c \in held /\ FreshLists # {}
  /\ liveLists' = liveLists \cup {l}
  /\ listOf' = [listOf EXCEPT ![c] = l]
  /\ items' = [items EXCEPT ![l] = children]
  /\ frames' = IF ListRefs(old) = 1 THEN <<ListFrame(old)>> ELSE <<>>
  /\ UNCHANGED <<alive, held, heldLists>>

\* c.components() hands out the children.
GetChild(c) ==
  /\ frames = <<>> /\ c \in held
  /\ \E i \in DOMAIN items[listOf[c]] : held' = held \cup {items[listOf[c]][i]}
  /\ UNCHANGED <<heap, heldLists, frames>>

\* list.append, of a live list.
AppendItem(l, c) ==
  /\ frames = <<>> /\ l \in heldLists /\ c \in held /\ Len(items[l]) < MaxItems
  /\ items' = [items EXCEPT ![l] = Append(@, c)]
  /\ UNCHANGED <<alive, liveLists, listOf, held, heldLists, frames>>

Release(c) ==
  /\ frames = <<>> /\ c \in held
  /\ held' = held \ {c}
  /\ frames' = IF Py_REFCNT(c) = 1 THEN <<DropFrame(c)>> ELSE <<>>
  /\ UNCHANGED <<heap, heldLists>>

ReleaseList(l) ==
  /\ frames = <<>> /\ l \in heldLists
  /\ heldLists' = heldLists \ {l}
  /\ frames' = IF ListRefs(l) = 1 THEN <<ListFrame(l)>> ELSE <<>>
  /\ UNCHANGED <<heap, held>>

Python ==
  \/ \E s \in ChildSeqs : New(s) \/ (\E c \in Components : SetChildren(c, s))
  \/ \E c \in Components : GetChildren(c) \/ GetChild(c) \/ Release(c)
  \/ \E l \in Lists : ReleaseList(l) \/ (\E c \in Components : AppendItem(l, c))

Init ==
  /\ alive = {} /\ liveLists = {} /\ held = {} /\ heldLists = {}
  /\ listOf = [c \in Components |-> NoList]
  /\ items = [l \in Lists |-> <<>>]
  /\ frames = <<>>

Next == Dealloc \/ Python

\* A deallocation runs to its end.
Spec == Init /\ [][Next]_vars /\ WF_vars(Dealloc)

-----------------------------------------------------------------------------
(* Properties. *)

Children(cs) ==
  UNION {{items[listOf[c]][i] : i \in DOMAIN items[listOf[c]]} :
           c \in {d \in cs : listOf[d] # NoList}}

\* The components below a set of components, itself included: those in every set
\* that holds it and the children of its members.
Below(cs) ==
  {c \in Components :
     \A S \in SUBSET Components : cs \subseteq S /\ Children(S) \subseteq S => c \in S}

\* What Python can get at.
Observed ==
  Below(held \cup UNION {{items[l][i] : i \in DOMAIN items[l]} : l \in heldLists})
ObservedLists == heldLists \cup {listOf[c] : c \in Observed}

\* "Shared lists/children (refcount > 1) are left untouched -- someone else
\* still observes them": deallocating changes no list that Python can get at.
ObservedUntouched ==
  [][frames # <<>> => \A l \in ObservedLists : items'[l] = items[l]]_vars

\* However deep a tree is, deallocating it takes no more than four frames: a
\* list, a component, one below it and that one's list.
StackBounded == Len(frames) <= 4

\* Trees that nothing refers to are freed; only cycles, and what hangs off
\* them, stay behind.
OnlyCyclesLeak ==
  frames = <<>> =>
    \A c \in alive \ Observed :
      \E d \in alive \ Observed : c \in Below({d}) /\ d \in Below(Children({d}))

\* The components from which a path of n components starts.
Chains(n) ==
  LET from[k \in 1..n] ==
        IF k = 1 THEN alive ELSE {c \in alive : Children({c}) \cap from[k - 1] # {}}
  IN  from[n]

\* The pairs of components that differ, in name or number of children, at once or
\* at the end of some path.
Unlike ==
  LET pairs == alive \X alive
      apart[k \in 0..Cardinality(pairs)] ==
        IF k = 0
          THEN {p \in pairs : \/ (p[1] \in Renamed) # (p[2] \in Renamed)
                              \/ Len(ChildList(p[1])) # Len(ChildList(p[2]))}
          ELSE apart[k - 1] \cup
               {p \in pairs : \E i \in DOMAIN ChildList(p[1]) \cap DOMAIN ChildList(p[2]) :
                              <<ChildList(p[1])[i], ChildList(p[2])[i]>> \in apart[k - 1]}
  IN  apart[Cardinality(pairs)]

\* Components convert, without running out of stack, exactly when no more than
\* MAX_TREE_DEPTH of them lie within one another: so do all that parse can give,
\* whose max_depth is no larger (parse_options), and no cyclic ones.  And __eq__
\* has "the same depth cap as tree conversion": components that compare as equal
\* both convert, to the same tree; those that both convert compare without
\* raising; and those found different are, wherever the walk was cut off.
WalksAgree ==
  frames = <<>> =>
    /\ \A c \in held : ToCore[c, 0] = {} <=> c \in Chains(MAX_TREE_DEPTH + 1)
    /\ \A a, b \in held :
         CASE EqAt[a, b, 0] = "same" -> ToCore[a, 0] # {} /\ ToCore[a, 0] = ToCore[b, 0]
           [] EqAt[a, b, 0] = "different" -> <<a, b>> \in Unlike
           [] EqAt[a, b, 0] = "raises" -> {a, b} \subseteq Chains(MAX_TREE_DEPTH + 1)

\* Every deallocation ends.
DeallocEnds == frames # <<>> ~> frames = <<>>
=============================================================================
