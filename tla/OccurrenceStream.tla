-------------------------- MODULE OccurrenceStream --------------------------
(***************************************************************************)
(* What expanding a rule promises its caller: the rule's occurrences, each *)
(* once and in order, and then nothing.  An implementation may give up     *)
(* before the last one, but may not leave any out.                         *)
(***************************************************************************)
EXTENDS Integers, Sequences

VARIABLES
  occurrences,   \* the instants of the rule
  delivered,     \* those returned so far
  finished       \* no more will be returned
vars == <<occurrences, delivered, finished>>

Init == occurrences \subseteq Nat /\ delivered = <<>> /\ finished = FALSE

Pending == {t \in occurrences : \A i \in DOMAIN delivered : delivered[i] # t}

Deliver ==
  /\ ~finished
  /\ \E t \in Pending :
       /\ \A u \in Pending : t <= u
       /\ delivered' = Append(delivered, t)
  /\ UNCHANGED <<occurrences, finished>>

Finish == finished' = TRUE /\ UNCHANGED <<occurrences, delivered>>

Next == Deliver \/ Finish
Spec == Init /\ [][Next]_vars
=============================================================================
