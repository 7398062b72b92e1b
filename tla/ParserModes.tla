---------------------------- MODULE ParserModes ----------------------------
(***************************************************************************)
(* The strict and the lenient parser reading the same document, in step.   *)
(* error.rs promises that lenient parsing records no repair exactly when   *)
(* strict parsing would have succeeded; parse.rs and README rely on it as  *)
(* "the zero-repairs <=> strictly-valid invariant".                        *)
(***************************************************************************)
EXTENDS Integers, Sequences

CONSTANTS MaxDepth, Names, StrictNames, Fold, Props, Lines, MaxLines

VARIABLES
  sInput, sStack, sRoots, sRepairs, sOutcome,  \* the strict parse
  lInput, lStack, lRoots, lRepairs, lOutcome   \* the lenient parse

strictVars == <<sInput, sStack, sRoots, sRepairs, sOutcome>>
lenientVars == <<lInput, lStack, lRoots, lRepairs, lOutcome>>
vars == <<sInput, sStack, sRoots, sRepairs, sOutcome,
          lInput, lStack, lRoots, lRepairs, lOutcome>>

S == INSTANCE TreeParser WITH Lenient <- FALSE, input <- sInput,
       stack <- sStack, roots <- sRoots, repairs <- sRepairs, outcome <- sOutcome
L == INSTANCE TreeParser WITH Lenient <- TRUE, input <- lInput,
       stack <- lStack, roots <- lRoots, repairs <- lRepairs, outcome <- lOutcome

ASSUME ModesAssumption ==
  /\ MaxDepth \in Nat
  /\ StrictNames \subseteq Names
  /\ DOMAIN Fold = Names
  /\ Lines \subseteq S!Line
  /\ MaxLines \in Nat

Init == S!Init /\ L!Init

\* The lenient parser reads every line; the strict one until its first error.
ReadLine(l) ==
  /\ Len(lInput) < MaxLines
  /\ L!ReadLine(l)
  /\ \/ S!ReadLine(l)
     \/ sOutcome \in S!ErrorKinds /\ UNCHANGED strictVars

EndOfInput ==
  /\ L!EndOfInput
  /\ \/ S!EndOfInput
     \/ sOutcome \in S!ErrorKinds /\ UNCHANGED strictVars

Next == (\E l \in Lines : ReadLine(l)) \/ EndOfInput

Spec == Init /\ [][Next]_vars

-----------------------------------------------------------------------------
(* Properties. *)

\* "The set of repairs is empty if and only if the input would also have
\* parsed cleanly in strict mode" (error.rs), for every document so far and
\* for the finished parse.
RepairsIffInvalid == lRepairs = <<>> <=> sOutcome \notin S!ErrorKinds

\* On a document strict mode accepts, the two modes build the same tree.
ModesAgree ==
  sOutcome \notin S!ErrorKinds =>
    sStack = lStack /\ sRoots = lRoots /\ sOutcome = lOutcome
=============================================================================
