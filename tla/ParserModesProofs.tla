------------------------- MODULE ParserModesProofs -------------------------
(***************************************************************************)
(* For every vocabulary of lines, every depth cap and every document: the  *)
(* lenient parser records no repair exactly when the strict one succeeds,  *)
(* and then both build the same tree.                                      *)
(***************************************************************************)
EXTENDS ParserModes, SequenceTheorems, TLAPS



\* The two parsers are in lockstep until the first strict error.
Lockstep ==
  /\ lRepairs = <<>>
  /\ sInput = lInput
  /\ sStack = lStack
  /\ sRoots = lRoots
  /\ sOutcome = lOutcome

IsSeq(s) == s \in Seq(Range(s))

\* RepairsIffInvalid and ModesAgree are not inductive alone: that the strict
\* parser fails with the lenient one rests on their having built the same
\* stack so far, and that repairs are never taken back on the log's type.
IInv ==
  /\ lInput \in Seq(S!Line)
  /\ IsSeq(lStack)
  /\ lRepairs \in Seq(S!Repair)
  /\ lOutcome \in {"reading", "parsed"}
  /\ sOutcome \in S!ErrorKinds \/ Lockstep
  /\ sOutcome \in S!ErrorKinds => lRepairs # <<>>

-----------------------------------------------------------------------------
(* Facts about what a step records. *)

\* The kinds a set of repairs is drawn from, put in sequences.
LEMMA Singleton ==
  ASSUME NEW T, NEW k \in T
  PROVE  <<k>> \in Seq(T) /\ <<k>> # <<>>
<1>1. <<k>> = Append(<<>>, k)
  OBVIOUS
<1> QED
  BY <1>1, EmptySeq, AppendProperties

LEMMA Optional ==
  ASSUME NEW T, NEW b, NEW k \in T
  PROVE  LET s == IF b THEN <<k>> ELSE <<>>
         IN  s \in Seq(T) /\ (s = <<>> <=> ~b)
BY Singleton, EmptySeq

\* Concatenating kinds.
LEMMA Joined ==
  ASSUME NEW T, NEW a \in Seq(T), NEW b \in Seq(T)
  PROVE  a \o b \in Seq(T) /\ (a \o b = <<>> <=> a = <<>> /\ b = <<>>)
BY ConcatProperties, ConcatEqualIffEmpty

\* The repairs a lenient line can carry: none exactly when the strict parser
\* accepts its content, and its delimiter if it has one.
LEMMA LineRepairFacts ==
  ASSUME NEW l \in S!Line
  PROVE  /\ L!ContentRepairs(l) \in Seq(S!RepairKinds)
         /\ L!ContentRepairs(l) = <<>> <=> l.content # "repaired"
         /\ L!DelimiterRepairs(l) \in Seq(S!RepairKinds)
         /\ L!DelimiterRepairs(l) = <<>> <=>
              /\ ~(l.form # "unnamed" /\ l.dressed)
              /\ ~(l.form = "named" /\ l.name \notin StrictNames)
         /\ L!LineRepairs(l) \in Seq(S!RepairKinds)
         /\ L!LineRepairs(l) = <<>> <=>
              L!ContentRepairs(l) = <<>> /\ L!DelimiterRepairs(l) = <<>>
<1>1. "ContentLine" \in S!RepairKinds /\ "NormalizedDelimiter" \in S!RepairKinds
      /\ "NonstandardName" \in S!RepairKinds
  BY DEF S!RepairKinds
<1>2. /\ L!ContentRepairs(l) \in Seq(S!RepairKinds)
      /\ L!ContentRepairs(l) = <<>> <=> l.content # "repaired"
  BY <1>1, Optional DEF L!ContentRepairs
<1> DEFINE dressed == IF l.form # "unnamed" /\ l.dressed
                        THEN <<"NormalizedDelimiter">> ELSE <<>>
           named == IF l.form = "named" /\ l.name \notin StrictNames
                      THEN <<"NonstandardName">> ELSE <<>>
<1>3. dressed \in Seq(S!RepairKinds)
      /\ (dressed = <<>> <=> ~(l.form # "unnamed" /\ l.dressed))
  BY <1>1, Optional
<1>4. named \in Seq(S!RepairKinds)
      /\ (named = <<>> <=> ~(l.form = "named" /\ l.name \notin StrictNames))
  BY <1>1, Optional
<1>5. L!DelimiterRepairs(l) = dressed \o named
  BY DEF L!DelimiterRepairs
<1> HIDE DEF dressed, named
<1>6. L!DelimiterRepairs(l) \in Seq(S!RepairKinds)
      /\ (L!DelimiterRepairs(l) = <<>> <=> dressed = <<>> /\ named = <<>>)
  BY <1>3, <1>4, <1>5, Joined
<1>7. L!LineRepairs(l) \in Seq(S!RepairKinds)
      /\ (L!LineRepairs(l) = <<>> <=>
            L!ContentRepairs(l) = <<>> /\ L!DelimiterRepairs(l) = <<>>)
  BY <1>2, <1>6, Joined DEF L!LineRepairs
<1> QED
  BY <1>2, <1>3, <1>4, <1>6, <1>7

-----------------------------------------------------------------------------
(* The lenient parser's stack. *)

LEMMA StackSteps ==
  ASSUME NEW s, IsSeq(s), NEW c
  PROVE  /\ Len(s) \in Nat
         /\ IsSeq(Append(s, c))
         /\ s # <<>> => IsSeq([s EXCEPT ![Len(s)] = c])
         /\ \A k \in 1..Len(s) : IsSeq(SubSeq(s, 1, k - 1))
<1> DEFINE T == Range(s) \cup {c}
<1>1. s \in Seq(T)
  BY SeqMonotonic DEF IsSeq
<1>2. Len(s) \in Nat
  BY <1>1, LenProperties
<1> c \in T
  OBVIOUS
<1>3. \A t \in Seq(T) : IsSeq(t)
  BY SeqOfRange DEF IsSeq
<1> HIDE DEF T
<1>4. Append(s, c) \in Seq(T)
  BY <1>1, AppendProperties
<1>5. s # <<>> => [s EXCEPT ![Len(s)] = c] \in Seq(T)
  <2>1. s # <<>> => Len(s) \in 1..Len(s)
    BY <1>1, EmptySeq
  <2> QED
    BY <1>1, <2>1, ExceptSeq
<1>6. \A k \in 1..Len(s) : SubSeq(s, 1, k - 1) \in Seq(T)
  <2> TAKE k \in 1..Len(s)
  <2>1. \A i \in 1..(k - 1) : s[i] \in T
    BY <1>1, <1>2, ElementOfSeq
  <2> QED
    BY <1>2, <2>1, SubSeqProperties
<1> QED
  BY <1>2, <1>3, <1>4, <1>5, <1>6

\* Closing components leaves a sequence on the stack.
LEMMA CloseSteps ==
  ASSUME IsSeq(lStack), NEW k \in 1..Len(lStack)
  PROVE  IsSeq(L!CloseDownTo(k).stack)
<1> DEFINE s == SubSeq(lStack, 1, k - 1)
           c == L!Collapsed(lStack)[k]
           d == L!AddChild(s[Len(s)], c)
<1>1. IsSeq(s)
  BY StackSteps
<1>2. L!CloseDownTo(k).stack =
        IF s = <<>> THEN s ELSE [s EXCEPT ![Len(s)] = d]
  BY DEF L!CloseDownTo, L!AttachTo
<1> HIDE DEF s, c, d
<1>3. s # <<>> => IsSeq([s EXCEPT ![Len(s)] = d])
  BY <1>1, StackSteps
<1> QED
  BY <1>1, <1>2, <1>3

-----------------------------------------------------------------------------
(* One line of the lenient parser. *)

\* A line that strict mode has nothing against.
Impeccable(l) ==
  /\ l.content # "repaired"
  /\ L!IsDelimiter(l) => l.form = "named" /\ ~l.dressed /\ l.name \in StrictNames

\* Recording kinds keeps the log a sequence of repairs, and leaves it empty
\* only if it was empty and there was nothing to record.
LEMMA RecordStep ==
  ASSUME IInv, lInput' \in Seq(S!Line), NEW kinds \in Seq(S!RepairKinds),
         L!Record(kinds)
  PROVE  lRepairs' \in Seq(S!Repair)
         /\ (lRepairs' = <<>> <=> lRepairs = <<>> /\ kinds = <<>>)
<1> DEFINE n == Len(lInput')
           noted == [i \in DOMAIN kinds |-> [line |-> n, kind |-> kinds[i]]]
<1>1. lRepairs \in Seq(S!Repair)
  BY DEF IInv
<1>2. lRepairs' = lRepairs \o noted
  BY DEF L!Record
<1>3. n \in Nat
  BY LenProperties
<1> HIDE DEF n
<1>4. Len(kinds) \in Nat /\ DOMAIN kinds = 1..Len(kinds)
  BY LenProperties
<1>5. \A i \in 1..Len(kinds) : kinds[i] \in S!RepairKinds
  BY ElementOfSeq
<1>6. noted \in Seq(S!Repair) /\ Len(noted) = Len(kinds)
  BY <1>3, <1>4, <1>5 DEF S!Repair
<1>7. \A T : \A s \in Seq(T) : s = <<>> <=> Len(s) = 0
  BY EmptySeq
<1>8. noted = <<>> <=> kinds = <<>>
  BY <1>6, <1>7
<1> HIDE DEF noted
<1> QED
  BY <1>1, <1>2, <1>6, <1>8, Joined

\* A recovery that drops the line always says so.
LEMMA DropStep ==
  ASSUME IInv, lInput' \in Seq(S!Line), NEW kinds \in Seq(S!RepairKinds),
         NEW drop \in S!RepairKinds, NEW error,
         L!RecoverOr(error, kinds \o <<drop>>)
  PROVE  /\ lRepairs' \in Seq(S!Repair)
         /\ lRepairs' # <<>>
         /\ UNCHANGED <<lStack, lRoots, lOutcome>>
<1>1. kinds \o <<drop>> \in Seq(S!RepairKinds) /\ kinds \o <<drop>> # <<>>
  BY Singleton, Joined
<1>2. L!Record(kinds \o <<drop>>) /\ UNCHANGED <<lStack, lRoots, lOutcome>>
  BY DEF L!RecoverOr
<1> QED
  BY <1>1, <1>2, RecordStep

LEMMA LenientLine ==
  ASSUME IInv, NEW l \in Lines, L!ReadLine(l)
  PROVE  /\ lInput' = Append(lInput, l) /\ lInput' \in Seq(S!Line)
         /\ IsSeq(lStack')
         /\ lRepairs' \in Seq(S!Repair)
         /\ lOutcome' = lOutcome
         /\ lRepairs # <<>> => lRepairs' # <<>>
         /\ lRepairs' = <<>> =>
              /\ Impeccable(l)
              /\ L!OpenComponent(l) \/ L!CloseInnermost(l) \/ L!AddProperty(l)
<1> DEFINE Goal == /\ IsSeq(lStack')
                   /\ lRepairs' \in Seq(S!Repair)
                   /\ lOutcome' = lOutcome
                   /\ lRepairs # <<>> => lRepairs' # <<>>
                   /\ lRepairs' = <<>> =>
                        /\ Impeccable(l)
                        /\ L!OpenComponent(l) \/ L!CloseInnermost(l) \/ L!AddProperty(l)
<1> l \in S!Line
  BY ModesAssumption
<1>1. lInput' = Append(lInput, l) /\ lInput' \in Seq(S!Line)
  BY AppendProperties DEF IInv, L!ReadLine
<1>2. IsSeq(lStack)
  BY DEF IInv
<1>3. {"DroppedLine", "ClosedUnterminated", "IgnoredUnmatchedEnd",
       "DroppedContentOutsideComponent"} \subseteq S!RepairKinds
  BY DEF S!RepairKinds
<1>4. L!ContentRepairs(l) \o L!DelimiterRepairs(l) \in Seq(S!RepairKinds)
  BY LineRepairFacts DEF L!LineRepairs
<1>5. ASSUME L!LineRepairs(l) = <<>>, L!Accepted(l), L!HasName(l)
      PROVE  Impeccable(l)
  BY <1>5, LineRepairFacts DEF Impeccable, L!HasName
<1>6. CASE L!DropUnparseable(l)
  BY <1>1, <1>2, <1>3, <1>6, LineRepairFacts, DropStep DEF L!DropUnparseable
<1>7. CASE L!DropMalformedDelimiter(l)
  BY <1>1, <1>2, <1>3, <1>4, <1>7, DropStep DEF L!DropMalformedDelimiter
<1>8. CASE L!OpenComponent(l)
  <2>1. lStack' = Append(lStack, L!NewComponent(l.name))
    BY <1>8 DEF L!OpenComponent
  <2>2. IsSeq(lStack')
    BY <1>2, <2>1, StackSteps
  <2>3. L!Record(L!LineRepairs(l)) /\ lOutcome' = lOutcome /\ L!Accepted(l)
        /\ L!HasName(l)
    BY <1>8 DEF L!OpenComponent
  <2> QED
    BY <1>1, <1>5, <1>8, <2>2, <2>3, LineRepairFacts, RecordStep
<1>9. CASE L!DropTooDeep(l)
  BY <1>1, <1>2, <1>3, <1>9, LineRepairFacts, DropStep DEF L!DropTooDeep
<1>10. CASE L!CloseInnermost(l)
  <2>1. Len(lStack) \in 1..Len(lStack)
    <3>1. Len(lStack) \in DOMAIN lStack
      BY <1>10 DEF L!CloseInnermost, L!Matches
    <3> QED
      BY <1>2, <3>1, LenProperties DEF IsSeq
  <2>2. IsSeq(lStack')
    BY <1>2, <1>10, <2>1, CloseSteps DEF L!CloseInnermost
  <2>3. L!Record(L!LineRepairs(l)) /\ lOutcome' = lOutcome /\ L!Accepted(l)
        /\ L!HasName(l)
    BY <1>10 DEF L!CloseInnermost
  <2> QED
    BY <1>1, <1>5, <1>10, <2>2, <2>3, LineRepairFacts, RecordStep
<1>11. CASE L!CloseOuter(l)
  <2>1. PICK k \in L!Matches(l.name) :
          /\ k < Len(lStack)
          /\ L!Record(L!LineRepairs(l)
                \o [i \in 1..(Len(lStack) - k) |-> "ClosedUnterminated"])
          /\ lStack' = L!CloseDownTo(k).stack
          /\ lOutcome' = lOutcome
    BY <1>11 DEF L!CloseOuter
  <2>2. k \in 1..Len(lStack)
    BY <1>2, <2>1, LenProperties DEF IsSeq, L!Matches
  <2>3. IsSeq(lStack')
    BY <1>2, <2>1, <2>2, CloseSteps
  <2> DEFINE closed == [i \in 1..(Len(lStack) - k) |-> "ClosedUnterminated"]
  <2>4. Len(lStack) - k \in Nat \ {0}
    BY <1>2, <2>1, <2>2, LenProperties DEF IsSeq
  <2>5. closed \in Seq(S!RepairKinds) /\ Len(closed) # 0
    BY <1>3, <2>4
  <2>6. closed # <<>>
    BY <2>5, EmptySeq
  <2> HIDE DEF closed
  <2>7. L!LineRepairs(l) \o closed \in Seq(S!RepairKinds)
        /\ L!LineRepairs(l) \o closed # <<>>
    BY <2>5, <2>6, LineRepairFacts, Joined
  <2>8. L!Record(L!LineRepairs(l) \o closed)
    BY <2>1 DEF closed
  <2> QED
    BY <1>1, <2>1, <2>3, <2>7, <2>8, RecordStep
<1>12. CASE L!IgnoreUnmatchedEnd(l)
  BY <1>1, <1>2, <1>3, <1>12, LineRepairFacts, DropStep DEF L!IgnoreUnmatchedEnd
<1>13. CASE L!AddProperty(l)
  <2>1. /\ lStack # <<>>
        /\ lStack' = [lStack EXCEPT ![Len(lStack)] =
                        L!AddChild(lStack[Len(lStack)], [prop |-> l.prop])]
    BY <1>13 DEF L!AddProperty
  <2>2. IsSeq(lStack')
    <3> DEFINE c == L!AddChild(lStack[Len(lStack)], [prop |-> l.prop])
    <3>1. lStack' = [lStack EXCEPT ![Len(lStack)] = c]
      BY <2>1
    <3>2. lStack # <<>>
      BY <2>1
    <3> HIDE DEF c
    <3>3. IsSeq([lStack EXCEPT ![Len(lStack)] = c])
      BY <1>2, <3>2, StackSteps
    <3> QED
      BY <3>1, <3>3
  <2>3. L!Record(L!ContentRepairs(l)) /\ lOutcome' = lOutcome /\ ~L!IsDelimiter(l)
    BY <1>13 DEF L!AddProperty, L!IsDelimiter
  <2> QED
    BY <1>1, <1>13, <2>2, <2>3, LineRepairFacts, RecordStep DEF Impeccable
<1>14. CASE L!DropOutside(l)
  BY <1>1, <1>2, <1>3, <1>14, LineRepairFacts, DropStep DEF L!DropOutside
<1>15. Goal
  BY <1>6, <1>7, <1>8, <1>9, <1>10, <1>11, <1>12, <1>13, <1>14 DEF L!ReadLine
<1> QED
  BY <1>1, <1>15

-----------------------------------------------------------------------------
(* Both parsers together. *)

\* In lockstep, a line is either handled the same way by both parsers, or the
\* strict one fails on it and the lenient one records a repair.
LEMMA LockstepLine ==
  ASSUME IInv, Lockstep, NEW l \in Lines, L!ReadLine(l), S!ReadLine(l)
  PROVE  \/ sOutcome' \in S!ErrorKinds /\ lRepairs' # <<>>
         \/ Lockstep'
<1> l \in S!Line
  BY ModesAssumption
<1>1. lRepairs' = <<>> =>
        /\ Impeccable(l)
        /\ L!OpenComponent(l) \/ L!CloseInnermost(l) \/ L!AddProperty(l)
  BY LenientLine
<1>2. sInput' = lInput' /\ lOutcome' = sOutcome /\ sOutcome = "reading"
  BY LenientLine DEF Lockstep, S!ReadLine
<1>3. Impeccable(l) /\ L!Accepted(l) => S!Accepted(l)
  BY DEF Impeccable, L!Accepted, S!Accepted, S!Line, S!Content
<1>4. Impeccable(l) /\ L!HasName(l) /\ L!IsDelimiter(l) => S!HasName(l)
  BY DEF Impeccable, L!HasName, S!HasName
<1>5. \A n : L!Matches(n) = S!Matches(n)
  BY DEF Lockstep, L!Matches, S!Matches
<1>6. \A k : L!CloseDownTo(k) = S!CloseDownTo(k)
  BY DEF Lockstep, L!CloseDownTo, S!CloseDownTo, L!AttachTo, S!AttachTo,
         L!Collapsed, S!Collapsed, L!AddChild, S!AddChild
<1>7. S!Accepted(l) => L!Accepted(l) /\ l.content # "repaired"
  BY DEF S!Accepted, L!Accepted
<1>8. S!HasName(l) =>
        L!HasName(l) /\ l.form = "named" /\ ~l.dressed /\ l.name \in StrictNames
  BY DEF S!HasName, L!HasName
<1>9. sStack = lStack /\ sRoots = lRoots /\ lRepairs = <<>>
  BY DEF Lockstep
<1>10. IsSeq(lStack)
  BY DEF IInv
<1>11. lStack # <<>> => Len(lStack) \in DOMAIN lStack
  BY <1>10, LenProperties, EmptySeq DEF IsSeq
<1>12. Len(lStack) \in Nat
  BY <1>10, LenProperties DEF IsSeq
<1> USE DEF L!IsDelimiter, S!IsDelimiter
\* The strict parser fails: had the lenient one recorded nothing, the strict
\* one would have been able to take the same action.
<1>13. CASE S!DropUnparseable(l)
  <2>1. sOutcome' \in S!ErrorKinds
    BY <1>13 DEF S!DropUnparseable, S!RecoverOr, S!ErrorKinds
  <2>2. ~S!Accepted(l)
    BY <1>13 DEF S!DropUnparseable
  <2>3. lRepairs' # <<>>
    BY <1>1, <1>3, <2>2 DEF L!OpenComponent, L!CloseInnermost, L!AddProperty
  <2> QED
    BY <2>1, <2>3
<1>14. CASE S!DropMalformedDelimiter(l)
  <2>1. sOutcome' \in S!ErrorKinds
    BY <1>14 DEF S!DropMalformedDelimiter, S!RecoverOr, S!ErrorKinds
  <2>2. S!IsDelimiter(l) /\ ~S!HasName(l)
    BY <1>14 DEF S!DropMalformedDelimiter
  <2>3. lRepairs' # <<>>
    BY <1>1, <1>4, <2>2 DEF L!OpenComponent, L!CloseInnermost, L!AddProperty
  <2> QED
    BY <2>1, <2>3
<1>15. CASE S!DropTooDeep(l)
  <2>1. sOutcome' \in S!ErrorKinds
    BY <1>15 DEF S!DropTooDeep, S!RecoverOr, S!ErrorKinds
  <2>2. l.what = "BEGIN" /\ Len(lStack) >= MaxDepth
    BY <1>9, <1>15 DEF S!DropTooDeep
  <2>3. lRepairs' # <<>>
    BY <1>1, <1>12, <2>2, ModesAssumption
       DEF L!OpenComponent, L!CloseInnermost, L!AddProperty
  <2> QED
    BY <2>1, <2>3
<1>16. CASE S!CloseOuter(l)
  <2>1. sOutcome' \in S!ErrorKinds
    BY <1>16 DEF S!CloseOuter, S!ErrorKinds
  <2>2. PICK k \in L!Matches(l.name) :
          l.what = "END" /\ S!IsInnermost(k, L!Matches(l.name)) /\ k < Len(lStack)
    BY <1>5, <1>9, <1>16 DEF S!CloseOuter
  <2>3. k \in Nat
    BY <1>10, <2>2, LenProperties DEF L!Matches, IsSeq
  <2>4. Len(lStack) \notin L!Matches(l.name)
    BY <1>12, <2>2, <2>3 DEF S!IsInnermost
  <2>5. lRepairs' # <<>>
    BY <1>1, <2>2, <2>4 DEF L!OpenComponent, L!CloseInnermost, L!AddProperty
  <2> QED
    BY <2>1, <2>5
<1>17. CASE S!IgnoreUnmatchedEnd(l)
  <2>1. sOutcome' \in S!ErrorKinds
    BY <1>17 DEF S!IgnoreUnmatchedEnd, S!RecoverOr, S!ErrorKinds
  <2>2. l.what = "END" /\ L!Matches(l.name) = {}
    BY <1>5, <1>17 DEF S!IgnoreUnmatchedEnd
  <2>3. lRepairs' # <<>>
    BY <1>1, <2>2 DEF L!OpenComponent, L!CloseInnermost, L!AddProperty
  <2> QED
    BY <2>1, <2>3
<1>18. CASE S!DropOutside(l)
  <2>1. sOutcome' \in S!ErrorKinds
    BY <1>18 DEF S!DropOutside, S!RecoverOr, S!ErrorKinds
  <2>2. l.what = "property" /\ lStack = <<>>
    BY <1>9, <1>18 DEF S!DropOutside
  <2>3. lRepairs' # <<>>
    BY <1>1, <2>2 DEF L!OpenComponent, L!CloseInnermost, L!AddProperty
  <2> QED
    BY <2>1, <2>3
\* The strict parser uses the line, and so does the lenient one, unrepaired.
<1>19. S!Accepted(l) => L!ContentRepairs(l) = <<>>
  BY <1>7, LineRepairFacts
<1>20. S!Accepted(l) /\ S!HasName(l) => L!LineRepairs(l) = <<>>
  BY <1>8, <1>19, LineRepairFacts
<1>21. lInput' \in Seq(S!Line)
  BY LenientLine
<1>22. CASE S!OpenComponent(l)
  <2>1. S!Accepted(l) /\ S!HasName(l) /\ l.what = "BEGIN" /\ Len(lStack) < MaxDepth
    BY <1>9, <1>22 DEF S!OpenComponent
  <2>2. L!OpenComponent(l)
    BY <1>7, <1>8, <1>12, <2>1, ModesAssumption
       DEF L!ReadLine, L!DropUnparseable, L!DropMalformedDelimiter, L!DropTooDeep,
           L!CloseInnermost, L!CloseOuter, L!IgnoreUnmatchedEnd, L!AddProperty,
           L!DropOutside
  <2>3. lRepairs' = <<>>
    <3>1. L!Record(L!LineRepairs(l)) /\ L!LineRepairs(l) = <<>>
      BY <1>20, <2>1, <2>2 DEF L!OpenComponent
    <3> QED
      BY <1>9, <1>21, <3>1, LineRepairFacts, RecordStep
  <2>4. sStack' = lStack' /\ sRoots' = lRoots' /\ sOutcome' = lOutcome'
    BY <1>2, <1>9, <1>22, <2>2
       DEF L!OpenComponent, S!OpenComponent, L!NewComponent, S!NewComponent
  <2> QED
    BY <1>2, <2>3, <2>4 DEF Lockstep
<1>23. CASE S!CloseInnermost(l)
  <2>1. /\ S!Accepted(l) /\ S!HasName(l) /\ l.what = "END"
        /\ Len(lStack) \in L!Matches(l.name)
    BY <1>5, <1>9, <1>23 DEF S!CloseInnermost
  <2>2. ~L!CloseOuter(l)
    <3> SUFFICES ASSUME NEW k \in L!Matches(l.name),
                        L!IsInnermost(k, L!Matches(l.name)), k < Len(lStack)
                 PROVE  FALSE
      BY DEF L!CloseOuter
    <3>1. k \in Nat
      BY <1>10, LenProperties DEF L!Matches, IsSeq
    <3> QED
      BY <1>12, <2>1, <3>1 DEF L!IsInnermost
  <2>3. L!CloseInnermost(l)
    BY <1>7, <1>8, <2>1, <2>2
       DEF L!ReadLine, L!DropUnparseable, L!DropMalformedDelimiter, L!DropTooDeep,
           L!OpenComponent, L!IgnoreUnmatchedEnd, L!AddProperty, L!DropOutside
  <2>4. lRepairs' = <<>>
    <3>1. L!Record(L!LineRepairs(l)) /\ L!LineRepairs(l) = <<>>
      BY <1>20, <2>1, <2>3 DEF L!CloseInnermost
    <3> QED
      BY <1>9, <1>21, <3>1, LineRepairFacts, RecordStep
  <2>5. sStack' = lStack' /\ sRoots' = lRoots' /\ sOutcome' = lOutcome'
    BY <1>2, <1>6, <1>9, <1>23, <2>3 DEF L!CloseInnermost, S!CloseInnermost
  <2> QED
    BY <1>2, <2>4, <2>5 DEF Lockstep
<1>24. CASE S!AddProperty(l)
  <2>1. S!Accepted(l) /\ l.what = "property" /\ lStack # <<>>
    BY <1>9, <1>24 DEF S!AddProperty
  <2>2. L!AddProperty(l)
    BY <1>7, <2>1
       DEF L!ReadLine, L!DropUnparseable, L!DropMalformedDelimiter, L!DropTooDeep,
           L!OpenComponent, L!CloseInnermost, L!CloseOuter, L!IgnoreUnmatchedEnd,
           L!DropOutside
  <2>3. lRepairs' = <<>>
    <3>1. L!Record(L!ContentRepairs(l)) /\ L!ContentRepairs(l) = <<>>
      BY <1>19, <2>1, <2>2 DEF L!AddProperty
    <3> QED
      BY <1>9, <1>21, <3>1, LineRepairFacts, RecordStep
  <2>4. sStack' = lStack' /\ sRoots' = lRoots' /\ sOutcome' = lOutcome'
    BY <1>2, <1>9, <1>24, <2>2
       DEF L!AddProperty, S!AddProperty, L!AddChild, S!AddChild
  <2> QED
    BY <1>2, <2>3, <2>4 DEF Lockstep
<1> QED
  BY <1>13, <1>14, <1>15, <1>16, <1>17, <1>18, <1>22, <1>23, <1>24 DEF S!ReadLine

\* The end of the document: both parsers close what is open, or neither has to.
LEMMA LenientEnd ==
  ASSUME IInv, L!EndOfInput
  PROVE  /\ lInput' \in Seq(S!Line)
         /\ IsSeq(lStack')
         /\ lRepairs' \in Seq(S!Repair)
         /\ lOutcome' = "parsed"
         /\ lRepairs # <<>> => lRepairs' # <<>>
         /\ lStack # <<>> => lRepairs' # <<>>
<1>1. lInput' = lInput /\ lInput' \in Seq(S!Line)
  BY DEF IInv, L!EndOfInput, L!Finish, L!FinishUnterminated
<1>2. CASE L!Finish
  BY <1>1, <1>2 DEF IInv, L!Finish
<1>3. CASE L!FinishUnterminated
  <2> DEFINE closed == [i \in DOMAIN lStack |-> "ClosedUnterminated"]
  <2>1. L!Record(closed) /\ lStack' = <<>> /\ lOutcome' = "parsed" /\ lStack # <<>>
    BY <1>3 DEF L!FinishUnterminated
  <2>2. DOMAIN lStack = 1..Len(lStack) /\ Len(lStack) \in Nat \ {0}
    BY <2>1, LenProperties, EmptySeq DEF IInv, IsSeq
  <2>3. "ClosedUnterminated" \in S!RepairKinds
    BY DEF S!RepairKinds
  <2>4. closed \in Seq(S!RepairKinds) /\ Len(closed) # 0
    BY <2>2, <2>3
  <2>5. closed # <<>>
    BY <2>4, EmptySeq
  <2> HIDE DEF closed
  <2>6. lRepairs' \in Seq(S!Repair) /\ lRepairs' # <<>>
    BY <1>1, <2>1, <2>4, <2>5, RecordStep
  <2>7. IsSeq(<<>>)
    BY EmptySeq DEF IsSeq
  <2> QED
    BY <1>1, <2>1, <2>6, <2>7
<1> QED
  BY <1>2, <1>3 DEF L!EndOfInput

LEMMA LockstepEnd ==
  ASSUME IInv, Lockstep, L!EndOfInput, S!EndOfInput
  PROVE  \/ sOutcome' \in S!ErrorKinds /\ lRepairs' # <<>>
         \/ Lockstep'
<1>1. CASE lStack = <<>>
  <2>1. L!Finish /\ S!Finish
    BY <1>1 DEF Lockstep, L!EndOfInput, S!EndOfInput, L!FinishUnterminated,
                S!FinishUnterminated
  <2> QED
    BY <2>1 DEF Lockstep, L!Finish, S!Finish
<1>2. CASE lStack # <<>>
  <2>1. sOutcome' \in S!ErrorKinds
    BY <1>2 DEF Lockstep, S!EndOfInput, S!Finish, S!FinishUnterminated, S!ErrorKinds
  <2> QED
    BY <1>2, <2>1, LenientEnd
<1> QED
  BY <1>1, <1>2

-----------------------------------------------------------------------------
(* The theorems. *)

LEMMA InitIInv == Init => IInv
<1> SUFFICES ASSUME Init PROVE IInv
  OBVIOUS
<1>1. Lockstep
  BY DEF Init, S!Init, L!Init, Lockstep
<1>2. sOutcome \notin S!ErrorKinds
  BY DEF Init, S!Init, S!ErrorKinds
<1>3. \A T : <<>> \in Seq(T)
  BY EmptySeq
<1> QED
  BY <1>1, <1>2, <1>3 DEF IInv, IsSeq, Init, L!Init

LEMMA NextIInv == IInv /\ [Next]_vars => IInv'
<1> SUFFICES ASSUME IInv, [Next]_vars PROVE IInv'
  OBVIOUS
<1>1. ASSUME NEW l \in Lines, ReadLine(l)
      PROVE  IInv'
  <2>1. L!ReadLine(l)
    BY <1>1 DEF ReadLine
  <2>2. /\ lInput' \in Seq(S!Line) /\ IsSeq(lStack') /\ lRepairs' \in Seq(S!Repair)
        /\ lOutcome' = lOutcome /\ (lRepairs # <<>> => lRepairs' # <<>>)
    BY <2>1, LenientLine
  <2>3. CASE sOutcome \in S!ErrorKinds
    <3>1. sOutcome' = sOutcome
      <4>1. ~S!ReadLine(l)
        BY <2>3 DEF S!ReadLine, S!ErrorKinds
      <4> QED
        BY <1>1, <4>1 DEF ReadLine, strictVars
    <3> QED
      BY <2>2, <2>3, <3>1 DEF IInv
  <2>4. CASE sOutcome \notin S!ErrorKinds
    <3>1. Lockstep /\ S!ReadLine(l)
      BY <1>1, <2>4 DEF IInv, ReadLine
    <3>2. (sOutcome' \in S!ErrorKinds /\ lRepairs' # <<>>) \/ Lockstep'
      BY <2>1, <3>1, LockstepLine
    <3>3. sOutcome' = "reading" => sOutcome' \notin S!ErrorKinds
      BY DEF S!ErrorKinds
    <3>4. lOutcome' = "reading"
      BY <2>1, <2>2 DEF L!ReadLine
    <3> QED
      BY <2>2, <3>2, <3>3, <3>4 DEF IInv, Lockstep
  <2> QED
    BY <2>3, <2>4
<1>2. CASE EndOfInput
  <2>1. L!EndOfInput
    BY <1>2 DEF EndOfInput
  <2>2. /\ lInput' \in Seq(S!Line) /\ IsSeq(lStack') /\ lRepairs' \in Seq(S!Repair)
        /\ lOutcome' = "parsed" /\ (lRepairs # <<>> => lRepairs' # <<>>)
    BY <2>1, LenientEnd
  <2>3. CASE sOutcome \in S!ErrorKinds
    <3>1. sOutcome' = sOutcome
      <4>1. ~S!EndOfInput
        BY <2>3 DEF S!EndOfInput, S!Finish, S!FinishUnterminated, S!ErrorKinds
      <4> QED
        BY <1>2, <4>1 DEF EndOfInput, strictVars
    <3> QED
      BY <2>2, <2>3, <3>1 DEF IInv
  <2>4. CASE sOutcome \notin S!ErrorKinds
    <3>1. Lockstep /\ S!EndOfInput
      BY <1>2, <2>4 DEF IInv, EndOfInput
    <3>2. (sOutcome' \in S!ErrorKinds /\ lRepairs' # <<>>) \/ Lockstep'
      BY <2>1, <3>1, LockstepEnd
    <3>3. sOutcome' = "parsed" => sOutcome' \notin S!ErrorKinds
      BY DEF S!ErrorKinds
    <3> QED
      BY <2>2, <3>2, <3>3 DEF IInv, Lockstep
  <2> QED
    BY <2>3, <2>4
<1>3. CASE UNCHANGED vars
  BY <1>3 DEF IInv, Lockstep, vars, IsSeq
<1> QED
  BY <1>1, <1>2, <1>3 DEF Next

\* The lenient parser records no repair exactly when the strict parser
\* accepts, for every document over every vocabulary of lines (parse()).
THEOREM ZeroRepairsIffStrict == Spec => []RepairsIffInvalid
<1>1. IInv => RepairsIffInvalid
  BY DEF IInv, Lockstep, RepairsIffInvalid
<1> QED
  BY <1>1, InitIInv, NextIInv, PTL DEF Spec

\* On the documents strict mode accepts, both modes build the same tree.
THEOREM ModesBuildSameTree == Spec => []ModesAgree
<1>1. IInv => ModesAgree
  BY DEF IInv, Lockstep, ModesAgree
<1> QED
  BY <1>1, InitIInv, NextIInv, PTL DEF Spec
=============================================================================
