---------------------- MODULE FunctionDependenciesProofs ----------------------
(***************************************************************************)
(* Proof that get_function_dependencies cleans up its dependencies on every *)
(* path, for any number of generator dependencies: CleanupInv is inductive  *)
(* and implies ScopedCleanup.                                               *)
(***************************************************************************)
EXTENDS FunctionDependencies, SequenceTheorems, TLAPS

USE FunctionDependenciesAssumptions

\* The initial state satisfies the invariant.
LEMMA CleanupInit == Init => CleanupInv
<1> SUFFICES ASSUME Init PROVE CleanupInv
  OBVIOUS
<1>1. TypeOK
  BY EmptySeq DEF Init, TypeOK, PCs
<1>2. usedOpen
  BY DEF Init
<1>3. QED
  BY <1>1, <1>2, EmptySeq DEF Init, CleanupInv

\* Entering a dependency pushes it on the stack and on the history.
LEMMA EnterPreserves ==
    ASSUME CleanupInv, EnterDependency PROVE CleanupInv'
<1> DEFINE n == Len(entered) + 1
<1>1. n \in Deps /\ exited = <<>>
  BY DEF EnterDependency, CleanupInv, TypeOK, Deps
<1>2. /\ stack' = Append(stack, n) /\ entered' = Append(entered, n)
      /\ UNCHANGED <<pc, exited, failing, usedOpen, backgroundTasks, errors>>
  BY DEF EnterDependency
<1>3. /\ stack' \in Seq(Deps) /\ entered' \in Seq(Deps)
      /\ Len(stack') = Len(stack) + 1 /\ Len(entered') = Len(entered) + 1
      /\ \A j \in 1..Len(stack) : stack'[j] = stack[j]
      /\ \A j \in 1..Len(entered) : entered'[j] = entered[j]
      /\ stack'[Len(stack) + 1] = n /\ entered'[Len(entered) + 1] = n
  BY <1>1, <1>2, AppendProperties DEF CleanupInv, TypeOK
<1>4. Len(stack) = Len(entered)
  BY <1>1 DEF CleanupInv, TypeOK
<1>5. \A j \in 1..Len(stack') : stack'[j] = entered'[j]
  BY <1>3, <1>4 DEF CleanupInv, TypeOK
<1>6. QED
  BY <1>1, <1>2, <1>3, <1>4, <1>5 DEF CleanupInv, TypeOK, EnterDependency

\* Popping the top of a nonempty sequence keeps the rest in place.
LEMMA PopProperties ==
    ASSUME NEW S, NEW s \in Seq(S), Len(s) \in Nat \ {0}
    PROVE  /\ SubSeq(s, 1, Len(s) - 1) \in Seq(S)
           /\ Len(SubSeq(s, 1, Len(s) - 1)) = Len(s) - 1
           /\ \A j \in 1..Len(s) - 1 : SubSeq(s, 1, Len(s) - 1)[j] = s[j]
<1>1. SubSeq(s, 1, Len(s) - 1) = [j \in 1..Len(s) - 1 |-> s[j]]
  OBVIOUS
<1>2. [j \in 1..Len(s) - 1 |-> s[j]] \in Seq(S)
  BY IsASeq
<1>3. Len([j \in 1..Len(s) - 1 |-> s[j]]) = Len(s) - 1
  OBVIOUS
<1>4. QED
  BY <1>1, <1>2, <1>3, Zenon

\* Exiting the top of the stack extends the exits by the latest entry not
\* yet exited.
LEMMA ExitPreserves ==
    ASSUME CleanupInv, ExitDependency PROVE CleanupInv'
<1> DEFINE top == stack[Len(stack)]
<1>1. /\ stack \in Seq(Deps) /\ exited \in Seq(Deps) /\ entered \in Seq(Deps)
      /\ Len(stack) \in Nat \ {0} /\ top \in Deps
  BY EmptySeq DEF ExitDependency, CleanupInv, TypeOK
<1>2. /\ stack' = SubSeq(stack, 1, Len(stack) - 1)
      /\ exited' = Append(exited, top)
      /\ UNCHANGED <<pc, entered, usedOpen, backgroundTasks, errors>>
      /\ failing' \in BOOLEAN
      /\ pc = "unwinding"
  BY DEF ExitDependency
<1>3. /\ stack' \in Seq(Deps) /\ Len(stack') = Len(stack) - 1
      /\ \A j \in 1..Len(stack) - 1 : stack'[j] = stack[j]
  <2>1. /\ SubSeq(stack, 1, Len(stack) - 1) \in Seq(Deps)
        /\ Len(SubSeq(stack, 1, Len(stack) - 1)) = Len(stack) - 1
        /\ \A j \in 1..Len(stack) - 1 :
              SubSeq(stack, 1, Len(stack) - 1)[j] = stack[j]
    BY <1>1, PopProperties
  <2>2. QED
    BY <1>2, <2>1, Zenon
<1>4. /\ exited' \in Seq(Deps) /\ Len(exited') = Len(exited) + 1
      /\ \A j \in 1..Len(exited) : exited'[j] = exited[j]
      /\ exited'[Len(exited) + 1] = top
  <2>1. /\ Append(exited, top) \in Seq(Deps)
        /\ Len(Append(exited, top)) = Len(exited) + 1
        /\ \A j \in 1..Len(exited) : Append(exited, top)[j] = exited[j]
        /\ Append(exited, top)[Len(exited) + 1] = top
    BY <1>1, AppendProperties
  <2>2. QED
    BY <1>2, <2>1, Zenon
<1>5. Len(entered') = Len(stack') + Len(exited')
  <2>1. Len(entered) = Len(stack) + Len(exited)
    BY DEF CleanupInv
  <2>2. Len(stack) \in Nat /\ Len(exited) \in Nat
    BY <1>1
  <2>3. entered' = entered
    BY <1>2, Zenon
  <2>4. Len(stack') = Len(stack) - 1 /\ Len(exited') = Len(exited) + 1
    BY <1>3, <1>4
  <2>5. QED
    BY <2>1, <2>2, <2>3, <2>4
<1>6. \A j \in 1..Len(stack') : stack'[j] = entered'[j]
  BY <1>1, <1>2, <1>3 DEF CleanupInv
<1>7. \A j \in 1..Len(exited') : exited'[j] = entered'[Len(entered') - j + 1]
  <2>1. Len(exited) \in Nat
    BY <1>1
  <2> SUFFICES ASSUME NEW j \in 1..Len(exited')
               PROVE  exited'[j] = entered[Len(entered) - j + 1]
    BY <1>2
  <2>2. CASE j <= Len(exited)
    BY <1>4, <2>1, <2>2 DEF CleanupInv
  <2>3. CASE j = Len(exited) + 1
    <3>1. top = entered[Len(entered) - (Len(exited) + 1) + 1]
      BY <1>1 DEF CleanupInv
    <3>2. QED
      BY <1>4, <2>3, <3>1
  <2>4. QED
    BY <1>4, <2>1, <2>2, <2>3
<1>8. TypeOK'
  BY <1>2, <1>3, <1>4 DEF CleanupInv, TypeOK, PCs
<1>9. QED
  BY <1>2, <1>5, <1>6, <1>7, <1>8 DEF CleanupInv

\* The body runs with the stack equal to the history of entries.
LEMMA BodyPreserves ==
    ASSUME CleanupInv, Body PROVE CleanupInv'
<1>1. exited = <<>> /\ stack \in Seq(Deps) /\ entered \in Seq(Deps)
  BY DEF Body, CleanupInv, TypeOK
<1>2. Len(stack) = Len(entered)
  BY <1>1 DEF CleanupInv
<1>3. stack = entered
  BY <1>1, <1>2, SeqEqual DEF CleanupInv
<1>4. usedOpen' = TRUE
  BY <1>3 DEF Body, CleanupInv
<1>5. QED
  BY <1>1, <1>4 DEF Body, CleanupInv, TypeOK, PCs

\* Every step keeps the invariant.
LEMMA CleanupNext == CleanupInv /\ [Next]_vars => CleanupInv'
<1> SUFFICES ASSUME CleanupInv, [Next]_vars PROVE CleanupInv'
  OBVIOUS
<1>1. CASE Call
  BY <1>1 DEF Call, CleanupInv, TypeOK, PCs
<1>2. CASE EnterDependency
  BY <1>2, EnterPreserves
<1>3. CASE Solved
  BY <1>3 DEF Solved, CleanupInv, TypeOK, PCs
<1>4. CASE CheckResults
  BY <1>4 DEF CheckResults, CleanupInv, TypeOK, PCs
<1>5. CASE Body
  BY <1>5, BodyPreserves
<1>6. CASE ExitDependency
  BY <1>6, ExitPreserves
<1>7. CASE Finish
  BY <1>7 DEF Finish, CleanupInv, TypeOK, PCs
<1>8. CASE UNCHANGED vars
  BY <1>8 DEF vars, CleanupInv, TypeOK
<1>9. QED
  BY <1>1, <1>2, <1>3, <1>4, <1>5, <1>6, <1>7, <1>8 DEF Next

\* The invariant gives the property: at the end the exits are the entries
\* read backwards.
LEMMA CleanupImpliesScoped == CleanupInv => ScopedCleanup
<1> SUFFICES ASSUME CleanupInv PROVE ScopedCleanup
  OBVIOUS
<1>1. ASSUME pc \in {"returned", "raised"} PROVE exited = Reversed(entered)
  <2>1. stack = <<>> /\ exited \in Seq(Deps) /\ entered \in Seq(Deps)
    BY <1>1 DEF CleanupInv, TypeOK
  <2>2. Len(exited) = Len(entered)
    BY <2>1 DEF CleanupInv
  <2>3. Reversed(entered) \in Seq(Deps)
    <3>1. \A j \in 1..Len(entered) : entered[Len(entered) - j + 1] \in Deps
      BY <2>1
    <3>2. QED
      BY <2>1, <3>1, IsASeq DEF Reversed
  <2>4. Len(Reversed(entered)) = Len(entered)
    BY <2>1 DEF Reversed
  <2>5. \A j \in 1..Len(exited) : exited[j] = Reversed(entered)[j]
    BY <2>2 DEF CleanupInv, Reversed
  <2>6. QED
    BY <2>1, <2>2, <2>3, <2>4, <2>5, SeqEqual
<1>2. QED
  BY <1>1 DEF CleanupInv, ScopedCleanup

\* Whatever dependency, check or body fails, and whatever the dependencies'
\* cleanup does with the exception, get_function_dependencies hands out its
\* values only while every entered dependency is open and exits every one
\* of them exactly once, last entered first.
THEOREM ScopedCleanupCorrect == Spec => []ScopedCleanup
<1>1. Init => CleanupInv
  BY CleanupInit
<1>2. CleanupInv /\ [Next]_vars => CleanupInv'
  BY CleanupNext
<1>3. CleanupInv => ScopedCleanup
  BY CleanupImpliesScoped
<1>4. QED
  BY <1>1, <1>2, <1>3, PTL DEF Spec

(* For any number of dependencies, and whatever fails, the exit stack is  *)
(* always exactly the entered dependencies not yet exited, in entry       *)
(* order; the exits so far are the latest entries, latest first; nothing  *)
(* is exited before the body ran and nothing is left open at the end.    *)
THEOREM CleanupInvCorrect == Spec => []CleanupInv
BY CleanupInit, CleanupNext, PTL DEF Spec
=============================================================================
