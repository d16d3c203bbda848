------------------------- MODULE FunctionDependencies -------------------------
(***************************************************************************)
(* get_function_dependencies (mountaineer.dependencies.base), an async     *)
(* context manager: inside `async with AsyncExitStack()`, FastAPI's        *)
(* solve_dependencies resolves the callable's dependencies in order,       *)
(* entering each generator dependency on the exit stack; the function then *)
(* raises on background tasks or resolution errors, or yields the values   *)
(* to the caller's `async with` body.  Leaving the stack, normally or by   *)
(* an exception, exits the entered dependencies, last entered first.       *)
(* solve_dependencies is a black box that may enter any prefix of the      *)
(* dependencies and then return or raise.                                  *)
(***************************************************************************)
EXTENDS Naturals, Sequences

CONSTANTS NumDeps   \* generator dependencies of the callable

ASSUME FunctionDependenciesAssumptions == NumDeps \in Nat

Deps == 1..NumDeps

\* The sequence s read from its end.
Reversed(s) == [j \in 1..Len(s) |-> s[Len(s) - j + 1]]

VARIABLES pc,        \* where the call is
          stack,     \* the AsyncExitStack: entered, not yet exited
          entered,   \* every dependency entered, in order (history)
          exited,    \* every dependency exited, in order (history)
          failing,   \* an exception is propagating through the stack
          usedOpen,  \* the caller's body ran with every dependency open
          backgroundTasks, errors  \* what solve_dependencies returned

vars == <<pc, stack, entered, exited, failing, usedOpen, backgroundTasks, errors>>

PCs == {"idle", "solving", "checking", "body", "unwinding", "returned", "raised"}

TypeOK ==
    /\ pc \in PCs
    /\ stack \in Seq(Deps) /\ entered \in Seq(Deps) /\ exited \in Seq(Deps)
    /\ failing \in BOOLEAN /\ usedOpen \in BOOLEAN
    /\ backgroundTasks \in BOOLEAN /\ errors \in BOOLEAN

Init ==
    /\ pc = "idle"
    /\ stack = <<>> /\ entered = <<>> /\ exited = <<>>
    /\ failing = FALSE /\ usedOpen = TRUE
    /\ backgroundTasks = FALSE /\ errors = FALSE

\* The caller enters `async with get_function_dependencies(...)`: url and
\* request are synthesized, get_dependant inspects the callable, and the
\* exit stack is opened.
Call ==
    /\ pc = "idle"
    /\ pc' = "solving"
    /\ UNCHANGED <<backgroundTasks, errors, stack, entered, exited, failing, usedOpen>>

\* solve_dependencies enters the next generator dependency onto the stack.
EnterDependency ==
    /\ pc = "solving"
    /\ Len(entered) < NumDeps
    /\ stack' = Append(stack, Len(entered) + 1)
    /\ entered' = Append(entered, Len(entered) + 1)
    /\ UNCHANGED <<backgroundTasks, errors, pc, exited, failing, usedOpen>>

\* solve_dependencies returns (values, errors, background_tasks, ...), or
\* raises (a dependency raised); the exception leaves the `async with`.
Solved ==
    /\ pc = "solving"
    /\ \/ /\ pc' = "checking" /\ UNCHANGED failing
          /\ backgroundTasks' \in BOOLEAN /\ errors' \in BOOLEAN
       \/ /\ pc' = "unwinding" /\ failing' = TRUE
          /\ UNCHANGED <<backgroundTasks, errors>>
    /\ UNCHANGED <<stack, entered, exited, usedOpen>>

\* Mutant: `yield values` placed after the `async with AsyncExitStack()`
\* block, so the dependencies are exited before the caller uses them.
CheckResultsYieldAfterExit ==
    /\ pc = "checking"
    /\ IF backgroundTasks \/ errors
       THEN pc' = "unwinding" /\ failing' = TRUE /\ UNCHANGED <<stack, exited>>
       ELSE /\ pc' = "body" /\ UNCHANGED failing
            /\ exited' = exited \o Reversed(stack) /\ stack' = <<>>
    /\ UNCHANGED <<entered, usedOpen, backgroundTasks, errors>>

\* `if background_tasks: raise RuntimeError`, then `if errors: raise
\* RuntimeError`, both inside the stack; otherwise `yield values`.
CheckResults ==
    /\ pc = "checking"
    /\ IF backgroundTasks \/ errors
       THEN pc' = "unwinding" /\ failing' = TRUE
       ELSE pc' = "body" /\ UNCHANGED failing
    /\ UNCHANGED <<stack, entered, exited, usedOpen, backgroundTasks, errors>>

\* The caller's body uses the values, then leaves the `async with`,
\* normally or by raising; the exception is thrown into the context
\* manager at its yield, inside the stack.
Body ==
    /\ pc = "body"
    /\ usedOpen' = (usedOpen /\ stack = entered)
    /\ pc' = "unwinding"
    /\ failing' \in BOOLEAN
    /\ UNCHANGED <<backgroundTasks, errors, stack, entered, exited>>

\* AsyncExitStack.__aexit__ exits the most recently entered dependency: the
\* pending exception, if any, is thrown into the dependency's generator at
\* its yield.  The generator may suppress it, re-raise it, or raise one of
\* its own; the stack goes on exiting the rest either way, with whatever
\* exception is now pending.
ExitDependency ==
    /\ pc = "unwinding"
    /\ stack # <<>>
    /\ exited' = Append(exited, stack[Len(stack)])
    /\ stack' = SubSeq(stack, 1, Len(stack) - 1)
    /\ failing' \in BOOLEAN
    /\ UNCHANGED <<backgroundTasks, errors, pc, entered, usedOpen>>

\* The stack is empty: the exception propagates to the caller, or the
\* context manager returns.
Finish ==
    /\ pc = "unwinding"
    /\ stack = <<>>
    /\ pc' = IF failing THEN "raised" ELSE "returned"
    /\ UNCHANGED <<backgroundTasks, errors, stack, entered, exited, failing, usedOpen>>

Next ==
    \/ Call \/ EnterDependency \/ Solved \/ CheckResults \/ Body
    \/ ExitDependency \/ Finish

Spec == Init /\ [][Next]_vars

-----------------------------------------------------------------------------
(* Properties.                                                             *)

\* Whatever fails and wherever: the caller's body only ever sees values
\* whose dependencies are all still open, and once the call has returned or
\* raised, every entered dependency has been exited exactly once, last
\* entered first.
ScopedCleanup ==
    /\ usedOpen
    /\ pc \in {"returned", "raised"} => exited = Reversed(entered)

\* The inductive strengthening of ScopedCleanup: the exit stack is always
\* the entered dependencies not yet exited, and the exits so far are the
\* most recently entered ones, latest first; nothing is exited before the
\* caller's body has run, and nothing is left on the stack at the end.
CleanupInv ==
    /\ TypeOK
    /\ Len(entered) = Len(stack) + Len(exited)
    /\ \A j \in 1..Len(stack) : stack[j] = entered[j]
    /\ \A j \in 1..Len(exited) : exited[j] = entered[Len(entered) - j + 1]
    /\ pc \in {"idle", "solving", "checking", "body"} => exited = <<>>
    /\ pc \in {"returned", "raised"} => stack = <<>>
    /\ usedOpen
=============================================================================
