------------------------ MODULE MCFunctionDependencies ------------------------
(* Model-checking instance of FunctionDependencies.                        *)
EXTENDS FunctionDependencies

\* A callable with up to six generator dependencies in its chain.
MCNumDeps == 6
=============================================================================
